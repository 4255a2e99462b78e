--------------------------- MODULE Billing_proofs ---------------------------
(***************************************************************************)
(* Proofs about Billing, for any number of orders, payments and requests,  *)
(* any lengths of the periods and any clock.                               *)
(***************************************************************************)
EXTENDS Billing, WellFoundedInduction, TLAPS

-----------------------------------------------------------------------------
(* The newest of some rows.                                                *)
LEMMA LeastNumber ==
  ASSUME NEW T \in SUBSET Nat, T # {}
  PROVE  \E x \in T : \A y \in T : x <= y
<1>1. PICK x \in T : \A y \in T : ~(<<y, x>> \in OpToRel(<, Nat))
  BY NatLessThanWellFounded, WFMin
<1>2. \A y \in T : ~(y < x)
  BY <1>1 DEF OpToRel
<1> QED
  BY <1>2

(* A set of numbers below n has a greatest one.                            *)
LEMMA GreatestNumber ==
  ASSUME NEW n \in Nat, NEW S \in SUBSET (1..n), S # {}
  PROVE  \E x \in S : \A y \in S : y <= x
<1> DEFINE below == {n - x : x \in S}
<1>1. below \in SUBSET Nat /\ below # {}
  <2>1. \A x \in S : n - x \in Nat
    OBVIOUS
  <2> QED BY <2>1
<1>2. PICK k \in below : \A l \in below : k <= l
  <2> HIDE DEF below
  <2> QED BY <1>1, LeastNumber
<1>3. PICK x \in S : k = n - x
  BY <1>2
<1>4. ASSUME NEW y \in S PROVE y <= x
  <2>1. n - x <= n - y
    BY <1>2, <1>3
  <2> QED BY <2>1
<1> QED
  BY <1>4

-----------------------------------------------------------------------------
OrderRows == [status: OrderStatus, end: Nat, expires: Nat]
SubscriptionRows ==
  [plan: {"free", "paid"}, status: SubscriptionStatus, end: Nat, grace: Nat]
Attempts == [o: Orders \cup {None}, outcome: {"none", "failed", "captured"}]
Activations(n) ==
  [pc: {"idle", "applying"}, p: Payments \cup {None}, sub: 0..n, end: Nat]
Failings(n) ==
  [pc: {"idle", "order", "payment"}, p: Payments \cup {None}, sub: 0..n, created: BOOLEAN]
Sweeps(n) ==
  [pc: {"idle", "orders", "past_due", "grace"}, at: Nat, orders: SUBSET Orders,
   subs: SUBSET ((1..n) \X Nat)]
Histories ==
  [invoices: [Orders -> Nat], overwritten: [Orders -> Nat], lost: BOOLEAN]

(* TypeOK with its records named.                                          *)
Typed ==
  /\ now \in Nat
  /\ order \in [AllOrders -> OrderRows]
  /\ subs \in Seq(SubscriptionRows)
  /\ slot \in [Orders -> Payments \cup {None}]
  /\ gateway \in [Payments -> Attempts]
  /\ handled \subseteq Payments
  /\ apply \in [Transactions -> Activations(Len(subs))]
  /\ failing \in Failings(Len(subs))
  /\ sweep \in Sweeps(Len(subs))
  /\ history \in Histories
  /\ faults \in Nat

(* An attempt is for an order that was created; a handler has a payment.   *)
AttemptsAreReal ==
  /\ \A p \in Payments :
       gateway[p].outcome # "none" => /\ gateway[p].o \in Orders
                                      /\ order[gateway[p].o].status # "none"
  /\ failing.pc # "idle" => failing.p \in Payments /\ gateway[failing.p].outcome # "none"

(* An activation under way is of an order that is not paid, which nobody   *)
(* else writes, and will end where the order's period does.                *)
ActivationsAreOpen ==
  \A o \in Orders :
    apply[o].pc = "applying" => /\ apply[o].p \in Payments
                                /\ order[o].status \notin {"none", "paid"}
                                /\ apply[o].end = order[o].end

(* Each invoice but the last has been overwritten.                         *)
InvoicesAreCounted ==
  \A o \in Orders :
    /\ order[o].status = "paid" => history.invoices[o] <= 1 + history.overwritten[o]
    /\ order[o].status # "paid" => history.invoices[o] <= history.overwritten[o]
    /\ order[o].status = "none" => history.invoices[o] = 0

(* A row whose period is not over grants access.                           *)
Grants(s) == s.status \in {"trialing", "active", "past_due"} /\ s.grace = NoGrace
RowsGrantAccess ==
  ~history.lost => \A i \in 1..Len(subs) : now < subs[i].end => Grants(subs[i])

SweepIsPast == sweep.at <= now

(* Every period that was paid is within that of a row.                     *)
PeriodsAreCovered ==
  ~history.lost =>
    \A o \in Orders : history.invoices[o] > 0 =>
      \E i \in 1..Len(subs) : order[o].end <= subs[i].end

(* The inductive invariant.                                                *)
IInv ==
  /\ Typed /\ AttemptsAreReal /\ ActivationsAreOpen /\ InvoicesAreCounted
  /\ RowsGrantAccess /\ SweepIsPast /\ PeriodsAreCovered

-----------------------------------------------------------------------------
(* findCurrentForEntitlements finds a row if one grants access.            *)
LEMMA CurrentIsARow ==
  ASSUME Typed
  PROVE  /\ Current \in 0..Len(subs)
         /\ (\E i \in 1..Len(subs) : Entitled(subs[i])) => Current # 0
<1> DEFINE rows == {i \in 1..Len(subs) : Entitled(subs[i])}
<1>1. Len(subs) \in Nat
  BY DEF Typed
<1>2. CASE rows = {}
  BY <1>1, <1>2 DEF Current
<1>3. CASE rows # {}
  <2>1. rows \in SUBSET (1..Len(subs))
    OBVIOUS
  <2>2. \E i \in rows : \A j \in rows : j <= i
    <3> HIDE DEF rows
    <3> QED BY <1>1, <1>3, <2>1, GreatestNumber
  <2>3. Current = CHOOSE i \in rows : \A j \in rows : j <= i
    BY <1>3 DEF Current
  <2>4. Current \in rows
    <3> HIDE DEF rows
    <3> QED BY <2>2, <2>3
  <2> QED BY <1>1, <2>4
<1> QED
  BY <1>2, <1>3

(* Each row has an end.                                                    *)
LEMMA EndsAreNumbers ==
  ASSUME Typed, NEW i \in 1..Len(subs)
  PROVE  subs[i].end \in Nat
<1>1. subs[i] \in SubscriptionRows
  BY DEF Typed
<1> QED
  BY <1>1 DEF SubscriptionRows

(* A period starts now, or where the current one ends.                     *)
LEMMA PeriodEndIsNat ==
  ASSUME Typed, NEW plan
  PROVE  PeriodEnd(plan) \in Nat
<1>1. Current # 0 => subs[Current].end \in Nat
  <2>1. Current # 0 => Current \in 1..Len(subs)
    BY CurrentIsARow DEF Typed
  <2> HIDE DEF Current
  <2> QED BY <2>1, EndsAreNumbers
<1>2. now \in Nat /\ PeriodLength \in Nat
  BY ConstantsAssumption DEF Typed
<1> HIDE DEF Current
<1> QED
  BY <1>1, <1>2 DEF PeriodEnd

(* The ways a step changes the rows.                                       *)
LEMMA StatusIsSet ==
  ASSUME Typed, NEW o \in AllOrders, NEW status \in OrderStatus,
         order' = [order EXCEPT ![o].status = status]
  PROVE  /\ order' \in [AllOrders -> OrderRows]
         /\ order'[o].status = status /\ order'[o].end = order[o].end
         /\ \A other \in AllOrders \ {o} : order'[other] = order[other]
<1> DEFINE new == [order[o] EXCEPT !.status = status]
<1>1. order[o] \in OrderRows
  BY DEF Typed
<1>2. new \in OrderRows /\ new.status = status /\ new.end = order[o].end
  BY <1>1 DEF OrderRows
<1>3. order' = [order EXCEPT ![o] = new]
  OBVIOUS
<1> HIDE DEF new
<1> QED
  BY <1>2, <1>3 DEF Typed

(* An update by id changes its row and no other.                           *)
LEMMA RowIsSet ==
  ASSUME Typed, NEW i \in 1..Len(subs), NEW s \in SubscriptionRows,
         subs' = [subs EXCEPT ![i] = s]
  PROVE  /\ subs' \in Seq(SubscriptionRows) /\ Len(subs') = Len(subs)
         /\ subs'[i] = s /\ \A j \in (1..Len(subs)) \ {i} : subs'[j] = subs[j]
  BY DEF Typed

(* An activation extends the row it read, or appends one, and that row     *)
(* grants access.                                                          *)
LEMMA RowIsActivated ==
  ASSUME Typed, NEW i \in 0..Len(subs), NEW o \in AllOrders,
         NEW status \in {"active", "trialing"}, NEW end \in Nat, Activate(i, o, status, end)
  PROVE  /\ subs' \in Seq(SubscriptionRows) /\ Len(subs) <= Len(subs')
         /\ \E k \in 1..Len(subs') :
              /\ subs'[k].end = end /\ Grants(subs'[k])
              /\ k = i \/ k \notin 1..Len(subs)
              /\ \A j \in (1..Len(subs')) \ {k} :
                   j \in 1..Len(subs) /\ subs'[j] = subs[j]
<1> DEFINE new == [plan |-> PlanOf(o), status |-> status, end |-> end, grace |-> NoGrace]
<1>1. new \in SubscriptionRows /\ new.end = end /\ Grants(new)
  BY DEF SubscriptionRows, PlanOf, SubscriptionStatus, NoGrace, Grants
<1>2. Len(subs) \in Nat
  BY DEF Typed
<1>3. CASE i = 0
  <2>1. subs' = Append(subs, new)
    BY <1>3 DEF Activate
  <2> HIDE DEF new
  <2>2. /\ subs' \in Seq(SubscriptionRows) /\ Len(subs') = Len(subs) + 1
        /\ subs'[Len(subs) + 1] = new
        /\ \A j \in 1..Len(subs) : subs'[j] = subs[j]
    BY <1>1, <2>1 DEF Typed
  <2>3. Len(subs) + 1 \in 1..Len(subs') /\ Len(subs) + 1 \notin 1..Len(subs)
    BY <1>2, <2>2
  <2>4. \A j \in (1..Len(subs')) \ {Len(subs) + 1} : j \in 1..Len(subs)
    BY <1>2, <2>2
  <2> QED BY <1>1, <1>2, <2>2, <2>3, <2>4
<1>4. CASE i # 0
  <2>1. i \in 1..Len(subs) /\ subs' = [subs EXCEPT ![i] = new]
    BY <1>2, <1>4 DEF Activate, Extended
  <2> HIDE DEF new
  <2>2. /\ subs' \in Seq(SubscriptionRows) /\ Len(subs') = Len(subs) /\ subs'[i] = new
        /\ \A j \in (1..Len(subs)) \ {i} : subs'[j] = subs[j]
    BY <1>1, <2>1, RowIsSet
  <2> QED BY <1>1, <1>2, <2>1, <2>2
<1> QED
  BY <1>3, <1>4

(* A row that is set past due by a failed payment keeps its end and its    *)
(* access.                                                                 *)
LEMMA PastDueIsSet ==
  ASSUME Typed, NEW i \in 0..Len(subs), PastDue(i)
  PROVE  /\ subs' \in Seq(SubscriptionRows) /\ Len(subs') = Len(subs)
         /\ \A j \in 1..Len(subs) : /\ subs'[j].end = subs[j].end
                                    /\ Grants(subs[j]) => Grants(subs'[j])
<1>1. CASE i = 0
  BY <1>1 DEF PastDue, Typed
<1>2. CASE i # 0
  <2> DEFINE new == [subs[i] EXCEPT !.status = "past_due"]
  <2>1. i \in 1..Len(subs)
    BY <1>2 DEF Typed
  <2>2. subs[i] \in SubscriptionRows
    BY <2>1 DEF Typed
  <2>3. new \in SubscriptionRows /\ new.end = subs[i].end /\ (Grants(subs[i]) => Grants(new))
    BY <2>2 DEF SubscriptionRows, SubscriptionStatus, Grants
  <2>4. subs' = [subs EXCEPT ![i] = new]
    BY <1>2, <2>1 DEF PastDue
  <2> HIDE DEF new
  <2> QED BY <2>1, <2>3, <2>4, RowIsSet
<1> QED
  BY <1>1, <1>2

(* The rows that the sweep marks are not under a period that is not over.  *)
LEMMA SweptRowIsSet ==
  ASSUME IInv, NEW row \in sweep.subs, MarkPastDue(row) \/ ExpireSubscription(row)
  PROVE  /\ row[1] \in 1..Len(subs) /\ subs' \in Seq(SubscriptionRows)
         /\ Len(subs') = Len(subs)
         /\ \A j \in 1..Len(subs) :
              /\ subs'[j].end = subs[j].end
              /\ ~history'.lost /\ now < subs[j].end => subs'[j] = subs[j]
         /\ history' \in Histories /\ history'.invoices = history.invoices
         /\ history'.overwritten = history.overwritten
         /\ history.lost => history'.lost
<1> DEFINE i == row[1]
           grace == row[2] + GraceLength
           marked == [subs[i] EXCEPT !.status = "past_due", !.grace = grace]
           expired == [subs[i] EXCEPT !.status = "expired"]
<1>1. i \in 1..Len(subs) /\ row[2] \in Nat /\ GraceLength \in Nat
  BY ConstantsAssumption DEF IInv, Typed, Sweeps
<1>2. subs[i] \in SubscriptionRows /\ sweep.at \in Nat /\ now \in Nat
  BY <1>1 DEF IInv, Typed, Sweeps
<1>3. PICK new \in SubscriptionRows : subs' = [subs EXCEPT ![i] = new] /\ new.end = subs[i].end
  <2>1. CASE MarkPastDue(row)
    <3>1. marked \in SubscriptionRows /\ marked.end = subs[i].end
      <4>1. grace \in Nat
        BY <1>1
      <4> HIDE DEF grace
      <4> QED BY <1>2, <4>1 DEF SubscriptionRows, SubscriptionStatus
    <3>2. subs' = [subs EXCEPT ![i].status = "past_due", ![i].grace = row[2] + GraceLength]
      BY <2>1 DEF MarkPastDue
    <3>3. subs' = [subs EXCEPT ![i] = marked]
      BY <1>1, <3>2 DEF IInv, Typed
    <3> QED BY <3>1, <3>3
  <2>2. CASE ExpireSubscription(row)
    <3>1. expired \in SubscriptionRows /\ expired.end = subs[i].end
      BY <1>1, <1>2 DEF SubscriptionRows, SubscriptionStatus
    <3>2. subs' = [subs EXCEPT ![i] = expired]
      BY <1>1, <1>2, <2>2 DEF ExpireSubscription
    <3> QED BY <3>1, <3>2
  <2> QED BY <2>1, <2>2
<1>4. /\ history' \in Histories /\ history'.invoices = history.invoices
      /\ history'.overwritten = history.overwritten
      /\ history.lost => history'.lost
      /\ ~history'.lost => \/ MarkPastDue(row) /\ Lapsed(subs[i], sweep.at)
                           \/ ExpireSubscription(row) /\ PastGrace(subs[i], sweep.at)
  BY DEF MarkPastDue, ExpireSubscription, IInv, Typed, Histories
<1>5. ~history'.lost => ~(now < subs[i].end)
  <2>1. CASE Lapsed(subs[i], sweep.at)
    BY <1>2, <2>1 DEF Lapsed, IInv, SweepIsPast, SubscriptionRows
  <2>2. CASE PastGrace(subs[i], sweep.at)
    BY <1>1, <1>4, <2>2 DEF PastGrace, IInv, RowsGrantAccess, Grants
  <2> QED BY <1>4, <2>1, <2>2
<1> QED
  BY <1>1, <1>3, <1>4, <1>5, RowIsSet DEF IInv

(* An update of an order by its id counts the paid order it overwrites, and*)
(* keeps all periods.                                                      *)
LEMMA OrderIsOverwritten ==
  ASSUME Typed, NEW o \in Orders, NEW status \in OrderStatus, OverwriteOrder(o, status)
  PROVE  /\ ~Locked(o) /\ order' \in [AllOrders -> OrderRows]
         /\ order'[o].status = status
         /\ \A other \in AllOrders : /\ order'[other].end = order[other].end
                                     /\ other # o => order'[other] = order[other]
         /\ history' \in Histories /\ history'.invoices = history.invoices
         /\ history'.lost = history.lost
         /\ history'.overwritten[o] =
              history.overwritten[o] + (IF order[o].status = "paid" THEN 1 ELSE 0)
         /\ \A other \in Orders \ {o} :
              history'.overwritten[other] = history.overwritten[other]
<1>1. o \in AllOrders /\ order' = [order EXCEPT ![o].status = status] /\ ~Locked(o)
  BY DEF OverwriteOrder, AllOrders
<1>2. history \in Histories /\ history.overwritten[o] \in Nat
  BY DEF Typed, Histories
<1> DEFINE n == IF order[o].status = "paid" THEN history.overwritten[o] + 1
                ELSE history.overwritten[o]
<1>3. history' = [history EXCEPT !.overwritten[o] = n] /\ n \in Nat
  BY <1>2 DEF OverwriteOrder
<1>4. n = history.overwritten[o] + (IF order[o].status = "paid" THEN 1 ELSE 0)
  BY <1>2
<1> HIDE DEF n
<1>5. /\ history' \in Histories /\ history'.invoices = history.invoices
      /\ history'.lost = history.lost /\ history'.overwritten[o] = n
      /\ \A other \in Orders \ {o} : history'.overwritten[other] = history.overwritten[other]
  BY <1>2, <1>3 DEF Histories
<1> QED
  BY <1>1, <1>4, <1>5, StatusIsSet

(* A paid order adds one invoice, and records whether it came late.        *)
LEMMA InvoiceIsIssued ==
  ASSUME Typed, NEW o \in Orders, NEW late \in BOOLEAN,
         history' = [history EXCEPT !.invoices[o] = @ + 1, !.lost = @ \/ late]
  PROVE  /\ history' \in Histories
         /\ history'.lost = (history.lost \/ late)
         /\ history'.overwritten = history.overwritten
         /\ history'.invoices[o] = history.invoices[o] + 1
         /\ \A other \in Orders \ {o} : history'.invoices[other] = history.invoices[other]
<1> DEFINE invoices == [history.invoices EXCEPT ![o] = @ + 1]
           lost == history.lost \/ late
<1>1. history \in Histories /\ history.invoices \in [Orders -> Nat] /\ lost \in BOOLEAN
  BY DEF Typed, Histories
<1>2. /\ invoices \in [Orders -> Nat] /\ invoices[o] = history.invoices[o] + 1
      /\ \A other \in Orders \ {o} : invoices[other] = history.invoices[other]
  BY <1>1
<1>3. history' = [history EXCEPT !.invoices = invoices, !.lost = lost]
  BY <1>1 DEF Histories
<1> HIDE DEF invoices, lost
<1>4. /\ history' \in Histories /\ history'.lost = lost /\ history'.invoices = invoices
      /\ history'.overwritten = history.overwritten
  BY <1>1, <1>2, <1>3 DEF Histories
<1> QED
  BY <1>2, <1>4 DEF lost

(* What refers to rows still does when rows are appended.                  *)
LEMMA TypesGrow ==
  ASSUME Typed, subs' \in Seq(SubscriptionRows), Len(subs) <= Len(subs')
  PROVE  /\ apply \in [Transactions -> Activations(Len(subs'))]
         /\ failing \in Failings(Len(subs'))
         /\ sweep \in Sweeps(Len(subs'))
<1>1. Len(subs) \in Nat /\ Len(subs') \in Nat
  BY DEF Typed
<1>2. 0..Len(subs) \subseteq 0..Len(subs') /\ 1..Len(subs) \subseteq 1..Len(subs')
  BY <1>1
<1>3. apply \in [Transactions -> Activations(Len(subs'))]
  BY <1>2 DEF Typed, Activations
<1>4. failing \in Failings(Len(subs'))
  BY <1>2 DEF Typed, Failings
<1>5. sweep \in Sweeps(Len(subs'))
  BY <1>2 DEF Typed, Sweeps
<1> QED
  BY <1>3, <1>4, <1>5

(* The facts about an activation that commits.                             *)
LEMMA CommitIsSound ==
  ASSUME IInv, NEW o \in Orders, PaidCommits(o)
  PROVE  /\ subs' \in Seq(SubscriptionRows) /\ Len(subs) <= Len(subs')
         /\ history' \in Histories
         /\ history'.overwritten = history.overwritten
         /\ history'.invoices[o] = history.invoices[o] + 1
         /\ \A other \in Orders \ {o} : history'.invoices[other] = history.invoices[other]
         /\ ~history'.lost => ~history.lost
         /\ \E k \in 1..Len(subs') :
              /\ subs'[k].end = order[o].end /\ Grants(subs'[k])
              /\ ~history'.lost /\ k \in 1..Len(subs) => subs[k].end <= order[o].end
              /\ \A j \in (1..Len(subs')) \ {k} : j \in 1..Len(subs) /\ subs'[j] = subs[j]
<1> DEFINE i == apply[o].sub
           end == apply[o].end
<1>1. apply[o] \in Activations(Len(subs))
  BY DEF IInv, Typed, Transactions
<1>2. i \in 0..Len(subs) /\ end \in Nat /\ end = order[o].end /\ o \in AllOrders
  BY <1>1 DEF Activations, PaidCommits, IInv, ActivationsAreOpen, AllOrders
<1>3. Activate(i, o, "active", end)
  BY DEF PaidCommits
<1> DEFINE late == Shortens(i, end)
<1>4. history' = [history EXCEPT !.invoices[o] = @ + 1, !.lost = @ \/ late]
  BY DEF PaidCommits
<1>5. late \in BOOLEAN
  BY DEF Shortens
<1>6. ~late => i = 0 \/ ~(subs[i].end > end)
  BY DEF Shortens
<1>7. \A k \in 1..Len(subs) : subs[k].end \in Nat
  BY EndsAreNumbers DEF IInv
<1> HIDE DEF i, end, late
<1>8. /\ history' \in Histories
      /\ history'.lost = (history.lost \/ late)
      /\ history'.overwritten = history.overwritten
      /\ history'.invoices[o] = history.invoices[o] + 1
      /\ \A other \in Orders \ {o} : history'.invoices[other] = history.invoices[other]
  BY <1>4, <1>5, InvoiceIsIssued DEF IInv
<1>9. /\ subs' \in Seq(SubscriptionRows) /\ Len(subs) <= Len(subs')
      /\ \E k \in 1..Len(subs') :
           /\ subs'[k].end = end /\ Grants(subs'[k])
           /\ k = i \/ k \notin 1..Len(subs)
           /\ \A j \in (1..Len(subs')) \ {k} : j \in 1..Len(subs) /\ subs'[j] = subs[j]
  <2>1. PICK status \in {"active", "trialing"} : Activate(i, o, status, end)
    BY <1>3
  <2> QED BY <1>2, <2>1, RowIsActivated, SMTT(30) DEF IInv
<1>10. ASSUME NEW k \in 1..Len(subs), k = i, ~late PROVE subs[k].end <= end
  BY <1>2, <1>6, <1>7, <1>10
<1>11. ~history'.lost => ~history.lost /\ ~late
  BY <1>8
<1> QED
  BY <1>2, <1>8, <1>9, <1>10, <1>11

(* The commit of the free plan shortens no row unless it is recorded as    *)
(* lost.                                                                   *)
LEMMA FreeCommitIsSound ==
  ASSUME IInv, NEW a \in FreeRequests, FreeCommits(a)
  PROVE  /\ subs' \in Seq(SubscriptionRows) /\ Len(subs) <= Len(subs')
         /\ history' \in Histories /\ history'.invoices = history.invoices
         /\ history'.overwritten = history.overwritten
         /\ ~history'.lost => ~history.lost
         /\ \E k \in 1..Len(subs') :
              /\ Grants(subs'[k])
              /\ ~history'.lost /\ k \in 1..Len(subs) => subs[k].end <= subs'[k].end
              /\ \A j \in (1..Len(subs')) \ {k} : j \in 1..Len(subs) /\ subs'[j] = subs[j]
<1> DEFINE i == apply[a].sub
           end == apply[a].end
           late == Shortens(i, end)
<1>1. apply[a] \in Activations(Len(subs))
  BY DEF IInv, Typed, Transactions
<1>2. i \in 0..Len(subs) /\ end \in Nat /\ FreeOrder \in AllOrders
  BY <1>1 DEF Activations, AllOrders
<1>3. PICK status \in {"active", "trialing"} : Activate(i, FreeOrder, status, end)
  BY DEF FreeCommits
<1>4. history' = [history EXCEPT !.lost = @ \/ late]
  BY DEF FreeCommits
<1>5. late \in BOOLEAN /\ (~late => i = 0 \/ ~(subs[i].end > end))
  BY DEF Shortens
<1>6. \A k \in 1..Len(subs) : subs[k].end \in Nat
  BY EndsAreNumbers DEF IInv
<1> HIDE DEF i, end, late
<1>7. /\ history' \in Histories /\ history'.lost = (history.lost \/ late)
      /\ history'.overwritten = history.overwritten /\ history'.invoices = history.invoices
  BY <1>4, <1>5 DEF IInv, Typed, Histories
<1>8. /\ subs' \in Seq(SubscriptionRows) /\ Len(subs) <= Len(subs')
      /\ \E k \in 1..Len(subs') :
           /\ subs'[k].end = end /\ Grants(subs'[k])
           /\ k = i \/ k \notin 1..Len(subs)
           /\ \A j \in (1..Len(subs')) \ {k} : j \in 1..Len(subs) /\ subs'[j] = subs[j]
  BY <1>2, <1>3, RowIsActivated, SMTT(30) DEF IInv
<1>9. ASSUME NEW k \in 1..Len(subs), k = i, ~late PROVE subs[k].end <= end
  BY <1>2, <1>5, <1>6, <1>9
<1>10. ~history'.lost => ~history.lost /\ ~late
  BY <1>7
<1> QED
  BY <1>2, <1>7, <1>8, <1>9, <1>10

(* Invoices stay counted when an order is overwritten.                     *)
LEMMA OverwrittenIsCounted ==
  ASSUME IInv, NEW o \in Orders, order[o].status # "none",
         NEW status \in OrderStatus \ {"none", "paid"}, OverwriteOrder(o, status)
  PROVE  InvoicesAreCounted'
<1>1. history.invoices[o] \in Nat /\ history.overwritten[o] \in Nat
  BY DEF IInv, Typed, Histories
<1> QED
  BY <1>1, OrderIsOverwritten DEF IInv, InvoicesAreCounted, AllOrders

-----------------------------------------------------------------------------
(* Inserting the row of an order changes its status, and nothing else.     *)
LEMMA InsertionSetsStatus ==
  ASSUME Typed, NEW o \in Orders, InsertOrder(o)
  PROVE  /\ order' \in [AllOrders -> OrderRows]
         /\ order[o].status = "opening" /\ order'[o].status = "created"
         /\ \A other \in Orders : order'[other].end = order[other].end
         /\ \A other \in AllOrders \ {o} : order'[other] = order[other]
         /\ UNCHANGED <<now, subs, slot, gateway, handled, apply, failing, sweep, history,
                        faults>>
<1>1. o \in AllOrders /\ "created" \in OrderStatus
  BY DEF AllOrders, OrderStatus
<1>2. /\ order[o].status = "opening" /\ order' = [order EXCEPT ![o].status = "created"]
      /\ UNCHANGED <<now, subs, slot, gateway, handled, apply, failing, sweep, history,
                     faults>>
  BY DEF InsertOrder
<1>3. /\ order' \in [AllOrders -> OrderRows]
      /\ order'[o].status = "created" /\ order'[o].end = order[o].end
      /\ \A other \in AllOrders \ {o} : order'[other] = order[other]
  BY <1>1, <1>2, StatusIsSet
<1> QED BY <1>2, <1>3 DEF AllOrders

(* Every step keeps Typed.                                                 *)
LEMMA TypedStep ==
  ASSUME IInv, [Next]_vars
  PROVE  Typed'
<1>1. ASSUME NEW o \in Orders, CreateCheckout(o) PROVE Typed'
  <2> DEFINE new == [status |-> "opening", end |-> PeriodEnd("paid"), expires |-> now + OrderTtl]
  <2>1. new \in OrderRows
    <3>1. now + OrderTtl \in Nat
      BY ConstantsAssumption DEF IInv, Typed
    <3> QED BY <3>1, PeriodEndIsNat DEF IInv, OrderRows, OrderStatus
  <2>2. order' = [order EXCEPT ![o] = new]
    BY <1>1 DEF CreateCheckout
  <2> HIDE DEF new
  <2>3. order' \in [AllOrders -> OrderRows]
    BY <2>1, <2>2 DEF IInv, Typed
  <2>4. UNCHANGED <<now, subs, slot, gateway, handled, apply, failing, sweep, history, faults>>
    BY <1>1 DEF CreateCheckout
  <2> QED BY <2>3, <2>4 DEF IInv, Typed
<1>2. ASSUME NEW p \in Payments, NEW o \in Orders, Attempt(p, o) PROVE Typed'
  <2>1. gateway' \in [Payments -> Attempts]
    BY <1>2 DEF Attempt, IInv, Typed, Attempts
  <2>2. UNCHANGED <<now, order, subs, slot, handled, apply, failing, sweep, history, faults>>
    BY <1>2 DEF Attempt
  <2> QED BY <2>1, <2>2 DEF IInv, Typed
<1>3. ASSUME NEW p \in Payments, PaidReads(p) PROVE Typed'
  <2> DEFINE o == gateway[p].o
             new == [pc |-> "applying", p |-> p, sub |-> Current, end |-> order[o].end]
  <2>1. o \in Orders
    BY <1>3 DEF PaidReads, IInv, AttemptsAreReal
  <2>2. order[o].end \in Nat
    BY <2>1 DEF IInv, Typed, AllOrders, OrderRows
  <2>3. new \in Activations(Len(subs))
    <3> HIDE DEF Current, o
    <3> QED BY <2>2, CurrentIsARow DEF IInv, Activations
  <2>4. apply' = [apply EXCEPT ![o] = new]
    BY <1>3 DEF PaidReads
  <2> HIDE DEF new
  <2>5. apply' \in [Transactions -> Activations(Len(subs))]
    BY <2>1, <2>3, <2>4 DEF IInv, Typed, Transactions
  <2>6. UNCHANGED <<now, order, subs, slot, gateway, handled, failing, sweep, history, faults>>
    BY <1>3 DEF PaidReads
  <2> QED BY <2>5, <2>6 DEF IInv, Typed
<1>4. ASSUME NEW o \in Orders, PaidCommits(o) PROVE Typed'
  <2>1. /\ subs' \in Seq(SubscriptionRows) /\ Len(subs) <= Len(subs')
        /\ history' \in Histories
    BY <1>4, CommitIsSound
  <2>2. order' \in [AllOrders -> OrderRows]
    BY <1>4, StatusIsSet DEF PaidCommits, IInv, AllOrders, OrderStatus
  <2>3. slot' \in [Orders -> Payments \cup {None}]
    BY <1>4 DEF PaidCommits, IInv, Typed, ActivationsAreOpen
  <2>4. IdleApply \in Activations(Len(subs'))
    BY <2>1 DEF IdleApply, Activations, IInv, Typed
  <2>5. apply' \in [Transactions -> Activations(Len(subs'))]
    BY <1>4, <2>1, <2>4, TypesGrow DEF PaidCommits, IInv
  <2>6. UNCHANGED <<now, gateway, handled, failing, sweep, faults>>
    BY <1>4 DEF PaidCommits
  <2> QED BY <2>1, <2>2, <2>3, <2>5, <2>6, TypesGrow DEF IInv, Typed
<1>5. ASSUME NEW a \in FreeRequests, FreeReads(a) PROVE Typed'
  <2> DEFINE new == [pc |-> "applying", p |-> None, sub |-> Current, end |-> PeriodEnd("free")]
  <2>1. new \in Activations(Len(subs))
    <3> HIDE DEF Current
    <3> QED BY CurrentIsARow, PeriodEndIsNat DEF IInv, Activations
  <2>2. apply' = [apply EXCEPT ![a] = new]
    BY <1>5 DEF FreeReads
  <2> HIDE DEF new
  <2>3. apply' \in [Transactions -> Activations(Len(subs))]
    BY <2>1, <2>2 DEF IInv, Typed, Transactions
  <2>4. UNCHANGED <<now, order, subs, slot, gateway, handled, failing, sweep, history, faults>>
    BY <1>5 DEF FreeReads
  <2> QED BY <2>3, <2>4 DEF IInv, Typed
<1>6. ASSUME NEW a \in FreeRequests, FreeCommits(a) PROVE Typed'
  <2>1. /\ subs' \in Seq(SubscriptionRows) /\ Len(subs) <= Len(subs')
        /\ history' \in Histories
    BY <1>6, FreeCommitIsSound
  <2> DEFINE new == [status |-> "paid", end |-> apply[a].end, expires |-> 0]
  <2>2. new \in OrderRows
    <3>1. apply[a] \in Activations(Len(subs))
      BY DEF IInv, Typed, Transactions
    <3> QED BY <3>1 DEF OrderRows, OrderStatus, Activations
  <2>3. order' = [order EXCEPT ![FreeOrder] = new]
    BY <1>6 DEF FreeCommits
  <2> HIDE DEF new
  <2>4. order' \in [AllOrders -> OrderRows]
    BY <2>2, <2>3 DEF IInv, Typed
  <2>5. IdleApply \in Activations(Len(subs'))
    BY <2>1 DEF IdleApply, Activations, IInv, Typed
  <2>6. apply' \in [Transactions -> Activations(Len(subs'))]
    BY <1>6, <2>1, <2>5, TypesGrow DEF FreeCommits, IInv
  <2>7. UNCHANGED <<now, slot, gateway, handled, failing, sweep, faults>>
    BY <1>6 DEF FreeCommits
  <2> QED BY <2>1, <2>4, <2>6, <2>7, TypesGrow DEF IInv, Typed
<1>7. ASSUME NEW a \in Transactions, ActivationAborts(a) PROVE Typed'
  BY <1>7 DEF ActivationAborts, Fault, IInv, Typed, Activations, IdleApply, AttemptsAreReal
<1>8. ASSUME NEW p \in Payments, OnPaymentCaptured(p) PROVE Typed'
  BY <1>8 DEF OnPaymentCaptured, IInv, Typed
<1>9. ASSUME NEW p \in Payments, FailedReads(p) PROVE Typed'
  <2> DEFINE sub == IF Current # 0 /\ subs[Current].status \in {"active", "trialing"}
                      THEN Current ELSE 0
             created == order[gateway[p].o].status = "created"
  <2>1. sub \in 0..Len(subs)
    <3> HIDE DEF Current
    <3> QED BY CurrentIsARow DEF IInv, Typed
  <2>2. failing' = [pc |-> "order", p |-> p, sub |-> sub, created |-> created]
    BY <1>9 DEF FailedReads
  <2> HIDE DEF sub
  <2>3. failing' \in Failings(Len(subs))
    BY <2>1, <2>2 DEF Failings
  <2>4. UNCHANGED <<now, order, subs, slot, gateway, handled, apply, sweep, history, faults>>
    BY <1>9 DEF FailedReads
  <2> QED BY <2>3, <2>4 DEF IInv, Typed
<1>10. CASE FailedOrder
  <2>1. gateway[failing.p].o \in Orders
    BY <1>10 DEF FailedOrder, IInv, AttemptsAreReal
  <2>2. order' \in [AllOrders -> OrderRows] /\ history' \in Histories
    BY <1>10, <2>1, OrderIsOverwritten DEF FailedOrder, IInv, Typed, OrderStatus
  <2>3. failing' \in Failings(Len(subs))
    BY <1>10 DEF FailedOrder, IInv, Typed, Failings
  <2>4. UNCHANGED <<now, subs, slot, gateway, handled, apply, sweep, faults>>
    BY <1>10 DEF FailedOrder
  <2> QED BY <2>2, <2>3, <2>4 DEF IInv, Typed
<1>11. CASE FailedEnds
  <2>1. failing.p \in Payments /\ failing.sub \in 0..Len(subs) /\ gateway[failing.p].o \in Orders
    BY <1>11 DEF FailedEnds, IInv, Typed, AttemptsAreReal, Failings
  <2>2. subs' \in Seq(SubscriptionRows) /\ Len(subs') = Len(subs)
    BY <1>11, <2>1, PastDueIsSet DEF FailedEnds, IInv, Typed
  <2>3. slot' \in [Orders -> Payments \cup {None}] /\ handled' \subseteq Payments
    BY <1>11, <2>1 DEF FailedEnds, FailedPayment, IInv, Typed
  <2>4. failing' \in Failings(Len(subs)) /\ faults' \in Nat
    BY <1>11 DEF FailedEnds, Fault, IInv, Typed, Failings, IdleFailing
  <2>5. UNCHANGED <<now, order, gateway, apply, sweep, history>>
    BY <1>11 DEF FailedEnds
  <2> QED BY <2>2, <2>3, <2>4, <2>5 DEF IInv, Typed
<1>12. CASE SweepStarts
  BY <1>12 DEF SweepStarts, IInv, Typed, Sweeps
<1>13. CASE SweepLists
  <2>1. \A rows \in SUBSET (1..Len(subs)) :
          {<<i, subs[i].end>> : i \in rows} \subseteq (1..Len(subs)) \X Nat
    BY EndsAreNumbers DEF IInv
  <2>2. sweep' \in Sweeps(Len(subs))
    <3>1. \A pc \in {"past_due", "grace"}, set \in SUBSET ((1..Len(subs)) \X Nat) :
            sweep' = [sweep EXCEPT !.pc = pc, !.subs = set] => sweep' \in Sweeps(Len(subs))
      BY DEF IInv, Typed, Sweeps
    <3>2. IdleSweep \in Sweeps(Len(subs))
      BY DEF IdleSweep, Sweeps
    <3>3. \/ sweep' = IdleSweep
          \/ \E rows \in SUBSET (1..Len(subs)), pc \in {"past_due", "grace"} :
               sweep' = [sweep EXCEPT !.pc = pc, !.subs = {<<i, subs[i].end>> : i \in rows}]
      <4>1. \A at : /\ {i \in 1..Len(subs) : Lapsed(subs[i], at)} \in SUBSET (1..Len(subs))
                    /\ {i \in 1..Len(subs) : PastGrace(subs[i], at)} \in SUBSET (1..Len(subs))
        OBVIOUS
      <4> QED BY <1>13, <4>1 DEF SweepLists
    <3> QED BY <2>1, <3>1, <3>2, <3>3
  <2>3. UNCHANGED <<now, order, subs, slot, gateway, handled, apply, failing, history, faults>>
    BY <1>13 DEF SweepLists
  <2> QED BY <2>2, <2>3 DEF IInv, Typed
<1>14. ASSUME NEW o \in Orders, ExpireOrder(o) PROVE Typed'
  <2>1. order' \in [AllOrders -> OrderRows] /\ history' \in Histories
    BY <1>14, OrderIsOverwritten DEF ExpireOrder, IInv, OrderStatus
  <2>2. sweep' \in Sweeps(Len(subs))
    BY <1>14 DEF ExpireOrder, IInv, Typed, Sweeps
  <2>3. UNCHANGED <<now, subs, slot, gateway, handled, apply, failing, faults>>
    BY <1>14 DEF ExpireOrder
  <2> QED BY <2>1, <2>2, <2>3 DEF IInv, Typed
<1>15. ASSUME NEW row \in sweep.subs, MarkPastDue(row) PROVE Typed'
  <2>1. subs' \in Seq(SubscriptionRows) /\ Len(subs') = Len(subs) /\ history' \in Histories
    BY <1>15, SweptRowIsSet
  <2>2. sweep' \in Sweeps(Len(subs))
    BY <1>15 DEF MarkPastDue, IInv, Typed, Sweeps
  <2>3. UNCHANGED <<now, order, slot, gateway, handled, apply, failing, faults>>
    BY <1>15 DEF MarkPastDue
  <2> QED BY <2>1, <2>2, <2>3 DEF IInv, Typed
<1>16. ASSUME NEW row \in sweep.subs, ExpireSubscription(row) PROVE Typed'
  <2>1. subs' \in Seq(SubscriptionRows) /\ Len(subs') = Len(subs) /\ history' \in Histories
    BY <1>16, SweptRowIsSet
  <2>2. sweep' \in Sweeps(Len(subs))
    BY <1>16 DEF ExpireSubscription, IInv, Typed, Sweeps
  <2>3. UNCHANGED <<now, order, slot, gateway, handled, apply, failing, faults>>
    BY <1>16 DEF ExpireSubscription
  <2> QED BY <2>1, <2>2, <2>3 DEF IInv, Typed
<1>17. CASE SweepDies
  BY <1>17 DEF SweepDies, Fault, IInv, Typed, Sweeps, IdleSweep
<1>18. CASE Tick
  <2>1. now' \in Nat /\ UNCHANGED <<order, subs, slot, gateway, handled, apply, failing,
                                    sweep, history, faults>>
    BY <1>18 DEF Tick, IInv, Typed
  <2> QED BY <2>1 DEF IInv, Typed
<1>19. CASE UNCHANGED vars
  BY <1>19 DEF vars, IInv, Typed
<1>20. ASSUME NEW o \in Orders, InsertOrder(o) PROVE Typed'
  BY <1>20, InsertionSetsStatus DEF IInv, Typed
<1> QED
  BY <1>1, <1>2, <1>3, <1>4, <1>5, <1>6, <1>7, <1>8, <1>9, <1>10, <1>11, <1>12, <1>13,
     <1>14, <1>15, <1>16, <1>17, <1>18, <1>19, <1>20
     DEF Next, OnPaymentFailed, Sweep

(* Every step keeps AttemptsAreReal.                                       *)
LEMMA AttemptsAreRealStep ==
  ASSUME IInv, [Next]_vars
  PROVE  AttemptsAreReal'
<1>1. ASSUME NEW o \in Orders, CreateCheckout(o) PROVE AttemptsAreReal'
  BY <1>1 DEF CreateCheckout, IInv, AttemptsAreReal
<1>2. ASSUME NEW p \in Payments, NEW o \in Orders, Attempt(p, o) PROVE AttemptsAreReal'
  BY <1>2 DEF Attempt, IInv, AttemptsAreReal
<1>3. ASSUME NEW p \in Payments, PaidReads(p) PROVE AttemptsAreReal'
  BY <1>3 DEF PaidReads, IInv, AttemptsAreReal
<1>4. ASSUME NEW o \in Orders, PaidCommits(o) PROVE AttemptsAreReal'
  BY <1>4 DEF PaidCommits, IInv, AttemptsAreReal
<1>5. ASSUME NEW a \in FreeRequests, FreeReads(a) PROVE AttemptsAreReal'
  BY <1>5 DEF FreeReads, IInv, AttemptsAreReal
<1>6. ASSUME NEW a \in FreeRequests, FreeCommits(a) PROVE AttemptsAreReal'
  BY <1>6 DEF FreeCommits, IInv, AttemptsAreReal
<1>7. ASSUME NEW a \in Transactions, ActivationAborts(a) PROVE AttemptsAreReal'
  BY <1>7 DEF ActivationAborts, IInv, AttemptsAreReal
<1>8. ASSUME NEW p \in Payments, OnPaymentCaptured(p) PROVE AttemptsAreReal'
  BY <1>8 DEF OnPaymentCaptured, IInv, AttemptsAreReal
<1>9. ASSUME NEW p \in Payments, FailedReads(p) PROVE AttemptsAreReal'
  BY <1>9 DEF FailedReads, IInv, AttemptsAreReal
<1>10. CASE FailedOrder
  <2>1. gateway[failing.p].o \in Orders
    BY <1>10 DEF FailedOrder, IInv, AttemptsAreReal
  <2>2. \A o \in Orders : order'[o] = order[o] \/ order'[o].status = "failed"
    BY <1>10, <2>1, OrderIsOverwritten DEF FailedOrder, IInv, AllOrders, OrderStatus
  <2>3. UNCHANGED gateway /\ failing'.p = failing.p /\ failing.pc # "idle"
    BY <1>10 DEF FailedOrder, IInv, Typed, Failings
  <2> QED BY <2>2, <2>3 DEF IInv, AttemptsAreReal
<1>11. CASE FailedEnds
  BY <1>11 DEF FailedEnds, IInv, AttemptsAreReal, IdleFailing
<1>12. CASE SweepStarts
  BY <1>12 DEF SweepStarts, IInv, AttemptsAreReal
<1>13. CASE SweepLists
  BY <1>13 DEF SweepLists, IInv, AttemptsAreReal
<1>14. ASSUME NEW o \in Orders, ExpireOrder(o) PROVE AttemptsAreReal'
  BY <1>14 DEF ExpireOrder, OverwriteOrder, IInv, AttemptsAreReal
<1>15. ASSUME NEW row \in sweep.subs, MarkPastDue(row) PROVE AttemptsAreReal'
  BY <1>15 DEF MarkPastDue, IInv, AttemptsAreReal
<1>16. ASSUME NEW row \in sweep.subs, ExpireSubscription(row) PROVE AttemptsAreReal'
  BY <1>16 DEF ExpireSubscription, IInv, AttemptsAreReal
<1>17. CASE SweepDies
  BY <1>17 DEF SweepDies, IInv, AttemptsAreReal
<1>18. CASE Tick
  BY <1>18 DEF Tick, IInv, AttemptsAreReal
<1>19. CASE UNCHANGED vars
  BY <1>19 DEF vars, IInv, AttemptsAreReal
<1>20. ASSUME NEW o \in Orders, InsertOrder(o) PROVE AttemptsAreReal'
  BY <1>20, InsertionSetsStatus DEF IInv, AllOrders, AttemptsAreReal
<1> QED
  BY <1>1, <1>2, <1>3, <1>4, <1>5, <1>6, <1>7, <1>8, <1>9, <1>10, <1>11, <1>12, <1>13,
     <1>14, <1>15, <1>16, <1>17, <1>18, <1>19, <1>20
     DEF Next, OnPaymentFailed, Sweep

(* Every step keeps ActivationsAreOpen.                                    *)
LEMMA ActivationsAreOpenStep ==
  ASSUME IInv, [Next]_vars
  PROVE  ActivationsAreOpen'
<1>1. ASSUME NEW o \in Orders, CreateCheckout(o) PROVE ActivationsAreOpen'
  BY <1>1 DEF CreateCheckout, IInv, ActivationsAreOpen
<1>2. ASSUME NEW p \in Payments, NEW o \in Orders, Attempt(p, o) PROVE ActivationsAreOpen'
  BY <1>2 DEF Attempt, IInv, ActivationsAreOpen
<1>3. ASSUME NEW p \in Payments, PaidReads(p) PROVE ActivationsAreOpen'
  BY <1>3 DEF PaidReads, Applies, IInv, ActivationsAreOpen, AttemptsAreReal
<1>4. ASSUME NEW o \in Orders, PaidCommits(o) PROVE ActivationsAreOpen'
  BY <1>4 DEF PaidCommits, IInv, Typed, ActivationsAreOpen, IdleApply, Transactions
<1>5. ASSUME NEW a \in FreeRequests, FreeReads(a) PROVE ActivationsAreOpen'
  <2>1. a \notin Orders
    BY ConstantsAssumption DEF Orders
  <2>2. UNCHANGED order /\ \A o \in Orders : apply'[o] = apply[o]
    BY <1>5, <2>1 DEF FreeReads, IInv, Typed, Transactions
  <2> QED BY <2>2 DEF IInv, ActivationsAreOpen
<1>6. ASSUME NEW a \in FreeRequests, FreeCommits(a) PROVE ActivationsAreOpen'
  BY <1>6 DEF FreeCommits, IInv, ActivationsAreOpen, IdleApply
<1>7. ASSUME NEW a \in Transactions, ActivationAborts(a) PROVE ActivationsAreOpen'
  BY <1>7 DEF ActivationAborts, IInv, ActivationsAreOpen, IdleApply
<1>8. ASSUME NEW p \in Payments, OnPaymentCaptured(p) PROVE ActivationsAreOpen'
  BY <1>8 DEF OnPaymentCaptured, IInv, ActivationsAreOpen
<1>9. ASSUME NEW p \in Payments, FailedReads(p) PROVE ActivationsAreOpen'
  BY <1>9 DEF FailedReads, IInv, ActivationsAreOpen
<1>10. CASE FailedOrder
  BY <1>10
     DEF FailedOrder, OverwriteOrder, IInv, Typed, ActivationsAreOpen, AllOrders, Locked
<1>11. CASE FailedEnds
  BY <1>11 DEF FailedEnds, IInv, ActivationsAreOpen
<1>12. CASE SweepStarts
  BY <1>12 DEF SweepStarts, IInv, ActivationsAreOpen
<1>13. CASE SweepLists
  BY <1>13 DEF SweepLists, IInv, ActivationsAreOpen
<1>14. ASSUME NEW o \in Orders, ExpireOrder(o) PROVE ActivationsAreOpen'
  BY <1>14 DEF ExpireOrder, OverwriteOrder, IInv, ActivationsAreOpen
<1>15. ASSUME NEW row \in sweep.subs, MarkPastDue(row) PROVE ActivationsAreOpen'
  BY <1>15 DEF MarkPastDue, IInv, ActivationsAreOpen
<1>16. ASSUME NEW row \in sweep.subs, ExpireSubscription(row) PROVE ActivationsAreOpen'
  BY <1>16 DEF ExpireSubscription, IInv, ActivationsAreOpen
<1>17. CASE SweepDies
  BY <1>17 DEF SweepDies, IInv, ActivationsAreOpen
<1>18. CASE Tick
  BY <1>18 DEF Tick, IInv, ActivationsAreOpen
<1>19. CASE UNCHANGED vars
  BY <1>19 DEF vars, IInv, ActivationsAreOpen
<1>20. ASSUME NEW o \in Orders, InsertOrder(o) PROVE ActivationsAreOpen'
  BY <1>20, InsertionSetsStatus DEF IInv, AllOrders, ActivationsAreOpen
<1> QED
  BY <1>1, <1>2, <1>3, <1>4, <1>5, <1>6, <1>7, <1>8, <1>9, <1>10, <1>11, <1>12, <1>13,
     <1>14, <1>15, <1>16, <1>17, <1>18, <1>19, <1>20
     DEF Next, OnPaymentFailed, Sweep

(* Every step keeps InvoicesAreCounted.                                    *)
LEMMA InvoicesAreCountedStep ==
  ASSUME IInv, [Next]_vars
  PROVE  InvoicesAreCounted'
<1>1. ASSUME NEW o \in Orders, CreateCheckout(o) PROVE InvoicesAreCounted'
  BY <1>1 DEF CreateCheckout, IInv, InvoicesAreCounted
<1>2. ASSUME NEW p \in Payments, NEW o \in Orders, Attempt(p, o) PROVE InvoicesAreCounted'
  BY <1>2 DEF Attempt, IInv, InvoicesAreCounted
<1>3. ASSUME NEW p \in Payments, PaidReads(p) PROVE InvoicesAreCounted'
  BY <1>3 DEF PaidReads, IInv, InvoicesAreCounted
<1>4. ASSUME NEW o \in Orders, PaidCommits(o) PROVE InvoicesAreCounted'
  BY <1>4
     DEF PaidCommits, IInv, Typed, InvoicesAreCounted, ActivationsAreOpen, Histories,
         AllOrders
<1>5. ASSUME NEW a \in FreeRequests, FreeReads(a) PROVE InvoicesAreCounted'
  BY <1>5 DEF FreeReads, IInv, InvoicesAreCounted
<1>6. ASSUME NEW a \in FreeRequests, FreeCommits(a) PROVE InvoicesAreCounted'
  BY <1>6 DEF FreeCommits, IInv, Typed, InvoicesAreCounted, Histories
<1>7. ASSUME NEW a \in Transactions, ActivationAborts(a) PROVE InvoicesAreCounted'
  BY <1>7 DEF ActivationAborts, IInv, InvoicesAreCounted
<1>8. ASSUME NEW p \in Payments, OnPaymentCaptured(p) PROVE InvoicesAreCounted'
  BY <1>8 DEF OnPaymentCaptured, IInv, InvoicesAreCounted
<1>9. ASSUME NEW p \in Payments, FailedReads(p) PROVE InvoicesAreCounted'
  BY <1>9 DEF FailedReads, IInv, InvoicesAreCounted
<1>10. CASE FailedOrder
  <2>1. gateway[failing.p].o \in Orders /\ order[gateway[failing.p].o].status # "none"
    BY <1>10 DEF FailedOrder, IInv, AttemptsAreReal
  <2>2. CASE UNCHANGED <<order, history>>
    BY <2>2 DEF IInv, InvoicesAreCounted
  <2>3. CASE OverwriteOrder(gateway[failing.p].o, "failed")
    BY <2>1, <2>3, OverwrittenIsCounted DEF OrderStatus
  <2> QED BY <1>10, <2>2, <2>3 DEF FailedOrder
<1>11. CASE FailedEnds
  BY <1>11 DEF FailedEnds, IInv, InvoicesAreCounted
<1>12. CASE SweepStarts
  BY <1>12 DEF SweepStarts, IInv, InvoicesAreCounted
<1>13. CASE SweepLists
  BY <1>13 DEF SweepLists, IInv, InvoicesAreCounted
<1>14. ASSUME NEW o \in Orders, ExpireOrder(o) PROVE InvoicesAreCounted'
  BY <1>14 DEF ExpireOrder, OverwriteOrder, IInv, Typed, InvoicesAreCounted, Histories
<1>15. ASSUME NEW row \in sweep.subs, MarkPastDue(row) PROVE InvoicesAreCounted'
  BY <1>15 DEF MarkPastDue, IInv, InvoicesAreCounted
<1>16. ASSUME NEW row \in sweep.subs, ExpireSubscription(row) PROVE InvoicesAreCounted'
  BY <1>16 DEF ExpireSubscription, IInv, InvoicesAreCounted
<1>17. CASE SweepDies
  BY <1>17 DEF SweepDies, IInv, InvoicesAreCounted
<1>18. CASE Tick
  BY <1>18 DEF Tick, IInv, InvoicesAreCounted
<1>19. CASE UNCHANGED vars
  BY <1>19 DEF vars, IInv, InvoicesAreCounted
<1>20. ASSUME NEW o \in Orders, InsertOrder(o) PROVE InvoicesAreCounted'
  BY <1>20, InsertionSetsStatus DEF IInv, AllOrders, InvoicesAreCounted
<1> QED
  BY <1>1, <1>2, <1>3, <1>4, <1>5, <1>6, <1>7, <1>8, <1>9, <1>10, <1>11, <1>12, <1>13,
     <1>14, <1>15, <1>16, <1>17, <1>18, <1>19, <1>20
     DEF Next, OnPaymentFailed, Sweep

(* Every step keeps RowsGrantAccess.                                       *)
LEMMA RowsGrantAccessStep ==
  ASSUME IInv, [Next]_vars
  PROVE  RowsGrantAccess'
<1>1. ASSUME NEW o \in Orders, CreateCheckout(o) PROVE RowsGrantAccess'
  BY <1>1 DEF CreateCheckout, IInv, Typed, RowsGrantAccess, Histories
<1>2. ASSUME NEW p \in Payments, NEW o \in Orders, Attempt(p, o) PROVE RowsGrantAccess'
  BY <1>2 DEF Attempt, IInv, Typed, RowsGrantAccess, Histories
<1>3. ASSUME NEW p \in Payments, PaidReads(p) PROVE RowsGrantAccess'
  BY <1>3 DEF PaidReads, Applies, IInv, Typed, RowsGrantAccess, Histories
<1>4. ASSUME NEW o \in Orders, PaidCommits(o) PROVE RowsGrantAccess'
  <2>1. UNCHANGED now
    BY <1>4 DEF PaidCommits
  <2> QED BY <1>4, <2>1, CommitIsSound DEF IInv, RowsGrantAccess
<1>5. ASSUME NEW a \in FreeRequests, FreeReads(a) PROVE RowsGrantAccess'
  BY <1>5 DEF FreeReads, IInv, Typed, RowsGrantAccess, Histories
<1>6. ASSUME NEW a \in FreeRequests, FreeCommits(a) PROVE RowsGrantAccess'
  <2>1. UNCHANGED now
    BY <1>6 DEF FreeCommits
  <2> QED BY <1>6, <2>1, FreeCommitIsSound DEF IInv, RowsGrantAccess
<1>7. ASSUME NEW a \in Transactions, ActivationAborts(a) PROVE RowsGrantAccess'
  BY <1>7 DEF ActivationAborts, Fault, IInv, Typed, RowsGrantAccess, Histories
<1>8. ASSUME NEW p \in Payments, OnPaymentCaptured(p) PROVE RowsGrantAccess'
  BY <1>8 DEF OnPaymentCaptured, IInv, Typed, RowsGrantAccess, Histories
<1>9. ASSUME NEW p \in Payments, FailedReads(p) PROVE RowsGrantAccess'
  BY <1>9 DEF FailedReads, IInv, Typed, RowsGrantAccess, Histories
<1>10. CASE FailedOrder
  BY <1>10 DEF FailedOrder, OverwriteOrder, IInv, Typed, RowsGrantAccess, Histories
<1>11. CASE FailedEnds
  <2>1. failing.sub \in 0..Len(subs) /\ UNCHANGED <<now, history>>
    BY <1>11 DEF FailedEnds, IInv, Typed, Failings
  <2>2. UNCHANGED subs \/ PastDue(failing.sub)
    BY <1>11 DEF FailedEnds
  <2> QED BY <2>1, <2>2, PastDueIsSet DEF IInv, RowsGrantAccess
<1>12. CASE SweepStarts
  BY <1>12 DEF SweepStarts, IInv, Typed, RowsGrantAccess, Histories
<1>13. CASE SweepLists
  BY <1>13 DEF SweepLists, IInv, Typed, RowsGrantAccess, Histories
<1>14. ASSUME NEW o \in Orders, ExpireOrder(o) PROVE RowsGrantAccess'
  BY <1>14 DEF ExpireOrder, OverwriteOrder, IInv, Typed, RowsGrantAccess, Histories
<1>15. ASSUME NEW row \in sweep.subs, MarkPastDue(row) PROVE RowsGrantAccess'
  <2>1. UNCHANGED now
    BY <1>15 DEF MarkPastDue
  <2> QED BY <1>15, <2>1, SweptRowIsSet DEF IInv, RowsGrantAccess
<1>16. ASSUME NEW row \in sweep.subs, ExpireSubscription(row) PROVE RowsGrantAccess'
  <2>1. UNCHANGED now
    BY <1>16 DEF ExpireSubscription
  <2> QED BY <1>16, <2>1, SweptRowIsSet DEF IInv, RowsGrantAccess
<1>17. CASE SweepDies
  BY <1>17 DEF SweepDies, Fault, IInv, Typed, RowsGrantAccess, Histories
<1>18. CASE Tick
  <2>1. now \in Nat /\ now' = now + 1 /\ UNCHANGED <<subs, history>>
    BY <1>18 DEF Tick, IInv, Typed
  <2>2. \A i \in 1..Len(subs) : now' < subs[i].end => now < subs[i].end
    BY <2>1, EndsAreNumbers DEF IInv
  <2> QED BY <2>1, <2>2 DEF IInv, RowsGrantAccess
<1>19. CASE UNCHANGED vars
  BY <1>19 DEF vars, IInv, Typed, RowsGrantAccess, Histories
<1>20. ASSUME NEW o \in Orders, InsertOrder(o) PROVE RowsGrantAccess'
  BY <1>20 DEF InsertOrder, IInv, Typed, RowsGrantAccess, Histories
<1> QED
  BY <1>1, <1>2, <1>3, <1>4, <1>5, <1>6, <1>7, <1>8, <1>9, <1>10, <1>11, <1>12, <1>13,
     <1>14, <1>15, <1>16, <1>17, <1>18, <1>19, <1>20
     DEF Next, OnPaymentFailed, Sweep

(* Every step keeps SweepIsPast.                                           *)
LEMMA SweepIsPastStep ==
  ASSUME IInv, [Next]_vars
  PROVE  SweepIsPast'
<1>1. ASSUME NEW o \in Orders, CreateCheckout(o) PROVE SweepIsPast'
  BY <1>1 DEF CreateCheckout, IInv, Typed, SweepIsPast, IdleSweep, Sweeps
<1>2. ASSUME NEW p \in Payments, NEW o \in Orders, Attempt(p, o) PROVE SweepIsPast'
  BY <1>2 DEF Attempt, IInv, Typed, SweepIsPast, IdleSweep, Sweeps
<1>3. ASSUME NEW p \in Payments, PaidReads(p) PROVE SweepIsPast'
  BY <1>3 DEF PaidReads, Applies, IInv, Typed, SweepIsPast, IdleSweep, Sweeps
<1>4. ASSUME NEW o \in Orders, PaidCommits(o) PROVE SweepIsPast'
  BY <1>4 DEF PaidCommits, IInv, Typed, SweepIsPast, IdleSweep, Sweeps
<1>5. ASSUME NEW a \in FreeRequests, FreeReads(a) PROVE SweepIsPast'
  BY <1>5 DEF FreeReads, IInv, Typed, SweepIsPast, IdleSweep, Sweeps
<1>6. ASSUME NEW a \in FreeRequests, FreeCommits(a) PROVE SweepIsPast'
  BY <1>6 DEF FreeCommits, IInv, Typed, SweepIsPast, IdleSweep, Sweeps
<1>7. ASSUME NEW a \in Transactions, ActivationAborts(a) PROVE SweepIsPast'
  BY <1>7 DEF ActivationAborts, Fault, IInv, Typed, SweepIsPast, IdleSweep, Sweeps
<1>8. ASSUME NEW p \in Payments, OnPaymentCaptured(p) PROVE SweepIsPast'
  BY <1>8 DEF OnPaymentCaptured, IInv, Typed, SweepIsPast, IdleSweep, Sweeps
<1>9. ASSUME NEW p \in Payments, FailedReads(p) PROVE SweepIsPast'
  BY <1>9 DEF FailedReads, IInv, Typed, SweepIsPast, IdleSweep, Sweeps
<1>10. CASE FailedOrder
  BY <1>10 DEF FailedOrder, OverwriteOrder, IInv, Typed, SweepIsPast, IdleSweep, Sweeps
<1>11. CASE FailedEnds
  BY <1>11 DEF FailedEnds, FailedPayment, Fault, IInv, Typed, SweepIsPast, IdleSweep, Sweeps
<1>12. CASE SweepStarts
  BY <1>12 DEF SweepStarts, IInv, Typed, SweepIsPast, IdleSweep, Sweeps
<1>13. CASE SweepLists
  <2>1. \/ sweep' = IdleSweep
        \/ \E pc, rows : sweep' = [sweep EXCEPT !.pc = pc, !.subs = rows]
    BY <1>13 DEF SweepLists
  <2>2. sweep'.at = sweep.at \/ sweep'.at = 0
    <3>1. sweep \in Sweeps(Len(subs))
      BY DEF IInv, Typed
    <3>2. CASE \E pc, rows : sweep' = [sweep EXCEPT !.pc = pc, !.subs = rows]
      <4>1. PICK pc, rows : sweep' = [sweep EXCEPT !.pc = pc, !.subs = rows]
        BY <3>2
      <4> QED BY <3>1, <4>1 DEF Sweeps
    <3>3. CASE sweep' = IdleSweep
      BY <3>3 DEF IdleSweep
    <3> QED BY <2>1, <3>2, <3>3
  <2>3. now \in Nat /\ UNCHANGED now
    BY <1>13 DEF SweepLists, IInv, Typed
  <2> QED BY <2>2, <2>3 DEF IInv, SweepIsPast
<1>14. ASSUME NEW o \in Orders, ExpireOrder(o) PROVE SweepIsPast'
  BY <1>14 DEF ExpireOrder, OverwriteOrder, IInv, Typed, SweepIsPast, IdleSweep, Sweeps
<1>15. ASSUME NEW row \in sweep.subs, MarkPastDue(row) PROVE SweepIsPast'
  BY <1>15 DEF MarkPastDue, IInv, Typed, SweepIsPast, IdleSweep, Sweeps
<1>16. ASSUME NEW row \in sweep.subs, ExpireSubscription(row) PROVE SweepIsPast'
  BY <1>16 DEF ExpireSubscription, IInv, Typed, SweepIsPast, IdleSweep, Sweeps
<1>17. CASE SweepDies
  BY <1>17 DEF SweepDies, Fault, IInv, Typed, SweepIsPast, IdleSweep, Sweeps
<1>18. CASE Tick
  BY <1>18 DEF Tick, IInv, Typed, SweepIsPast, IdleSweep, Sweeps
<1>19. CASE UNCHANGED vars
  BY <1>19 DEF vars, IInv, Typed, SweepIsPast, IdleSweep, Sweeps
<1>20. ASSUME NEW o \in Orders, InsertOrder(o) PROVE SweepIsPast'
  BY <1>20 DEF InsertOrder, IInv, Typed, SweepIsPast, IdleSweep, Sweeps
<1> QED
  BY <1>1, <1>2, <1>3, <1>4, <1>5, <1>6, <1>7, <1>8, <1>9, <1>10, <1>11, <1>12, <1>13,
     <1>14, <1>15, <1>16, <1>17, <1>18, <1>19, <1>20
     DEF Next, OnPaymentFailed, Sweep

(* Every step keeps PeriodsAreCovered.                                     *)
LEMMA PeriodsAreCoveredStep ==
  ASSUME IInv, [Next]_vars
  PROVE  PeriodsAreCovered'
<1>1. ASSUME NEW o \in Orders, CreateCheckout(o) PROVE PeriodsAreCovered'
  <2>1. UNCHANGED <<subs, history>> /\ history.invoices[o] = 0
    BY <1>1 DEF CreateCheckout, IInv, InvoicesAreCounted
  <2>2. \A other \in Orders \ {o} : order'[other] = order[other]
    BY <1>1 DEF CreateCheckout, IInv, Typed, AllOrders
  <2> QED BY <2>1, <2>2 DEF IInv, PeriodsAreCovered
<1>2. ASSUME NEW p \in Payments, NEW o \in Orders, Attempt(p, o) PROVE PeriodsAreCovered'
  BY <1>2
     DEF Attempt, IInv, Typed, PeriodsAreCovered, InvoicesAreCounted, Histories, OrderRows
<1>3. ASSUME NEW p \in Payments, PaidReads(p) PROVE PeriodsAreCovered'
  BY <1>3 DEF PaidReads, IInv, PeriodsAreCovered
<1>4. ASSUME NEW o \in Orders, PaidCommits(o) PROVE PeriodsAreCovered'
  <2>1. \A other \in Orders : order'[other].end = order[other].end
    BY <1>4, StatusIsSet DEF PaidCommits, IInv, AllOrders, OrderStatus
  <2>2. PICK k \in 1..Len(subs') :
          /\ subs'[k].end = order[o].end
          /\ ~history'.lost /\ k \in 1..Len(subs) => subs[k].end <= order[o].end
          /\ \A j \in (1..Len(subs')) \ {k} : j \in 1..Len(subs) /\ subs'[j] = subs[j]
    BY <1>4, CommitIsSound
  <2>3. /\ ~history'.lost => ~history.lost
        /\ \A other \in Orders \ {o} : history'.invoices[other] = history.invoices[other]
        /\ Len(subs) <= Len(subs') /\ Len(subs) \in Nat /\ Len(subs') \in Nat
    BY <1>4, CommitIsSound DEF IInv, Typed
  <2>4. ASSUME ~history'.lost, NEW other \in Orders \ {o}, history.invoices[other] > 0
        PROVE  \E i \in 1..Len(subs') : order[other].end <= subs'[i].end
    <3>1. PICK i \in 1..Len(subs) : order[other].end <= subs[i].end
      BY <2>3, <2>4 DEF IInv, PeriodsAreCovered
    <3>2. i \in 1..Len(subs') /\ (i # k => subs'[i] = subs[i])
      BY <2>2, <2>3
    <3>3. i = k => order[other].end <= subs'[k].end
      <4>1. subs[i].end \in Nat /\ order[o].end \in Nat /\ order[other].end \in Nat
        BY EndsAreNumbers DEF IInv, Typed, OrderRows, AllOrders
      <4> QED BY <2>2, <2>4, <3>1, <4>1
    <3> QED BY <3>1, <3>2, <3>3
  <2>5. order[o].end <= subs'[k].end
    BY <2>2 DEF IInv, Typed, OrderRows, AllOrders
  <2> QED BY <2>1, <2>2, <2>3, <2>4, <2>5 DEF PeriodsAreCovered
<1>5. ASSUME NEW a \in FreeRequests, FreeReads(a) PROVE PeriodsAreCovered'
  BY <1>5 DEF FreeReads, IInv, PeriodsAreCovered
<1>6. ASSUME NEW a \in FreeRequests, FreeCommits(a) PROVE PeriodsAreCovered'
  <2>1. \A o \in Orders : order'[o] = order[o]
    BY <1>6, ConstantsAssumption DEF FreeCommits, IInv, Typed, AllOrders, FreeOrder, Orders
  <2>2. PICK k \in 1..Len(subs') :
          /\ ~history'.lost /\ k \in 1..Len(subs) => subs[k].end <= subs'[k].end
          /\ \A j \in (1..Len(subs')) \ {k} : j \in 1..Len(subs) /\ subs'[j] = subs[j]
    BY <1>6, FreeCommitIsSound
  <2>3. /\ ~history'.lost => ~history.lost
        /\ history'.invoices = history.invoices /\ subs' \in Seq(SubscriptionRows)
        /\ Len(subs) <= Len(subs') /\ Len(subs) \in Nat /\ Len(subs') \in Nat
    BY <1>6, FreeCommitIsSound DEF IInv, Typed
  <2>4. ASSUME ~history'.lost, NEW o \in Orders, history.invoices[o] > 0
        PROVE  \E i \in 1..Len(subs') : order[o].end <= subs'[i].end
    <3>1. PICK i \in 1..Len(subs) : order[o].end <= subs[i].end
      BY <2>3, <2>4 DEF IInv, PeriodsAreCovered
    <3>2. i \in 1..Len(subs') /\ (i # k => subs'[i] = subs[i])
      BY <2>2, <2>3
    <3>3. i = k => order[o].end <= subs'[k].end
      <4>1. subs[i].end \in Nat /\ order[o].end \in Nat
        BY EndsAreNumbers DEF IInv, Typed, OrderRows, AllOrders
      <4>2. subs'[k] \in SubscriptionRows
        BY <2>3
      <4>3. subs'[k].end \in Nat
        BY <4>2 DEF SubscriptionRows
      <4> QED BY <2>2, <2>4, <3>1, <4>1, <4>3
    <3> QED BY <3>1, <3>2, <3>3
  <2> QED BY <2>1, <2>3, <2>4 DEF PeriodsAreCovered
<1>7. ASSUME NEW a \in Transactions, ActivationAborts(a) PROVE PeriodsAreCovered'
  BY <1>7 DEF ActivationAborts, IInv, PeriodsAreCovered
<1>8. ASSUME NEW p \in Payments, OnPaymentCaptured(p) PROVE PeriodsAreCovered'
  BY <1>8 DEF OnPaymentCaptured, IInv, PeriodsAreCovered
<1>9. ASSUME NEW p \in Payments, FailedReads(p) PROVE PeriodsAreCovered'
  BY <1>9 DEF FailedReads, IInv, PeriodsAreCovered
<1>10. CASE FailedOrder
  <2>1. gateway[failing.p].o \in Orders
    BY <1>10 DEF FailedOrder, IInv, AttemptsAreReal
  <2>2. /\ UNCHANGED subs /\ history'.lost = history.lost
        /\ history'.invoices = history.invoices
        /\ \A o \in Orders : order'[o].end = order[o].end
    BY <1>10, <2>1, OrderIsOverwritten DEF FailedOrder, IInv, AllOrders, OrderStatus
  <2> QED BY <2>2 DEF IInv, PeriodsAreCovered
<1>11. CASE FailedEnds
  <2>1. failing.sub \in 0..Len(subs) /\ UNCHANGED <<order, history>>
    BY <1>11 DEF FailedEnds, IInv, Typed, Failings
  <2>2. UNCHANGED subs \/ PastDue(failing.sub)
    BY <1>11 DEF FailedEnds
  <2> QED BY <2>1, <2>2, PastDueIsSet DEF IInv, PeriodsAreCovered
<1>12. CASE SweepStarts
  BY <1>12 DEF SweepStarts, IInv, PeriodsAreCovered
<1>13. CASE SweepLists
  BY <1>13 DEF SweepLists, IInv, PeriodsAreCovered
<1>14. ASSUME NEW o \in Orders, ExpireOrder(o) PROVE PeriodsAreCovered'
  <2>1. /\ UNCHANGED subs /\ history'.lost = history.lost
        /\ history'.invoices = history.invoices
        /\ \A other \in Orders : order'[other].end = order[other].end
    BY <1>14, OrderIsOverwritten DEF ExpireOrder, IInv, AllOrders, OrderStatus
  <2> QED BY <2>1 DEF IInv, PeriodsAreCovered
<1>15. ASSUME NEW row \in sweep.subs, MarkPastDue(row) PROVE PeriodsAreCovered'
  <2>1. UNCHANGED order
    BY <1>15 DEF MarkPastDue
  <2> QED BY <1>15, <2>1, SweptRowIsSet DEF IInv, PeriodsAreCovered
<1>16. ASSUME NEW row \in sweep.subs, ExpireSubscription(row) PROVE PeriodsAreCovered'
  <2>1. UNCHANGED order
    BY <1>16 DEF ExpireSubscription
  <2> QED BY <1>16, <2>1, SweptRowIsSet DEF IInv, PeriodsAreCovered
<1>17. CASE SweepDies
  BY <1>17 DEF SweepDies, IInv, PeriodsAreCovered
<1>18. CASE Tick
  BY <1>18
     DEF Tick, IInv, Typed, PeriodsAreCovered, InvoicesAreCounted, Histories, OrderRows
<1>19. CASE UNCHANGED vars
  BY <1>19
     DEF vars, IInv, Typed, PeriodsAreCovered, InvoicesAreCounted, Histories, OrderRows
<1>20. ASSUME NEW o \in Orders, InsertOrder(o) PROVE PeriodsAreCovered'
  BY <1>20, InsertionSetsStatus DEF IInv, PeriodsAreCovered
<1> QED
  BY <1>1, <1>2, <1>3, <1>4, <1>5, <1>6, <1>7, <1>8, <1>9, <1>10, <1>11, <1>12, <1>13,
     <1>14, <1>15, <1>16, <1>17, <1>18, <1>19, <1>20
     DEF Next, OnPaymentFailed, Sweep

-----------------------------------------------------------------------------
(* The inductive invariant holds at first.                                 *)
LEMMA InitInv == Init => IInv
<1> SUFFICES ASSUME Init PROVE IInv
  OBVIOUS
<1>1. Typed
  BY DEF Init, Typed, OrderRows, NoOrder, OrderStatus, AllOrders, Attempts, None,
     Activations,
         IdleApply, Failings, IdleFailing, Sweeps, IdleSweep, Histories
<1>2. AttemptsAreReal /\ ActivationsAreOpen /\ SweepIsPast
  BY DEF Init, AttemptsAreReal, ActivationsAreOpen, SweepIsPast, IdleFailing, IdleApply,
         IdleSweep, Transactions
<1>3. InvoicesAreCounted /\ RowsGrantAccess /\ PeriodsAreCovered
  BY DEF Init, InvoicesAreCounted, RowsGrantAccess, PeriodsAreCovered, NoOrder, AllOrders
<1> QED
  BY <1>1, <1>2, <1>3 DEF IInv

(* Every step keeps it.                                                    *)
LEMMA StepInv == IInv /\ [Next]_vars => IInv'
  BY TypedStep, AttemptsAreRealStep, ActivationsAreOpenStep, InvoicesAreCountedStep,
     RowsGrantAccessStep, SweepIsPastStep, PeriodsAreCoveredStep DEF IInv

(* The inductive invariant holds always.                                   *)
LEMMA InvHolds == Spec => []IInv
  BY InitInv, StepInv, PTL DEF Spec

(* The rows have the types declared, and applyPaidOrder is idempotent:     *)
(* however verify, the order.paid event, their retries and the crashes in  *)
(* between interleave, an order has more than one invoice only if the sweep*)
(* or #onPaymentFailed overwrote its paid row.                             *)
THEOREM InvoicesAreAlwaysSound == Spec => []InvoicesAreSound
<1>1. ASSUME IInv PROVE TypeOK
  BY <1>1
     DEF IInv, Typed, TypeOK, OrderRows, SubscriptionRows, Attempts, Activations, Failings,
              Sweeps, Histories
<1>2. ASSUME IInv, NEW o \in Orders
      PROVE  history.invoices[o] <= 1 + history.overwritten[o]
  <2>1. history.invoices[o] \in Nat /\ history.overwritten[o] \in Nat
    BY <1>2 DEF IInv, Typed, Histories
  <2> QED BY <1>2, <2>1 DEF IInv, InvoicesAreCounted
<1>3. IInv => InvoicesAreSound
  BY <1>1, <1>2 DEF InvoicesAreSound, InvoicesHaveACause
<1> QED
  BY <1>3, InvHolds, PTL

(* findCurrentForEntitlements finds a subscription as long as a period that*)
(* was paid lasts, unless an activation shortened the row that it extended *)
(* or the sweep marked a row renewed since it was listed.                  *)
THEOREM PaidTimeIsAlwaysKept == Spec => []PaidTimeIsKept
<1>1. ASSUME IInv, NEW o \in Orders, history.invoices[o] > 0, now < order[o].end, ~history.lost
      PROVE  Current # 0
  <2>1. PICK i \in 1..Len(subs) : order[o].end <= subs[i].end
    BY <1>1 DEF IInv, PeriodsAreCovered
  <2>2. now < subs[i].end
    <3>1. now \in Nat /\ order[o].end \in Nat /\ subs[i].end \in Nat
      BY <1>1, EndsAreNumbers DEF IInv, Typed, OrderRows, AllOrders
    <3> QED BY <1>1, <2>1, <3>1
  <2>3. Entitled(subs[i])
    BY <1>1, <2>2 DEF IInv, RowsGrantAccess, Grants, Entitled
  <2> QED BY <1>1, <2>3, CurrentIsARow DEF IInv
<1>2. IInv => PaidTimeIsKept
  BY <1>1 DEF PaidTimeIsKept
<1> QED
  BY <1>2, InvHolds, PTL

=============================================================================
