------------------------ MODULE DeliveryReceipts_proofs ------------------------
(***************************************************************************)
(* Proofs about DeliveryReceipts, for any sets of wamids and requests, any *)
(* length of a second and any clock.                                       *)
(*                                                                         *)
(* BufferIsSound is inductive only because Meta's receipts of a wamid rise *)
(* in rank with time (ReportsRise): otherwise a receipt of higher rank and *)
(* earlier second would be dropped from the buffer.  What a message shows  *)
(* is compared with what was acknowledged (ShownIsHighest), and that with  *)
(* what Meta reported.                                                     *)
(***************************************************************************)
EXTENDS DeliveryReceipts, TLAPS

-----------------------------------------------------------------------------
(* The second in which Meta stamps what happens at a time.                 *)
Second(t) == t - (t % TicksPerSecond)

(* A time and its second are less than a second apart.                     *)
LEMMA SecondBounds ==
  ASSUME NEW t \in Nat
  PROVE  /\ Second(t) \in Nat
         /\ Second(t) <= t
         /\ t < Second(t) + TicksPerSecond
<1>1. TicksPerSecond \in Nat /\ TicksPerSecond > 0
  BY ReceiptConstants
<1>2. t % TicksPerSecond \in 0..(TicksPerSecond - 1) /\ t % TicksPerSecond <= t
  BY <1>1
<1> QED
  BY <1>1, <1>2 DEF Second

(* The clock of seconds does not go back.                                  *)
LEMMA SecondGrows ==
  ASSUME NEW t \in Nat
  PROVE  Second(t) <= Second(t + 1)
<1> DEFINE q == t \div TicksPerSecond
           r == (t + 1) \div TicksPerSecond
<1>1. TicksPerSecond \in Nat /\ TicksPerSecond > 0
  BY ReceiptConstants
<1>2. q \in Nat /\ r \in Nat
  BY <1>1
<1>3. Second(t) = TicksPerSecond * q /\ Second(t + 1) = TicksPerSecond * r
  BY <1>1 DEF Second
<1>4. q <= r
  BY <1>1
<1>5. TicksPerSecond * q <= TicksPerSecond * r
  BY <1>1, <1>2, <1>4
<1> QED
  BY <1>3, <1>5

-----------------------------------------------------------------------------
(* What a receipt may do, in terms of ranks: one that applies does not     *)
(* lower the rank or the time, one that does not has no higher rank, or is *)
(* older.                                                                  *)
LEMMA ShouldApplyRaises ==
  ASSUME NEW current \in RankedStatus, NEW currentAt \in Times \cup {Never},
         NEW receipt \in Receipts
  PROVE  IF ShouldApply(current, currentAt, receipt.status, receipt.at)
           THEN /\ StatusRank[receipt.status] >= StatusRank[current]
                /\ receipt.at >= currentAt
           ELSE \/ StatusRank[receipt.status] <= StatusRank[current]
                \/ currentAt # Never /\ receipt.at < currentAt
BY ReceiptConstants DEF ShouldApply, StatusRank, RankedStatus, ProviderStatus, Receipts,
  Times, Never

(* A receipt that is written to a message replaces its status and its time.*)
LEMMA PatchedRecord ==
  ASSUME NEW status, NEW wamid, NEW at, NEW receipt
  PROVE  Patched([status |-> status, wamid |-> wamid, at |-> at], receipt) =
           [status |-> receipt.status, wamid |-> wamid, at |-> receipt.at]
<1> DEFINE old == [status |-> status, wamid |-> wamid, at |-> at]
           left == [old EXCEPT !.status = receipt.status, !.at = receipt.at]
           right == [status |-> receipt.status, wamid |-> wamid, at |-> receipt.at]
           fields == {"status", "wamid", "at"}
<1>1. /\ left = [f \in fields |-> left[f]]
      /\ right = [f \in fields |-> right[f]]
  OBVIOUS
<1>2. left.status = right.status /\ left.wamid = right.wamid /\ left.at = right.at
  OBVIOUS
<1>3. left = right
  BY <1>1, <1>2
<1> QED
  BY <1>3 DEF Patched

(* An early receipt always applies to the message that has just been sent. *)
LEMMA ReconciledShowsEarly ==
  ASSUME NEW w \in Wamids, NEW early \in Receipts \cup {NoReceipt}
  PROVE  Reconciled(w, early) =
           IF early = NoReceipt THEN [status |-> "sent", wamid |-> w, at |-> now]
           ELSE [status |-> early.status, wamid |-> w, at |-> early.at]
<1>1. CASE early = NoReceipt
  BY <1>1 DEF Reconciled
<1>2. CASE early \in Receipts /\ early # NoReceipt
  <2> DEFINE row == [status |-> "sent", wamid |-> w, at |-> Never]
  <2>1. ShouldApply(row.status, row.at, early.status, early.at)
    BY <1>2 DEF ShouldApply, StatusRank, RankedStatus, ProviderStatus, Receipts
  <2>2. row = [status |-> "sent", wamid |-> w,
               at |-> IF early = NoReceipt THEN now ELSE Never]
    BY <1>2
  <2>3. Reconciled(w, early) = Patched(row, early)
    BY <1>2, <2>1, <2>2 DEF Reconciled
  <2>4. Patched(row, early) = [status |-> early.status, wamid |-> w, at |-> early.at]
    BY PatchedRecord
  <2> QED
    BY <1>2, <2>3, <2>4
<1> QED
  BY <1>1, <1>2

-----------------------------------------------------------------------------
(* A full second has passed, so that Meta's stamps differ from Never.      *)
ClockIsSound == TicksPerSecond <= now

(* Webhooks handle, hold and buffer only what Meta has reported.           *)
OnlyReported ==
  /\ \A h \in Hooks : hook[h].pc # "idle" =>
       hook[h].w \in Wamids /\ hook[h].receipt \in reported[hook[h].w]
  /\ \A w \in Wamids : handled[w] \subseteq reported[w]
  /\ \A w \in Wamids : buffer[w] # NoReceipt => buffer[w] \in reported[w]

(* Meta's receipts for a wamid rise in rank with time, up to what Meta did.*)
ReportsRiseFor(w) ==
  /\ meta[w] \in {"unsent", "accepted"} => reported[w] = {}
  /\ meta[w] \in ProviderStatus => \E receipt \in reported[w] : receipt.status = meta[w]
  /\ \A receipt \in reported[w] :
       /\ meta[w] \in ProviderStatus
       /\ StatusRank[receipt.status] <= StatusRank[meta[w]]
       /\ receipt.at <= Second(now)
  /\ \A first, second \in reported[w] :
       first.at < second.at => StatusRank[first.status] <= StatusRank[second.status]
ReportsRise == \A w \in Wamids : ReportsRiseFor(w)

(* A message bears a wamid that was stored, and shows the worker's "sent"  *)
(* or a receipt of it.                                                     *)
ShownIsKnown ==
  /\ \A w \in Wamids : stored[w] => meta[w] # "unsent"
  /\ \A w \in Wamids : message.wamid = w =>
       /\ stored[w]
       /\ message.status = "sent" \/ \E receipt \in reported[w] :
                                        receipt.status = message.status

(* Nothing that was acknowledged outranks what the message shows, unless   *)
(* the receipt was raced or predates.                                      *)
ShownIsHighest ==
  \A w \in Wamids : message.wamid = w /\ excuse[w] = {} =>
    \A receipt \in handled[w] : StatusRank[receipt.status] <= StatusRank[message.status]

(* A request that met a buffered receipt finds it there until the wamid is *)
(* stored.                                                                 *)
ConflictsAreReal ==
  \A h \in Hooks : hook[h].pc = "conflict" /\ ~stored[hook[h].w] =>
    buffer[hook[h].w] # NoReceipt

(* The inductive invariant.                                                *)
IInv ==
  /\ TypeOK /\ ClockIsSound /\ OnlyReported /\ ReportsRise /\ ShownIsKnown
  /\ ShownIsHighest /\ ConflictsAreReal /\ BufferIsSound

(* A queued message, of which Meta knows nothing.                          *)
LEMMA InitInv == Init => IInv
<1> SUFFICES ASSUME Init PROVE IInv
  OBVIOUS
<1> USE ReceiptConstants DEF Init
<1>1. TypeOK
  BY DEF TypeOK, Times, RankedStatus, IdleHook, Never
<1>2. ClockIsSound /\ OnlyReported /\ ReportsRise
  BY DEF ClockIsSound, OnlyReported, ReportsRise, ReportsRiseFor, IdleHook,
         ProviderStatus
<1>3. ShownIsKnown /\ ShownIsHighest /\ ConflictsAreReal
  BY DEF ShownIsKnown, ShownIsHighest, ConflictsAreReal, IdleHook
<1>4. BufferIsSound
  BY DEF BufferIsSound, BufferHoldsTheLatest, BufferIsTransient
<1> QED
  BY <1>1, <1>2, <1>3, <1>4 DEF IInv

(* One step of the clock, of Meta, of a webhook request or of the worker.  *)
LEMMA StepInv == IInv /\ [Next]_vars => IInv'
<1> SUFFICES ASSUME IInv, [Next]_vars PROVE IInv'
  OBVIOUS
<1> USE DEF IInv
<1>1. CASE Tick
  <2>1. /\ now' = now + 1 /\ now < MaxTime
        /\ UNCHANGED <<meta, reported, handled, message, stored, buffer, hook, excuse>>
    BY <1>1 DEF Tick
  <2>2. now \in Nat /\ now' \in Times
    BY <2>1, ReceiptConstants DEF TypeOK, Times
  <2>3. TypeOK'
    BY <2>1, <2>2 DEF TypeOK
  <2>4. ClockIsSound'
    BY <2>1, <2>2, ReceiptConstants DEF ClockIsSound
  <2>5. ReportsRise'
    <3>1. Second(now) <= Second(now') /\ Second(now) \in Nat /\ Second(now') \in Nat
      BY <2>1, <2>2, SecondGrows, SecondBounds DEF Times
    <3>2. \A w \in Wamids : \A receipt \in reported[w] : receipt.at \in Nat
      BY DEF TypeOK, Receipts, Times
    <3> QED
      BY <2>1, <3>1, <3>2 DEF ReportsRise, ReportsRiseFor
  <2>6. OnlyReported' /\ ShownIsKnown' /\ ShownIsHighest' /\ ConflictsAreReal'
    BY <2>1 DEF OnlyReported, ShownIsKnown, ShownIsHighest, ConflictsAreReal
  <2>7. BufferIsSound'
    BY <2>1 DEF BufferIsSound, BufferHoldsTheLatest, BufferIsTransient
  <2> QED
    BY <2>3, <2>4, <2>5, <2>6, <2>7
<1>2. ASSUME NEW w \in Wamids, MetaAccepts(w) PROVE IInv'
  <2>1. /\ meta[w] = "unsent" /\ meta' = [meta EXCEPT ![w] = "accepted"]
        /\ UNCHANGED <<now, reported, handled, message, stored, buffer, hook, excuse>>
    BY <1>2 DEF MetaAccepts
  <2>2. TypeOK'
    BY <2>1 DEF TypeOK
  <2>3. ReportsRise'
    BY <2>1 DEF ReportsRise, ReportsRiseFor, TypeOK, ProviderStatus
  <2>4. ClockIsSound' /\ OnlyReported' /\ ShownIsHighest' /\ ConflictsAreReal'
    BY <2>1 DEF ClockIsSound, OnlyReported, ShownIsHighest, ConflictsAreReal
  <2>5. ShownIsKnown'
    BY <2>1 DEF ShownIsKnown, TypeOK
  <2>6. BufferIsSound'
    BY <2>1 DEF BufferIsSound, BufferHoldsTheLatest, BufferIsTransient
  <2> QED
    BY <2>2, <2>3, <2>4, <2>5, <2>6
<1>3. ASSUME NEW w \in Wamids, NEW status \in Reported, MetaReports(w, status)
      PROVE  IInv'
  <2> DEFINE new == [status |-> status, at |-> Second(now)]
  <2>1. /\ meta' = [meta EXCEPT ![w] = status]
        /\ reported' = [reported EXCEPT ![w] = @ \cup {new}]
        /\ UNCHANGED <<now, handled, message, stored, buffer, hook, excuse>>
    BY <1>3 DEF MetaReports, Second
  <2>2. /\ meta[w] \in {"accepted", "sent", "delivered"}
        /\ status \in ProviderStatus
        /\ meta[w] # "accepted" => StatusRank[meta[w]] < StatusRank[status]
    BY <1>3 DEF MetaReports, StatusRank, ProviderStatus
  <2>3. Second(now) \in Times /\ Second(now) \in Nat /\ now \in Nat
    BY SecondBounds, ReceiptConstants DEF TypeOK, ClockIsSound, Times
  <2>4. new \in Receipts
    BY <2>2, <2>3 DEF Receipts
  <2> HIDE DEF new
  <2>5. TypeOK'
    BY <2>1, <2>2, <2>4 DEF TypeOK
  <2>6. OnlyReported'
    BY <2>1 DEF OnlyReported, TypeOK
  <2>7. ReportsRise'
    <3> SUFFICES ASSUME NEW v \in Wamids
                 PROVE  ReportsRiseFor(v)'
      BY DEF ReportsRise, ReportsRiseFor
    <3>1. CASE v # w
      BY <2>1, <3>1 DEF ReportsRise, ReportsRiseFor, TypeOK
    <3>2. CASE v = w
      <4>1. /\ meta'[w] = status /\ reported'[w] = reported[w] \cup {new}
            /\ now' = now
        BY <2>1 DEF TypeOK
      <4>2. new.status = status /\ new.at = Second(now)
        BY DEF new
      <4>3. \A receipt \in reported[w] :
              /\ StatusRank[receipt.status] < StatusRank[status]
              /\ receipt.at <= Second(now)
              /\ receipt.at \in Nat /\ receipt.status \in ProviderStatus
        BY <2>2 DEF ReportsRise, ReportsRiseFor, TypeOK, Receipts, Times, StatusRank,
                    ProviderStatus
      <4>4. /\ StatusRank[status] \in Nat
            /\ \A receipt \in reported[w] : StatusRank[receipt.status] \in Nat
        BY <2>2, <4>3 DEF StatusRank, ProviderStatus
      <4> QED
        BY <2>2, <2>3, <3>2, <4>1, <4>2, <4>3, <4>4
        DEF ReportsRise, ReportsRiseFor, ProviderStatus
    <3> QED
      BY <3>1, <3>2
  <2>8. ShownIsKnown'
    BY <2>1, <2>2 DEF ShownIsKnown, TypeOK, ProviderStatus
  <2>9. ClockIsSound' /\ ShownIsHighest' /\ ConflictsAreReal'
    BY <2>1 DEF ClockIsSound, ShownIsHighest, ConflictsAreReal
  <2>10. BufferIsSound'
    BY <2>1 DEF BufferIsSound, BufferHoldsTheLatest, BufferIsTransient
  <2> QED
    BY <2>5, <2>6, <2>7, <2>8, <2>9, <2>10
<1>4. ASSUME NEW h \in Hooks, NEW w \in Wamids, NEW receipt \in reported[w],
             ApplyDeliveryReceipt(h, w, receipt)
      PROVE  IInv'
  <2>1. /\ message.wamid = w
        /\ message' = IF Stale(receipt) THEN message ELSE Patched(message, receipt)
        /\ handled' = [handled EXCEPT ![w] = @ \cup {receipt}]
        /\ UNCHANGED <<now, meta, reported, stored, buffer, hook>>
    BY <1>4 DEF ApplyDeliveryReceipt, Matches, Handled
  <2>2. excuse' = [excuse EXCEPT ![w] =
          @ \cup IF /\ receipt.at < message.at
                    /\ StatusRank[receipt.status] > StatusRank[message.status]
                   THEN {"predates"} ELSE {}]
    BY <1>4 DEF ApplyDeliveryReceipt
  <2>3. receipt \in Receipts
    BY DEF TypeOK
  <2>4. /\ message'.wamid = w
        /\ Stale(receipt) => message'.status = message.status
        /\ ~Stale(receipt) => message'.status = receipt.status
    BY <2>1 DEF Patched, TypeOK
  <2>5. stored[w]
    BY <2>1 DEF ShownIsKnown
  <2>6. TypeOK'
    <3>1. message' \in [status: RankedStatus, wamid: Wamids \cup {NoWamid},
                        at: Times \cup {Never}]
      BY <2>1, <2>3 DEF TypeOK, Patched, Receipts, RankedStatus
    <3>2. handled' \in [Wamids -> SUBSET Receipts]
      BY <2>1, <2>3 DEF TypeOK
    <3>3. excuse' \in [Wamids -> SUBSET {"predates", "raced"}]
      BY <2>2 DEF TypeOK
    <3> QED
      BY <2>1, <3>1, <3>2, <3>3 DEF TypeOK
  <2>7. ClockIsSound' /\ OnlyReported' /\ ReportsRise' /\ ConflictsAreReal'
    BY <2>1 DEF ClockIsSound, OnlyReported, ReportsRise, ReportsRiseFor,
                ConflictsAreReal, TypeOK
  <2>8. ShownIsKnown'
    BY <2>1, <2>4, <2>5 DEF ShownIsKnown
  <2>9. ShownIsHighest'
    <3> SUFFICES ASSUME excuse'[w] = {}, NEW other \in handled'[w]
                 PROVE  StatusRank[other.status] <= StatusRank[message'.status]
      BY <2>4 DEF ShownIsHighest
    <3>1. /\ excuse[w] = {}
          /\ ~(/\ receipt.at < message.at
               /\ StatusRank[receipt.status] > StatusRank[message.status])
      BY <2>2 DEF TypeOK
    <3>2. /\ message.status \in RankedStatus /\ message.at \in Times \cup {Never}
          /\ other \in Receipts
      BY <2>1, <2>3 DEF TypeOK
    <3>3. /\ StatusRank[message.status] \in Nat /\ StatusRank[receipt.status] \in Nat
          /\ StatusRank[other.status] \in Nat /\ receipt.at \in Nat /\ message.at \in Nat
      BY <2>3, <3>2 DEF StatusRank, RankedStatus, ProviderStatus, Receipts, Times, Never
    <3>4. other = receipt \/ StatusRank[other.status] <= StatusRank[message.status]
      BY <2>1, <3>1 DEF ShownIsHighest, TypeOK
    <3>5. CASE Stale(receipt)
      BY <2>3, <2>4, <3>1, <3>2, <3>3, <3>4, <3>5, ShouldApplyRaises DEF Stale
    <3>6. CASE ~Stale(receipt)
      BY <2>3, <2>4, <3>1, <3>2, <3>3, <3>4, <3>6, ShouldApplyRaises DEF Stale
    <3> QED
      BY <3>5, <3>6
  <2>10. BufferIsSound'
    BY <2>1, <2>2, <2>5
    DEF BufferIsSound, BufferHoldsTheLatest, BufferIsTransient, TypeOK
  <2> QED
    BY <2>6, <2>7, <2>8, <2>9, <2>10
<1>5. ASSUME NEW h \in Hooks, NEW w \in Wamids, NEW receipt \in reported[w],
             ReceiptNotFound(h, w, receipt)
      PROVE  IInv'
  <2>1. /\ hook' = [hook EXCEPT ![h] = [pc |-> "unmatched", w |-> w,
                                         receipt |-> receipt]]
        /\ UNCHANGED <<now, meta, reported, handled, message, stored, buffer, excuse>>
    BY <1>5 DEF ReceiptNotFound
  <2>2. TypeOK' /\ OnlyReported' /\ ConflictsAreReal'
    BY <2>1 DEF TypeOK, OnlyReported, ConflictsAreReal
  <2>3. ClockIsSound' /\ ReportsRise' /\ ShownIsKnown' /\ ShownIsHighest'
    BY <2>1 DEF ClockIsSound, ReportsRise, ReportsRiseFor, ShownIsKnown, ShownIsHighest
  <2>4. BufferIsSound'
    BY <2>1 DEF BufferIsSound, BufferHoldsTheLatest, BufferIsTransient
  <2> QED
    BY <2>2, <2>3, <2>4
<1>6. ASSUME NEW h \in Hooks, InsertUnmatched(h) PROVE IInv'
  <2> DEFINE w == hook[h].w
             receipt == hook[h].receipt
  <2>1. /\ hook[h].pc = "unmatched" /\ w \in Wamids /\ receipt \in reported[w]
        /\ receipt \in Receipts /\ receipt # NoReceipt
        /\ UNCHANGED <<now, meta, reported, message, stored>>
    BY <1>6 DEF InsertUnmatched, OnlyReported, TypeOK, Receipts, NoReceipt, Times,
                ProviderStatus
  <2>2. CASE buffer[w] = NoReceipt
    <3>1. /\ buffer' = [buffer EXCEPT ![w] = receipt]
          /\ hook' = [hook EXCEPT ![h] = IdleHook]
          /\ handled' = [handled EXCEPT ![w] = @ \cup {receipt}]
          /\ excuse' = [excuse EXCEPT ![w] = @ \cup IF stored[w] THEN {"raced"} ELSE {}]
      BY <1>6, <2>2 DEF InsertUnmatched, Handled
    <3> HIDE DEF w, receipt
    <3>2. TypeOK'
      BY <2>1, <3>1 DEF TypeOK, IdleHook
    <3>3. OnlyReported' /\ ConflictsAreReal'
      BY <2>1, <3>1 DEF OnlyReported, ConflictsAreReal, TypeOK, IdleHook
    <3>4. ShownIsHighest'
      BY <2>1, <3>1 DEF ShownIsHighest, ShownIsKnown, TypeOK
    <3>5. BufferIsSound'
      <4>1. ~stored[w] => handled[w] = {}
        BY <2>1, <2>2 DEF BufferIsSound, BufferHoldsTheLatest, w
      <4>2. StatusRank[receipt.status] <= StatusRank[receipt.status]
        BY <2>1 DEF Receipts, StatusRank, ProviderStatus
      <4>3. BufferHoldsTheLatest'
        BY <2>1, <3>1, <4>1, <4>2 DEF BufferIsSound, BufferHoldsTheLatest, TypeOK
      <4>4. BufferIsTransient'
        BY <2>1, <3>1 DEF BufferIsSound, BufferIsTransient, TypeOK
      <4> QED
        BY <4>3, <4>4 DEF BufferIsSound
    <3>6. ClockIsSound' /\ ReportsRise' /\ ShownIsKnown'
      BY <2>1 DEF ClockIsSound, ReportsRise, ReportsRiseFor, ShownIsKnown
    <3> QED
      BY <3>2, <3>3, <3>4, <3>5, <3>6
  <2>3. CASE buffer[w] # NoReceipt
    <3>1. /\ hook' = [hook EXCEPT ![h].pc = "conflict"]
          /\ UNCHANGED <<buffer, handled, excuse>>
      BY <1>6, <2>3 DEF InsertUnmatched
    <3>2. TypeOK' /\ OnlyReported' /\ ConflictsAreReal'
      BY <2>1, <2>3, <3>1 DEF TypeOK, OnlyReported, ConflictsAreReal
    <3>3. ClockIsSound' /\ ReportsRise' /\ ShownIsKnown' /\ ShownIsHighest'
      BY <2>1, <3>1 DEF ClockIsSound, ReportsRise, ReportsRiseFor, ShownIsKnown,
                        ShownIsHighest
    <3>4. BufferIsSound'
      BY <2>1, <3>1 DEF BufferIsSound, BufferHoldsTheLatest, BufferIsTransient
    <3> QED
      BY <3>2, <3>3, <3>4
  <2> QED
    BY <2>2, <2>3
<1>7. ASSUME NEW h \in Hooks, HookAborts(h) PROVE IInv'
  <2>1. /\ hook' = [hook EXCEPT ![h] = IdleHook]
        /\ UNCHANGED <<now, meta, reported, handled, message, stored, buffer, excuse>>
    BY <1>7 DEF HookAborts
  <2>2. TypeOK' /\ OnlyReported' /\ ConflictsAreReal'
    BY <2>1 DEF TypeOK, OnlyReported, ConflictsAreReal, IdleHook
  <2>3. ClockIsSound' /\ ReportsRise' /\ ShownIsKnown' /\ ShownIsHighest'
    BY <2>1 DEF ClockIsSound, ReportsRise, ReportsRiseFor, ShownIsKnown, ShownIsHighest
  <2>4. BufferIsSound'
    BY <2>1 DEF BufferIsSound, BufferHoldsTheLatest, BufferIsTransient
  <2> QED
    BY <2>2, <2>3, <2>4
<1>8. ASSUME NEW h \in Hooks, UpdateUnmatched(h) PROVE IInv'
  <2> DEFINE w == hook[h].w
             receipt == hook[h].receipt
             old == buffer[w]
             new == IF old # NoReceipt /\ Replaces(receipt, old) THEN receipt ELSE old
  <2>1. /\ hook[h].pc = "conflict" /\ w \in Wamids /\ receipt \in reported[w]
        /\ receipt \in Receipts /\ receipt # NoReceipt
        /\ old \in Receipts \cup {NoReceipt}
        /\ old # NoReceipt => old \in reported[w]
        /\ ~stored[w] => old # NoReceipt
    BY <1>8 DEF UpdateUnmatched, OnlyReported, ConflictsAreReal, TypeOK, Receipts,
                NoReceipt, Times, ProviderStatus
  <2>2. /\ buffer' = [buffer EXCEPT ![w] = new]
        /\ hook' = [hook EXCEPT ![h] = IdleHook]
        /\ handled' = [handled EXCEPT ![w] = @ \cup {receipt}]
        /\ excuse' = [excuse EXCEPT ![w] = @ \cup IF stored[w] THEN {"raced"} ELSE {}]
        /\ UNCHANGED <<now, meta, reported, message, stored>>
    BY <1>8 DEF UpdateUnmatched, Handled
  <2>3. /\ new \in {receipt, old}
        /\ new = NoReceipt => old = NoReceipt
    BY <2>1
  <2>4. old # NoReceipt => /\ StatusRank[old.status] <= StatusRank[new.status]
                           /\ StatusRank[receipt.status] <= StatusRank[new.status]
                           /\ StatusRank[old.status] \in Nat
    <3> SUFFICES ASSUME old # NoReceipt
                 PROVE  /\ StatusRank[old.status] <= StatusRank[new.status]
                        /\ StatusRank[receipt.status] <= StatusRank[new.status]
                        /\ StatusRank[old.status] \in Nat
      OBVIOUS
    <3>1. /\ old \in Receipts /\ old.status \in RankedStatus /\ old.at \in Times
          /\ old \in reported[w]
      BY <2>1 DEF Receipts, RankedStatus
    <3>2. /\ StatusRank[old.status] \in Nat /\ StatusRank[receipt.status] \in Nat
      BY <2>1, <3>1 DEF StatusRank, RankedStatus, ProviderStatus, Receipts
    <3>3. receipt.at < old.at => StatusRank[receipt.status] <= StatusRank[old.status]
      BY <2>1, <3>1 DEF ReportsRise, ReportsRiseFor
    <3> HIDE DEF old, receipt, w
    <3>4. CASE Replaces(receipt, old)
      BY <2>1, <3>1, <3>2, <3>4, ShouldApplyRaises DEF Replaces
    <3>5. CASE ~Replaces(receipt, old)
      BY <2>1, <3>1, <3>2, <3>3, <3>5, ShouldApplyRaises DEF Replaces
    <3> QED
      BY <3>4, <3>5
  <2> HIDE DEF w, receipt, old, new
  <2>5. TypeOK'
    BY <2>1, <2>2, <2>3 DEF TypeOK, IdleHook
  <2>6. OnlyReported'
    BY <2>1, <2>2, <2>3 DEF OnlyReported, TypeOK, IdleHook
  <2>7. ConflictsAreReal'
    BY <2>1, <2>2, <2>3 DEF ConflictsAreReal, TypeOK, IdleHook, old
  <2>8. ShownIsHighest'
    BY <2>1, <2>2 DEF ShownIsHighest, ShownIsKnown, TypeOK
  <2>9. BufferIsSound'
    <3>1. BufferHoldsTheLatest'
      <4> SUFFICES ASSUME NEW v \in Wamids, ~stored[v], NEW other \in handled'[v]
                   PROVE  /\ buffer'[v] # NoReceipt
                          /\ StatusRank[buffer'[v].status] >= StatusRank[other.status]
        BY <2>2 DEF BufferHoldsTheLatest
      <4>1. CASE v # w
        BY <2>2, <4>1 DEF BufferIsSound, BufferHoldsTheLatest, TypeOK
      <4>2. CASE v = w
        <5>1. buffer'[v] = new /\ new # NoReceipt /\ new \in Receipts /\ other \in Receipts
          BY <2>1, <2>2, <2>3, <4>2 DEF TypeOK
        <5>2. other = receipt \/ StatusRank[other.status] <= StatusRank[old.status]
          BY <2>2, <4>2 DEF BufferIsSound, BufferHoldsTheLatest, TypeOK, old
        <5>3. StatusRank[new.status] \in Nat /\ StatusRank[other.status] \in Nat
          BY <5>1 DEF Receipts, StatusRank, ProviderStatus
        <5> QED
          BY <2>1, <2>4, <4>2, <5>1, <5>2, <5>3
      <4> QED
        BY <4>1, <4>2
    <3>2. BufferIsTransient'
      BY <2>1, <2>2 DEF BufferIsSound, BufferIsTransient, TypeOK
    <3> QED
      BY <3>1, <3>2 DEF BufferIsSound
  <2>10. ClockIsSound' /\ ReportsRise' /\ ShownIsKnown'
    BY <2>2 DEF ClockIsSound, ReportsRise, ReportsRiseFor, ShownIsKnown
  <2> QED
    BY <2>5, <2>6, <2>7, <2>8, <2>9, <2>10
<1>9. ASSUME NEW w \in Wamids, MarkSentAndReconcile(w) PROVE IInv'
  <2> DEFINE early == buffer[w]
  <2>1. /\ meta[w] # "unsent" /\ ~stored[w]
        /\ stored' = [stored EXCEPT ![w] = TRUE]
        /\ message' = Reconciled(w, early)
        /\ buffer' = [buffer EXCEPT ![w] = NoReceipt]
        /\ UNCHANGED <<now, meta, reported, handled, hook, excuse>>
    BY <1>9 DEF MarkSentAndReconcile, DeleteUnmatched
  <2>2. /\ early \in Receipts \cup {NoReceipt}
        /\ early # NoReceipt => early \in reported[w]
        /\ early = NoReceipt => handled[w] = {}
    BY <2>1 DEF TypeOK, OnlyReported, BufferIsSound, BufferHoldsTheLatest
  <2>3. message' = IF early = NoReceipt
                     THEN [status |-> "sent", wamid |-> w, at |-> now]
                     ELSE [status |-> early.status, wamid |-> w, at |-> early.at]
    BY <2>1, <2>2, ReconciledShowsEarly
  <2>4. message'.wamid = w
    BY <2>3
  <2>5. TypeOK'
    <3>1. message' \in [status: RankedStatus, wamid: Wamids \cup {NoWamid},
                        at: Times \cup {Never}]
      BY <2>2, <2>3 DEF TypeOK, Receipts, RankedStatus, ProviderStatus
    <3> QED
      BY <2>1, <3>1 DEF TypeOK
  <2>6. OnlyReported'
    BY <2>1 DEF OnlyReported, TypeOK
  <2>7. ShownIsKnown'
    <3>1. message'.status = "sent" \/ \E receipt \in reported[w] :
                                        receipt.status = message'.status
      BY <2>2, <2>3
    <3> QED
      BY <2>1, <2>4, <3>1 DEF ShownIsKnown, TypeOK
  <2>8. ShownIsHighest'
    <3> SUFFICES ASSUME NEW other \in handled[w]
                 PROVE  StatusRank[other.status] <= StatusRank[message'.status]
      BY <2>1, <2>4 DEF ShownIsHighest
    <3>1. early # NoReceipt /\ StatusRank[early.status] >= StatusRank[other.status]
      BY <2>1 DEF BufferIsSound, BufferHoldsTheLatest
    <3>2. early \in Receipts /\ other \in Receipts
      BY <2>2, <3>1 DEF TypeOK
    <3> QED
      BY <2>3, <3>1, <3>2 DEF Receipts, StatusRank, ProviderStatus
  <2>9. ConflictsAreReal'
    BY <2>1 DEF ConflictsAreReal, OnlyReported, TypeOK
  <2>10. BufferIsSound'
    BY <2>1 DEF BufferIsSound, BufferHoldsTheLatest, BufferIsTransient, TypeOK
  <2>11. ClockIsSound' /\ ReportsRise'
    BY <2>1 DEF ClockIsSound, ReportsRise, ReportsRiseFor
  <2> QED
    BY <2>5, <2>6, <2>7, <2>8, <2>9, <2>10, <2>11
<1>10. CASE UNCHANGED vars
  <2>1. TypeOK' /\ ClockIsSound' /\ OnlyReported' /\ ReportsRise'
    BY <1>10 DEF vars, TypeOK, ClockIsSound, OnlyReported, ReportsRise, ReportsRiseFor
  <2>2. ShownIsKnown' /\ ShownIsHighest' /\ ConflictsAreReal'
    BY <1>10 DEF vars, ShownIsKnown, ShownIsHighest, ConflictsAreReal
  <2>3. BufferIsSound'
    BY <1>10 DEF vars, BufferIsSound, BufferHoldsTheLatest, BufferIsTransient
  <2> QED
    BY <2>1, <2>2, <2>3
<1> QED
  BY <1>1, <1>2, <1>3, <1>4, <1>5, <1>6, <1>7, <1>8, <1>9, <1>10 DEF Next, Webhook

-----------------------------------------------------------------------------
(* The invariant the theorems below rest on.                               *)
LEMMA InvHolds == Spec => []IInv
<1> QED
  BY InitInv, StepInv, PTL DEF Spec

(* TypeOK: rows, buffers and requests have their types.                    *)
THEOREM TypeCorrect == Spec => []TypeOK
<1>1. IInv => TypeOK
  BY DEF IInv
<1> QED
  BY <1>1, InvHolds, PTL

(* BufferIsSound: while a wamid is unknown its buffered row holds the      *)
(* highest status acknowledged to Meta, and a receipt stays buffered after *)
(* that only if it was raced.                                              *)
THEOREM BufferAlwaysSound == Spec => []BufferIsSound
<1>1. IInv => BufferIsSound
  BY DEF IInv
<1> QED
  BY <1>1, InvHolds, PTL

(* TruthIsShown: when all receipts are acknowledged, the message shows what*)
(* Meta last reported, unless a receipt was raced or predates.             *)
THEOREM TruthIsAlwaysShown == Spec => []TruthIsShown
<1>1. ASSUME IInv PROVE TruthIsShown
  <2> SUFFICES ASSUME NEW w \in Wamids, CaughtUp(w), excuse[w] = {}
               PROVE  message.status = ShownStatus(w)
    BY DEF TruthIsShown
  <2>1. /\ message.wamid = w /\ handled[w] = reported[w]
        /\ meta[w] # "unsent" /\ reported[w] \subseteq Receipts
        /\ message.status = "sent" \/ \E receipt \in reported[w] :
                                         receipt.status = message.status
    BY <1>1 DEF IInv, CaughtUp, ShownIsKnown, TypeOK
  <2>2. CASE meta[w] = "accepted"
    BY <1>1, <2>1, <2>2 DEF IInv, ReportsRise, ReportsRiseFor, ShownStatus
  <2>3. CASE meta[w] # "accepted"
    <3>1. meta[w] \in ProviderStatus /\ message.status \in RankedStatus
      BY <1>1, <2>1, <2>3 DEF IInv, TypeOK
    <3>2. StatusRank[message.status] <= StatusRank[meta[w]]
      BY <1>1, <2>1, <3>1
      DEF IInv, ReportsRise, ReportsRiseFor, StatusRank, ProviderStatus
    <3>3. StatusRank[meta[w]] <= StatusRank[message.status]
      BY <1>1, <2>1, <3>1 DEF IInv, ReportsRise, ReportsRiseFor, ShownIsHighest
    <3> QED
      BY <2>3, <3>1, <3>2, <3>3 DEF ShownStatus, StatusRank, RankedStatus, ProviderStatus
  <2> QED
    BY <2>2, <2>3
<1> QED
  BY <1>1, InvHolds, PTL

-----------------------------------------------------------------------------
(* A step of the receipts is a step of the timeline or leaves it alone.    *)
LEMMA StepIsTimelineStep ==
  IInv /\ [Next]_vars => [Timeline!Next]_(Timeline!vars)
<1> SUFFICES ASSUME IInv, [Next]_vars
             PROVE  Timeline!Next \/ UNCHANGED <<reported, stored, message>>
  BY DEF Timeline!vars
<1>1. TypeOK
  BY DEF IInv
<1>2. CASE Tick \/ UNCHANGED vars
  BY <1>2 DEF Tick, vars
<1>3. ASSUME NEW w \in Wamids, MetaAccepts(w)
      PROVE  UNCHANGED <<reported, stored, message>>
  BY <1>3 DEF MetaAccepts
<1>4. ASSUME NEW w \in Wamids, NEW status \in Reported, MetaReports(w, status)
      PROVE  Timeline!Next
  <2> DEFINE new == [status |-> status, at |-> Second(now)]
  <2>1. /\ reported' = [reported EXCEPT ![w] = @ \cup {new}]
        /\ UNCHANGED <<stored, message>>
    BY <1>4 DEF MetaReports, Second
  <2>2. new \in [status: ProviderStatus, at: Times]
    <3>1. status \in ProviderStatus
      BY ReceiptConstants
    <3>2. Second(now) \in Times
      BY <1>1, SecondBounds, ReceiptConstants DEF IInv, TypeOK, ClockIsSound, Times
    <3> QED
      BY <3>1, <3>2
  <2> HIDE DEF new
  <2>3. Timeline!Report
    BY <1>1, <2>1, <2>2
    DEF Timeline!Report, Timeline!ProviderStatus, ProviderStatus, TypeOK, Receipts
  <2> QED
    BY <2>3 DEF Timeline!Next
<1>5. ASSUME NEW h \in Hooks, NEW w \in Wamids, NEW receipt \in reported[w],
             ApplyDeliveryReceipt(h, w, receipt)
      PROVE  Timeline!Next \/ UNCHANGED <<reported, stored, message>>
  <2>1. /\ message.wamid = w
        /\ message' = IF Stale(receipt) THEN message ELSE Patched(message, receipt)
        /\ UNCHANGED <<reported, stored>>
    BY <1>5 DEF ApplyDeliveryReceipt, Matches
  <2>2. CASE ~Stale(receipt)
    <3>1. receipt \in Receipts /\ message.status \in RankedStatus
          /\ message.at \in Times \cup {Never}
      BY <1>1 DEF TypeOK
    <3>2. /\ StatusRank[receipt.status] >= StatusRank[message.status]
          /\ receipt.at >= message.at
      BY <2>2, <3>1, ShouldApplyRaises DEF Stale
    <3>3. message.wamid # NoWamid
      BY <2>1, ReceiptConstants
    <3>4. Timeline!Show
      BY <2>1, <2>2, <3>2, <3>3
      DEF Timeline!Show, Timeline!StatusRank, StatusRank, Patched
    <3> QED
      BY <3>4 DEF Timeline!Next
  <2> QED
    BY <2>1, <2>2
<1>6. ASSUME NEW h \in Hooks,
             \/ InsertUnmatched(h) \/ UpdateUnmatched(h) \/ HookAborts(h)
             \/ \E w \in Wamids : \E receipt \in reported[w] :
                  ReceiptNotFound(h, w, receipt)
      PROVE  UNCHANGED <<reported, stored, message>>
  BY <1>6 DEF InsertUnmatched, UpdateUnmatched, HookAborts, ReceiptNotFound
<1>7. ASSUME NEW w \in Wamids, MarkSentAndReconcile(w)
      PROVE  Timeline!Next
  <2> DEFINE early == buffer[w]
             first == IF early = NoReceipt THEN [status |-> "sent", at |-> now]
                      ELSE early
  <2>1. /\ ~stored[w]
        /\ stored' = [stored EXCEPT ![w] = TRUE]
        /\ message' = Reconciled(w, early)
        /\ UNCHANGED reported
    BY <1>7 DEF MarkSentAndReconcile
  <2>2. /\ early \in Receipts \cup {NoReceipt}
        /\ early # NoReceipt => early \in reported[w]
        /\ now \in Times
    BY <1>1 DEF IInv, TypeOK, OnlyReported
  <2>3. message' = [status |-> first.status, wamid |-> w, at |-> first.at]
    BY <2>1, <2>2, ReconciledShowsEarly
  <2>4. first \in reported[w] \cup [status: {"sent"}, at: Times]
    BY <2>2
  <2> HIDE DEF first
  <2>5. Timeline!Store(w)
    BY <2>1, <2>3, <2>4 DEF Timeline!Store
  <2> QED
    BY <2>5 DEF Timeline!Next
<1> QED
  BY <1>2, <1>3, <1>4, <1>5, <1>6, <1>7 DEF Next, Webhook

(* ImplementsTimeline: webhooks, buffer and worker together show only what *)
(* the timeline allows (applyDeliveryReceipt, markSentAndReconcile).       *)
THEOREM TimelineIsImplemented == Spec => ImplementsTimeline
<1>1. Init => Timeline!Init
  BY DEF Init, Timeline!Init, Timeline!Never, Never
<1> QED
  BY <1>1, StepIsTimelineStep, InvHolds, PTL DEF Spec, ImplementsTimeline, Timeline!Spec

=============================================================================
