--------------------------- MODULE Storage_proofs ---------------------------
(***************************************************************************)
(* Proofs about Storage, for any number of objects, of any sizes, any of   *)
(* which are logos, any limits and any workers.                            *)
(***************************************************************************)
EXTENDS Storage, FiniteSetTheorems, TLAPS

-----------------------------------------------------------------------------
ObjectRows == [state: States, old: BOOLEAN, due: BOOLEAN, purgedAt: BOOLEAN,
               retry: BOOLEAN, replaced: BOOLEAN]
Usages == [limit: Limits, ready: Nat, reserved: Nat]
Deleters == [pc: {"idle", "listed", "deleting", "marking", "expiring", "failing"},
             i: Objects \cup {None}, key: Keys \cup {None}]
Reconcilers == [pc: {"idle", "retained", "reserved"}, ready: Nat, reserved: Nat, raced: BOOLEAN]
Histories == [skewed: BOOLEAN, everSkewed: BOOLEAN, overtaken: SUBSET Objects]

(* TypeOK with its records named.                                          *)
Typed ==
  /\ object \in [Objects -> ObjectRows]
  /\ content \in [Keys -> Objects \cup {None}]
  /\ upload \in [Objects -> {"none", "presigning", "open", "verified"}]
  /\ usage \in Usages
  /\ deleter \in [Workers -> Deleters]
  /\ reconciler \in Reconcilers
  /\ history \in Histories
  /\ faults \in Nat

(* A worker has an object and its key; one that purges has an object that  *)
(* was complete, and one that expires has none that is, but for the history*)
WorkersAreReal ==
  \A w \in Workers :
    /\ deleter[w].pc = "idle" => deleter[w].i = None
    /\ deleter[w].pc # "idle" => deleter[w].i \in Objects
    /\ deleter[w].pc \in {"deleting", "marking", "expiring", "failing"} =>
         deleter[w].key \in {UploadKey(deleter[w].i), None}
    /\ deleter[w].pc \in {"deleting", "marking"} =>
         object[deleter[w].i].state \in {"ready", "deleted", "purged"}
    /\ deleter[w].pc \in {"expiring", "failing"} =>
         \/ object[deleter[w].i].state \notin {"ready", "deleted"}
         \/ object[deleter[w].i].replaced
         \/ deleter[w].i \in history.overtaken

PendingIsCurrent == \A i \in Objects : object[i].state = "pending_upload" => ~object[i].replaced

(* What is complete is stored, or a worker that has deleted it will say so *)
Stored(i) == content[UploadKey(i)] = i
Removed(i) == \E w \in Workers : deleter[w].i = i /\ deleter[w].pc \in {"marking", "failing"}
CompleteIsStored ==
  \A i \in Objects \ history.overtaken :
    /\ object[i].state = "ready" => Stored(i) /\ ~Watched(i)
    /\ object[i].state = "deleted" /\ ~object[i].replaced => Stored(i) \/ Removed(i)
    /\ object[i].state = "pending_upload" /\ upload[i] = "verified" => Stored(i) \/ Removed(i)

(* What reconcile has read is up to date unless a commit raced.            *)
SumsAreCurrent ==
  ~reconciler.raced =>
    /\ reconciler.pc \in {"retained", "reserved"} => reconciler.ready = Retained
    /\ reconciler.pc = "reserved" => reconciler.reserved = Reserved

SkewsAreRemembered == history.skewed => history.everSkewed

(* The inductive invariant.                                                *)
IInv ==
  /\ Typed /\ WorkersAreReal /\ PendingIsCurrent /\ CompleteIsStored
  /\ SumsAreCurrent /\ SkewsAreRemembered /\ CountersFollowObjects /\ WithinLimit

-----------------------------------------------------------------------------
(* The bytes of a set of objects are finitely many, and add up.            *)
LEMMA BytesAreFinite ==
  ASSUME NEW set \in SUBSET Objects
  PROVE  IsFiniteSet(UNION {Bytes(i) : i \in set}) /\ BytesOf(set) \in Nat
<1>1. IsFiniteSet(set)
  <2>1. IsFiniteSet(Objects)
    BY ConstantsAssumption, FS_Interval DEF Objects
  <2> QED BY <2>1, FS_Subset
<1>2. IsFiniteSet({Bytes(i) : i \in set})
  <2> DEFINE bytes == [i \in set |-> Bytes(i)]
  <2>1. bytes \in Surjection(set, {Bytes(i) : i \in set})
    BY DEF Surjection
  <2> QED BY <1>1, <2>1, FS_Surjection
<1>3. ASSUME NEW i \in set PROVE IsFiniteSet(Bytes(i))
  <2>1. Size[i] \in Nat
    BY ConstantsAssumption
  <2>2. IsFiniteSet({i})
    BY FS_Singleton
  <2>3. IsFiniteSet(1..Size[i])
    BY <2>1, FS_Interval
  <2> QED BY <2>2, <2>3, FS_Product DEF Bytes
<1>4. IsFiniteSet(UNION {Bytes(i) : i \in set})
  BY <1>2, <1>3, FS_UNION
<1> QED
  BY <1>4, FS_CardinalityType DEF BytesOf

(* One more object adds its size,                                          *)
LEMMA BytesOfOneMore ==
  ASSUME NEW set \in SUBSET Objects, NEW i \in Objects \ set
  PROVE  BytesOf(set \cup {i}) = BytesOf(set) + Size[i]
<1> DEFINE old == UNION {Bytes(j) : j \in set}
<1>1. UNION {Bytes(j) : j \in set \cup {i}} = old \cup Bytes(i)
  OBVIOUS
<1>2. old \cap Bytes(i) = {}
  BY DEF Bytes
<1>3. Size[i] \in Nat
  BY ConstantsAssumption
<1>4. IsFiniteSet(Bytes(i)) /\ Cardinality(Bytes(i)) = Size[i]
  <2>1. IsFiniteSet({i}) /\ Cardinality({i}) = 1
    BY FS_Singleton
  <2>2. IsFiniteSet(1..Size[i]) /\ Cardinality(1..Size[i]) = Size[i]
    <3> DEFINE n == Size[i]
    <3>1. n \in Nat
      BY <1>3
    <3> HIDE DEF n
    <3>2. IsFiniteSet(1..n) /\ Cardinality(1..n) = IF 1 > n THEN 0 ELSE n - 1 + 1
      BY <3>1, FS_Interval
    <3>3. IsFiniteSet(1..n) /\ Cardinality(1..n) = n
      BY <3>1, <3>2
    <3> QED BY <3>3 DEF n
  <2>3. /\ IsFiniteSet({i} \X (1..Size[i]))
        /\ Cardinality({i} \X (1..Size[i])) = Cardinality({i}) * Cardinality(1..Size[i])
    BY <2>1, <2>2, FS_Product
  <2> QED BY <1>3, <2>1, <2>2, <2>3 DEF Bytes
<1>5. IsFiniteSet(old)
  BY BytesAreFinite
<1>6. Cardinality(old \cup Bytes(i)) = Cardinality(old) + Cardinality(Bytes(i)) - Cardinality({})
  <2> HIDE DEF old
  <2> QED BY <1>2, <1>4, <1>5, FS_Union
<1>7. Cardinality(old) \in Nat /\ Cardinality({}) = 0
  BY <1>5, FS_CardinalityType, FS_EmptySet
<1> QED
  <2> HIDE DEF old
  <2>1. BytesOf(set \cup {i}) = Cardinality(old \cup Bytes(i)) /\ BytesOf(set) = Cardinality(old)
    BY <1>1 DEF BytesOf, old
  <2> QED BY <1>3, <1>4, <1>6, <1>7, <2>1

(* and one less takes it away.                                             *)
LEMMA BytesOfOneLess ==
  ASSUME NEW set \in SUBSET Objects, NEW i \in set
  PROVE  /\ BytesOf(set \ {i}) = BytesOf(set) - Size[i]
         /\ Size[i] <= BytesOf(set)
<1>1. BytesOf((set \ {i}) \cup {i}) = BytesOf(set \ {i}) + Size[i]
  BY BytesOfOneMore
<1>2. (set \ {i}) \cup {i} = set
  OBVIOUS
<1>3. BytesOf(set \ {i}) \in Nat /\ BytesOf(set) \in Nat /\ Size[i] \in Nat
  BY BytesAreFinite, ConstantsAssumption
<1>4. BytesOf(set) = BytesOf(set \ {i}) + Size[i]
  <2> DEFINE rest == set \ {i}
  <2>1. BytesOf(rest \cup {i}) = BytesOf(rest) + Size[i] /\ rest \cup {i} = set
    BY <1>1, <1>2
  <2> HIDE DEF rest
  <2>2. BytesOf(set) = BytesOf(rest) + Size[i]
    BY <2>1
  <2> QED BY <2>2 DEF rest
<1> QED
  BY <1>3, <1>4

-----------------------------------------------------------------------------
(* What a step does to the two sums.                                       *)
LEMMA SumsMove ==
  ASSUME NEW states, NEW i \in Objects
  PROVE  /\ In(states)' = In(states) => BytesOf(In(states)') = BytesOf(In(states))
         /\ i \notin In(states) /\ In(states)' = In(states) \cup {i} =>
              BytesOf(In(states)') = BytesOf(In(states)) + Size[i]
         /\ i \in In(states) /\ In(states)' = In(states) \ {i} =>
              /\ BytesOf(In(states)') = BytesOf(In(states)) - Size[i]
              /\ Size[i] <= BytesOf(In(states))
<1> DEFINE set == In(states)
           next == In(states)'
<1>1. set \in SUBSET Objects
  BY DEF In
<1>2. ASSUME i \notin set, next = set \cup {i} PROVE BytesOf(next) = BytesOf(set) + Size[i]
  <2> HIDE DEF set, next
  <2> QED BY <1>1, <1>2, BytesOfOneMore
<1>3. ASSUME i \in set, next = set \ {i}
      PROVE  BytesOf(next) = BytesOf(set) - Size[i] /\ Size[i] <= BytesOf(set)
  <2> HIDE DEF set, next
  <2> QED BY <1>1, <1>3, BytesOfOneLess
<1> QED
  BY <1>2, <1>3

(* The sums are numbers.                                                   *)
LEMMA SumsAreNumbers == Retained \in Nat /\ Reserved \in Nat
<1>1. \A states : In(states) \in SUBSET Objects
  BY DEF In
<1> QED
  BY <1>1, BytesAreFinite DEF Retained, Reserved

(* The ways a step changes the history and the reconciler.                 *)
LEMMA RacesMove ==
  ASSUME Typed, Races
  PROVE  /\ reconciler' \in Reconcilers
         /\ reconciler'.pc = reconciler.pc
         /\ reconciler'.ready = reconciler.ready /\ reconciler'.reserved = reconciler.reserved
         /\ reconciler'.raced = (reconciler.raced \/ reconciler.pc # "idle")
<1> DEFINE raced == reconciler.raced \/ reconciler.pc # "idle"
<1>1. reconciler \in Reconcilers /\ raced \in BOOLEAN
  BY DEF Typed
<1>2. reconciler' = [reconciler EXCEPT !.raced = raced]
  BY DEF Races
<1> HIDE DEF raced
<1> QED
  BY <1>1, <1>2 DEF Reconcilers, raced

(* How a skew is recorded,                                                 *)
LEMMA SkewsMove ==
  ASSUME Typed, NEW differently \in BOOLEAN, Skews(differently)
  PROVE  /\ history' \in Histories /\ history'.overtaken = history.overtaken
         /\ history'.skewed = (history.skewed \/ differently)
         /\ history'.everSkewed = (history.everSkewed \/ differently)
<1> DEFINE skewed == history.skewed \/ differently
           ever == history.everSkewed \/ differently
<1>1. history \in Histories /\ skewed \in BOOLEAN /\ ever \in BOOLEAN
  BY DEF Typed
<1>2. history' = [history EXCEPT !.skewed = skewed, !.everSkewed = ever]
  BY <1>1 DEF Skews, Histories
<1> HIDE DEF skewed, ever
<1> QED
  BY <1>1, <1>2 DEF Histories, skewed, ever

(* and an overtaken row.                                                   *)
LEMMA OvertakesMove ==
  ASSUME Typed, NEW rows, Overtakes(rows)
  PROVE  /\ history' \in Histories
         /\ history'.skewed = history.skewed /\ history'.everSkewed = history.everSkewed
         /\ history'.overtaken =
              history.overtaken \cup (rows \cap In({"pending_upload", "ready", "deleted"}))
  BY DEF Typed, Overtakes, Histories, In

(* What an update of the counters makes of them.                           *)
LEMMA CountersMove ==
  ASSUME Typed, NEW n \in Nat
  PROVE  /\ [usage EXCEPT !.reserved = @ + n] \in Usages
         /\ Confirmed(n) \in Usages /\ Confirmed(n).limit = usage.limit
         /\ ReservationReleased(n) \in Usages /\ ReservationReleased(n).limit = usage.limit
         /\ ReadyReleased(n) \in Usages /\ ReadyReleased(n).limit = usage.limit
         /\ ReservationReleased(n).ready = usage.ready
         /\ ReadyReleased(n).reserved = usage.reserved
         /\ usage.reserved >= n => /\ Confirmed(n).ready = usage.ready + n
                                   /\ Confirmed(n).reserved = usage.reserved - n
                                   /\ ReservationReleased(n).reserved = usage.reserved - n
         /\ usage.ready >= n => ReadyReleased(n).ready = usage.ready - n
<1>1. usage \in Usages /\ usage.ready \in Nat /\ usage.reserved \in Nat
  BY DEF Typed, Usages
<1>2. usage.reserved >= n => usage.reserved - n \in Nat
  BY <1>1
<1>3. usage.ready >= n => usage.ready - n \in Nat
  BY <1>1
<1>4. usage.ready + n \in Nat /\ usage.reserved + n \in Nat
  BY <1>1
<1>6. \A b \in Nat : /\ [usage EXCEPT !.reserved = b] \in Usages
                     /\ [usage EXCEPT !.reserved = b].limit = usage.limit
                     /\ [usage EXCEPT !.reserved = b].ready = usage.ready
                     /\ [usage EXCEPT !.reserved = b].reserved = b
  BY <1>1 DEF Usages
<1>7. \A a \in Nat : /\ [usage EXCEPT !.ready = a] \in Usages
                     /\ [usage EXCEPT !.ready = a].limit = usage.limit
                     /\ [usage EXCEPT !.ready = a].reserved = usage.reserved
                     /\ [usage EXCEPT !.ready = a].ready = a
  BY <1>1 DEF Usages
<1>8. [usage EXCEPT !.reserved = @ + n] \in Usages
  BY <1>4, <1>6
<1>9. /\ Confirmed(n) \in Usages /\ Confirmed(n).limit = usage.limit
      /\ usage.reserved >= n => /\ Confirmed(n).ready = usage.ready + n
                                /\ Confirmed(n).reserved = usage.reserved - n
  <2>1. CASE usage.reserved >= n
    <3> DEFINE a == usage.ready + n
               b == usage.reserved - n
    <3>1. Confirmed(n) = [usage EXCEPT !.ready = a, !.reserved = b]
      BY <1>1, <2>1 DEF Confirmed, Usages
    <3>2. a \in Nat /\ b \in Nat
      BY <1>2, <1>4, <2>1
    <3> HIDE DEF a, b
    <3>3. /\ Confirmed(n) \in Usages /\ Confirmed(n).limit = usage.limit
          /\ Confirmed(n).ready = a /\ Confirmed(n).reserved = b
      BY <1>1, <3>1, <3>2 DEF Usages
    <3> QED BY <3>3 DEF a, b
  <2>2. CASE ~(usage.reserved >= n)
    BY <1>1, <2>2 DEF Confirmed
  <2> QED BY <2>1, <2>2
<1>10. /\ ReservationReleased(n) \in Usages /\ ReservationReleased(n).limit = usage.limit
       /\ ReservationReleased(n).ready = usage.ready
       /\ usage.reserved >= n => ReservationReleased(n).reserved = usage.reserved - n
  BY <1>1, <1>2, <1>6 DEF ReservationReleased
<1>11. /\ ReadyReleased(n) \in Usages /\ ReadyReleased(n).limit = usage.limit
       /\ ReadyReleased(n).reserved = usage.reserved
       /\ usage.ready >= n => ReadyReleased(n).ready = usage.ready - n
  BY <1>1, <1>3, <1>7 DEF ReadyReleased
<1> QED
  BY <1>8, <1>9, <1>10, <1>11

(* An update of one row.                                                   *)
LEMMA RowIsSet ==
  ASSUME Typed, NEW i \in Objects, NEW row \in ObjectRows, object' = [object EXCEPT ![i] = row]
  PROVE  /\ object' \in [Objects -> ObjectRows] /\ object'[i] = row
         /\ \A j \in Objects \ {i} : object'[j] = object[j]
  BY DEF Typed

(* What suffices for the rows about the counters.                          *)
UsageInv == SumsAreCurrent /\ SkewsAreRemembered /\ CountersFollowObjects /\ WithinLimit

(* A step that moves neither sums nor counters keeps what is claimed of    *)
(* them.                                                                   *)
LEMMA QuietStepKeepsUsage ==
  ASSUME IInv, Retained' = Retained, Reserved' = Reserved, UNCHANGED usage,
         history'.skewed = history.skewed, history'.everSkewed = history.everSkewed,
         UNCHANGED reconciler \/ Races
  PROVE  UsageInv'
<1>1. /\ reconciler'.pc = reconciler.pc
      /\ reconciler'.ready = reconciler.ready /\ reconciler'.reserved = reconciler.reserved
      /\ ~reconciler'.raced => ~reconciler.raced
  BY RacesMove DEF IInv
<1>2. SumsAreCurrent'
  BY <1>1 DEF IInv, SumsAreCurrent
<1>3. SkewsAreRemembered' /\ CountersFollowObjects' /\ WithinLimit'
  BY DEF IInv, SkewsAreRemembered, CountersFollowObjects, WithinLimit
<1> QED
  BY <1>2, <1>3 DEF UsageInv

(* A commit that moves both, or records a skew, keeps it too.              *)
LEMMA CommitKeepsUsage ==
  ASSUME IInv, Races, NEW d \in BOOLEAN,
         history'.skewed = (history.skewed \/ d), history'.everSkewed = (history.everSkewed \/ d),
         ~history'.skewed => usage'.ready = Retained' /\ usage'.reserved = Reserved',
         ~history'.everSkewed => Retained' + Reserved' <= usage'.limit
  PROVE  UsageInv'
<1>1. ~reconciler'.raced => reconciler'.pc = "idle"
  BY RacesMove DEF IInv
<1>2. SumsAreCurrent'
  BY <1>1 DEF SumsAreCurrent
<1>3. SkewsAreRemembered'
  BY DEF IInv, SkewsAreRemembered
<1>4. CountersFollowObjects' /\ WithinLimit'
  BY DEF CountersFollowObjects, WithinLimit
<1> QED
  BY <1>2, <1>3, <1>4 DEF UsageInv

-----------------------------------------------------------------------------
(* What a change of rows must keep for the workers that have them.         *)
Purged == {i \in Objects : object[i].state \in {"ready", "deleted", "purged"}}
Expirable == {i \in Objects : \/ object[i].state \notin {"ready", "deleted"}
                              \/ object[i].replaced
                              \/ i \in history.overtaken}

(* Deletions that go on stay what they were.                               *)
LEMMA WorkersStayReal ==
  ASSUME IInv, Purged \subseteq Purged',
         \A i \in Expirable : Watched(i) => i \in Expirable',
         \A w \in Workers :
           \/ deleter'[w] \in {deleter[w], IdleDeleter}
           \/ /\ deleter'[w].i = deleter[w].i /\ deleter'[w].key = deleter[w].key
              /\ <<deleter[w].pc, deleter'[w].pc>> \in
                   {<<"deleting", "marking">>, <<"expiring", "failing">>}
  PROVE  WorkersAreReal'
<1> SUFFICES ASSUME NEW w \in Workers
             PROVE  WorkersAreReal!(w)'
  BY DEF WorkersAreReal
<1>1. CASE deleter'[w] = IdleDeleter
  BY <1>1 DEF IdleDeleter
<1>2. CASE deleter'[w] # IdleDeleter
  <2>1. /\ deleter'[w].i = deleter[w].i /\ deleter'[w].key = deleter[w].key
        /\ deleter'[w].pc = "idle" => deleter[w].pc = "idle"
        /\ deleter[w].pc = "idle" => deleter'[w].pc = "idle"
        /\ deleter'[w].pc \in {"deleting", "marking"} =>
             deleter[w].pc \in {"deleting", "marking"}
        /\ deleter'[w].pc \in {"expiring", "failing"} =>
             deleter[w].pc \in {"expiring", "failing"}
    BY <1>2
  <2>2. CASE deleter[w].pc = "idle"
    BY <2>1, <2>2 DEF IInv, WorkersAreReal
  <2>3. CASE deleter[w].pc # "idle"
    <3>1. deleter[w].i \in Objects
      BY <2>3 DEF IInv, WorkersAreReal
    <3>2. ASSUME deleter'[w].pc \in {"deleting", "marking"} PROVE deleter[w].i \in Purged'
      BY <2>1, <3>1, <3>2 DEF IInv, WorkersAreReal, Purged
    <3>3. ASSUME deleter'[w].pc \in {"expiring", "failing"}
          PROVE deleter[w].i \in Expirable'
      BY <2>1, <3>1, <3>3 DEF IInv, WorkersAreReal, Expirable, Watched
    <3>4. deleter'[w].pc \in {"deleting", "marking", "expiring", "failing"} =>
            deleter'[w].key \in {UploadKey(deleter'[w].i), None}
      BY <2>1 DEF IInv, WorkersAreReal
    <3> QED BY <2>1, <2>3, <3>1, <3>2, <3>3, <3>4 DEF Purged, Expirable
  <2> QED BY <2>2, <2>3
<1> QED
  BY <1>1, <1>2

(* How the sums follow the rows.                                           *)
LEMMA SumsStay ==
  ASSUME \A j \in Objects :
           /\ object'[j].state \in {"ready", "deleted"} <=> object[j].state \in {"ready", "deleted"}
           /\ object'[j].state = "pending_upload" <=> object[j].state = "pending_upload"
  PROVE  Retained' = Retained /\ Reserved' = Reserved
<1>1. /\ In({"ready", "deleted"})' = In({"ready", "deleted"})
      /\ In({"pending_upload"})' = In({"pending_upload"})
  BY DEF In
<1> QED
  BY <1>1 DEF Retained, Reserved, BytesOf

(* How the sums follow the change of state of one row.                     *)
LEMMA OneRowMoves ==
  ASSUME Typed, NEW i \in Objects, NEW row \in ObjectRows, object' = [object EXCEPT ![i] = row]
  PROVE  /\ object[i].state = "pending_upload" /\ row.state = "ready" =>
              /\ Retained' = Retained + Size[i] /\ Reserved' = Reserved - Size[i]
              /\ Size[i] <= Reserved
         /\ object[i].state = "pending_upload" /\ row.state = "failed" =>
              /\ Retained' = Retained /\ Reserved' = Reserved - Size[i]
              /\ Size[i] <= Reserved
         /\ object[i].state = "deleted" /\ row.state = "purged" =>
              /\ Retained' = Retained - Size[i] /\ Reserved' = Reserved
              /\ Size[i] <= Retained
<1> DEFINE retained == {"ready", "deleted"}
           reserved == {"pending_upload"}
<1>1. /\ object'[i] = row
      /\ \A j \in Objects \ {i} : object'[j] = object[j]
  BY RowIsSet
<1>2. \A states : In(states) = {j \in Objects : object[j].state \in states}
  BY DEF In
<1>3. /\ In(retained)' = {j \in Objects : object'[j].state \in retained}
      /\ In(reserved)' = {j \in Objects : object'[j].state \in reserved}
  BY DEF In
<1>4. /\ Retained = BytesOf(In(retained)) /\ Reserved = BytesOf(In(reserved))
      /\ Retained' = BytesOf(In(retained)') /\ Reserved' = BytesOf(In(reserved)')
  BY DEF Retained, Reserved, BytesOf
<1>5. CASE object[i].state = "pending_upload" /\ row.state = "ready"
  <2>1. /\ i \notin In(retained) /\ In(retained)' = In(retained) \cup {i}
        /\ i \in In(reserved) /\ In(reserved)' = In(reserved) \ {i}
    BY <1>1, <1>2, <1>3, <1>5
  <2> QED BY <1>4, <1>5, <2>1, SumsMove
<1>6. CASE object[i].state = "pending_upload" /\ row.state = "failed"
  <2>1. /\ In(retained)' = In(retained)
        /\ i \in In(reserved) /\ In(reserved)' = In(reserved) \ {i}
    BY <1>1, <1>2, <1>3, <1>6
  <2> QED BY <1>4, <1>6, <2>1, SumsMove
<1>7. CASE object[i].state = "deleted" /\ row.state = "purged"
  <2>1. /\ In(reserved)' = In(reserved)
        /\ i \in In(retained) /\ In(retained)' = In(retained) \ {i}
    BY <1>1, <1>2, <1>3, <1>7
  <2> QED BY <1>4, <1>7, <2>1, SumsMove
<1> QED
  BY <1>5, <1>6, <1>7

(* Every step keeps Typed.                                                 *)
LEMMA TypedStep ==
  ASSUME IInv, [Next]_vars
  PROVE  Typed'
<1>1. ASSUME NEW i \in Objects, InitiateUpload(i) PROVE Typed'
  <2>1. object' \in [Objects -> ObjectRows]
    <3>1. \A j \in Objects :
            /\ object[j] \in ObjectRows
            /\ [object[j] EXCEPT !.state = "deleted", !.due = FALSE, !.replaced = TRUE]
                 \in ObjectRows
      <4>1. ASSUME NEW row \in ObjectRows
            PROVE  [row EXCEPT !.state = "deleted", !.due = FALSE, !.replaced = TRUE]
                     \in ObjectRows
        BY DEF ObjectRows, States
      <4> QED BY <4>1 DEF IInv, Typed
    <3>2. [NoObject EXCEPT !.state = "pending_upload"] \in ObjectRows
      BY DEF NoObject, ObjectRows, States
    <3>3. object' = [j \in Objects |->
                 IF j = i THEN [NoObject EXCEPT !.state = "pending_upload"]
                 ELSE IF j \in Retired(i)
                   THEN [object[j] EXCEPT !.state = "deleted", !.due = FALSE,
                                          !.replaced = TRUE]
                 ELSE object[j]]
      BY <1>1 DEF InitiateUpload
    <3> QED BY <3>1, <3>2, <3>3
  <2>2. usage' \in Usages
    BY <1>1, CountersMove, ConstantsAssumption DEF InitiateUpload, IInv
  <2>3. history' \in Histories /\ reconciler' \in Reconcilers
    <3>1. (\E j \in Retired(i) : object[j].state \notin {"ready", "deleted"}) \in BOOLEAN
      OBVIOUS
    <3> QED BY <1>1, <3>1, SkewsMove, RacesMove DEF InitiateUpload, IInv
  <2>4. upload' \in [Objects -> {"none", "presigning", "open", "verified"}]
    BY <1>1 DEF InitiateUpload, IInv, Typed
  <2>5. UNCHANGED <<content, deleter, faults>>
    BY <1>1 DEF InitiateUpload
  <2> QED BY <2>1, <2>2, <2>3, <2>4, <2>5 DEF IInv, Typed
<1>2. ASSUME NEW i \in Objects, Presign(i) PROVE Typed'
  <2>1. upload' \in [Objects -> {"none", "presigning", "open", "verified"}] /\ faults' \in Nat
    BY <1>2 DEF Presign, Fault, IInv, Typed
  <2>2. UNCHANGED <<content, deleter>>
    BY <1>2 DEF Presign
  <2>3. CASE UNCHANGED <<object, usage, reconciler, history, faults>>
    BY <2>1, <2>2, <2>3 DEF IInv, Typed
  <2>4. CASE /\ Skews(object[i].state # "pending_upload")
             /\ object' = [object EXCEPT ![i].state = IF @ = "pending_upload" THEN "failed"
                                                      ELSE @]
             /\ usage' = ReservationReleased(Size[i]) /\ Races
    <3>1. object' \in [Objects -> ObjectRows]
      BY <2>4 DEF IInv, Typed, ObjectRows, States
    <3>2. usage' \in Usages
      BY <2>4, CountersMove, ConstantsAssumption DEF IInv
    <3>3. history' \in Histories /\ reconciler' \in Reconcilers
      BY <2>4, SkewsMove, RacesMove DEF IInv
    <3> QED BY <2>1, <2>2, <3>1, <3>2, <3>3 DEF IInv, Typed
  <2> QED BY <1>2, <2>3, <2>4 DEF Presign
<1>3. ASSUME NEW i \in Objects, PutObject(i) PROVE Typed'
  <2>1. content' \in [Keys -> Objects \cup {None}]
    BY <1>3 DEF PutObject, IInv, Typed
  <2>2. history' \in Histories
    BY <1>3, OvertakesMove DEF PutObject, IInv
  <2>3. UNCHANGED <<object, upload, usage, deleter, reconciler, faults>>
    BY <1>3 DEF PutObject
  <2> QED BY <2>1, <2>2, <2>3 DEF IInv, Typed
<1>4. ASSUME NEW i \in Objects, VerifyUpload(i) PROVE Typed'
  <2>1. upload' \in [Objects -> {"none", "presigning", "open", "verified"}]
    BY <1>4 DEF VerifyUpload, IInv, Typed
  <2>2. history' \in Histories
    BY <1>4, OvertakesMove DEF VerifyUpload, IInv
  <2>3. UNCHANGED <<object, content, usage, deleter, reconciler, faults>>
    BY <1>4 DEF VerifyUpload
  <2> QED BY <2>1, <2>2, <2>3 DEF IInv, Typed
<1>5. ASSUME NEW i \in Objects, CompleteUpload(i) PROVE Typed'
  <2>1. upload' \in [Objects -> {"none", "presigning", "open", "verified"}]
    BY <1>5 DEF CompleteUpload, IInv, Typed
  <2>2. UNCHANGED <<content, deleter, faults>>
    BY <1>5 DEF CompleteUpload
  <2>3. CASE object[i].state # "pending_upload"
    BY <1>5, <2>1, <2>2, <2>3 DEF CompleteUpload, IInv, Typed
  <2>4. CASE object[i].state = "pending_upload"
    <3>1. object' \in [Objects -> ObjectRows]
      BY <1>5, <2>4 DEF CompleteUpload, IInv, Typed, ObjectRows, States
    <3>2. usage' \in Usages
      BY <1>5, <2>4, CountersMove, ConstantsAssumption DEF CompleteUpload, IInv
    <3>3. history' \in Histories /\ reconciler' \in Reconcilers
      BY <1>5, <2>4, OvertakesMove, RacesMove DEF CompleteUpload, IInv
    <3> QED BY <2>1, <2>2, <3>1, <3>2, <3>3 DEF IInv, Typed
  <2> QED BY <2>3, <2>4
<1>6. ASSUME NEW i \in Objects, SoftDelete(i) PROVE Typed'
  <2>1. object' \in [Objects -> ObjectRows]
    <3> DEFINE row == [object[i] EXCEPT !.state = "deleted", !.due = FALSE]
    <3>1. row \in ObjectRows
      BY DEF IInv, Typed, ObjectRows, States
    <3>2. object' = [object EXCEPT ![i] = row]
      BY <1>6 DEF SoftDelete
    <3> HIDE DEF row
    <3> QED BY <3>1, <3>2 DEF IInv, Typed
  <2>2. UNCHANGED <<content, upload, usage, deleter, reconciler, history, faults>>
    BY <1>6 DEF SoftDelete
  <2> QED BY <2>1, <2>2 DEF IInv, Typed
<1>7. ASSUME NEW i \in Objects, Restore(i) PROVE Typed'
  <2>1. object' \in [Objects -> ObjectRows]
    <3> DEFINE row == [object[i] EXCEPT !.state = "ready", !.due = FALSE]
    <3>1. object[i] \in ObjectRows /\ object \in [Objects -> ObjectRows]
      BY DEF IInv, Typed
    <3>2. row \in ObjectRows
      BY <3>1 DEF ObjectRows, States
    <3>3. object' = [object EXCEPT ![i] = row]
      BY <1>7 DEF Restore
    <3> HIDE DEF row
    <3> QED BY <3>1, <3>2, <3>3
  <2>2. history' \in Histories /\ reconciler' \in Reconcilers
    BY <1>7, RacesMove DEF Restore, IInv, Typed, Histories
  <2>3. UNCHANGED <<content, upload, usage, deleter, faults>>
    BY <1>7 DEF Restore
  <2> QED BY <2>1, <2>2, <2>3 DEF IInv, Typed
<1>8. ASSUME NEW i \in Objects, TimePasses(i) PROVE Typed'
  <2>1. object' \in [Objects -> ObjectRows]
    <3> DEFINE older == [object[i] EXCEPT !.old = TRUE]
               due == [older EXCEPT !.due = TRUE]
    <3>1. object[i] \in ObjectRows
      BY DEF IInv, Typed
    <3>2. older \in ObjectRows /\ due \in ObjectRows
      BY <3>1 DEF ObjectRows
    <3>3. object' = [object EXCEPT ![i] = older] \/ object' = [object EXCEPT ![i] = due]
      BY <1>8 DEF TimePasses, IInv, Typed
    <3> HIDE DEF older, due
    <3> QED BY <3>2, <3>3, RowIsSet DEF IInv
  <2>2. UNCHANGED <<content, upload, usage, deleter, reconciler, history, faults>>
    BY <1>8 DEF TimePasses
  <2> QED BY <2>1, <2>2 DEF IInv, Typed
<1>9. ASSUME NEW i \in Objects, NEW w \in Workers, Purge(w, i) PROVE Typed'
  <2>1. KeyOf(i) \in Keys \cup {None}
    BY DEF KeyOf, Keys
  <2>2. deleter' \in [Workers -> Deleters]
    BY <1>9, <2>1 DEF Purge, IInv, Typed, Deleters
  <2>3. object' \in [Objects -> ObjectRows]
    <3> DEFINE due == object[i].due /\ object[i].state = "deleted"
               row == [object[i] EXCEPT !.state = "deleted", !.due = due]
    <3>1. object[i] \in ObjectRows /\ due \in BOOLEAN
      BY DEF IInv, Typed
    <3>2. row \in ObjectRows
      <4> HIDE DEF due
      <4> QED BY <3>1 DEF ObjectRows, States
    <3>3. object' = [object EXCEPT ![i] = row]
      BY <1>9, <3>1 DEF Purge, IInv, Typed, ObjectRows
    <3> HIDE DEF row
    <3> QED BY <3>2, <3>3, RowIsSet DEF IInv
  <2>4. UNCHANGED <<content, upload, usage, reconciler, history, faults>>
    BY <1>9 DEF Purge
  <2> QED BY <2>2, <2>3, <2>4 DEF IInv, Typed
<1>10. ASSUME NEW i \in Objects, NEW w \in Workers, CronLists(w, i) PROVE Typed'
  <2>1. KeyOf(i) \in Keys \cup {None}
    BY DEF KeyOf, Keys
  <2>2. deleter' \in [Workers -> Deleters]
    BY <1>10, <2>1 DEF CronLists, IInv, Typed, Deleters
  <2>3. object' \in [Objects -> ObjectRows]
    BY <1>10 DEF CronLists, IInv, Typed, ObjectRows, States
  <2>4. UNCHANGED <<content, upload, usage, reconciler, history, faults>>
    BY <1>10 DEF CronLists
  <2> QED BY <2>2, <2>3, <2>4 DEF IInv, Typed
<1>11. ASSUME NEW i \in Objects, NEW w \in Workers, CronExpires(w, i) PROVE Typed'
  <2>1. KeyOf(i) \in Keys \cup {None}
    BY DEF KeyOf, Keys
  <2>2. deleter' \in [Workers -> Deleters]
    BY <1>11, <2>1 DEF CronExpires, IInv, Typed, Deleters
  <2>3. object' \in [Objects -> ObjectRows]
    BY <1>11 DEF CronExpires, IInv, Typed, ObjectRows, States
  <2>4. UNCHANGED <<content, upload, usage, reconciler, history, faults>>
    BY <1>11 DEF CronExpires
  <2> QED BY <2>2, <2>3, <2>4 DEF IInv, Typed
<1>12. ASSUME NEW w \in Workers, DeleteObject(w) PROVE Typed'
  <2>1. deleter[w].i \in Objects
    BY <1>12 DEF DeleteObject, IInv, WorkersAreReal
  <2>2. deleter' \in [Workers -> Deleters]
    BY <1>12 DEF DeleteObject, IInv, Typed, Deleters, IdleDeleter
  <2>3. object' \in [Objects -> ObjectRows]
    <3> DEFINE row == [object[deleter[w].i] EXCEPT !.retry = TRUE]
    <3>1. object[deleter[w].i] \in ObjectRows
      BY <2>1 DEF IInv, Typed
    <3>2. row \in ObjectRows
      BY <3>1 DEF ObjectRows
    <3>3. UNCHANGED object \/ object' = [object EXCEPT ![deleter[w].i] = row]
      BY <1>12 DEF DeleteObject
    <3> HIDE DEF row
    <3> QED BY <2>1, <3>2, <3>3, RowIsSet DEF IInv, Typed
  <2>4. content' \in [Keys -> Objects \cup {None}]
    BY <1>12 DEF DeleteObject, IInv, Typed
  <2>5. history' \in Histories /\ faults' \in Nat
    BY <1>12, OvertakesMove DEF DeleteObject, Fault, IInv, Typed
  <2>6. UNCHANGED <<upload, usage, reconciler>>
    BY <1>12 DEF DeleteObject
  <2> QED BY <2>2, <2>3, <2>4, <2>5, <2>6 DEF IInv, Typed
<1>13. ASSUME NEW w \in Workers, MarkPurged(w) PROVE Typed'
  <2>1. deleter[w].i \in Objects /\ Size[deleter[w].i] \in Nat
    BY <1>13, ConstantsAssumption DEF MarkPurged, IInv, WorkersAreReal
  <2>2. deleter' \in [Workers -> Deleters]
    BY <1>13 DEF MarkPurged, IInv, Typed, Deleters, IdleDeleter
  <2>3. object' \in [Objects -> ObjectRows]
    BY <1>13, <2>1 DEF MarkPurged, IInv, Typed, ObjectRows, States
  <2>4. usage' \in Usages
    BY <1>13, <2>1, CountersMove DEF MarkPurged, IInv, Typed
  <2>5. history' \in Histories /\ reconciler' \in Reconcilers
    BY <1>13, RacesMove DEF MarkPurged, IInv, Typed, Histories
  <2>6. UNCHANGED <<content, upload, faults>>
    BY <1>13 DEF MarkPurged
  <2> QED BY <2>2, <2>3, <2>4, <2>5, <2>6 DEF IInv, Typed
<1>14. ASSUME NEW w \in Workers, MarkFailed(w) PROVE Typed'
  <2>1. deleter[w].i \in Objects /\ Size[deleter[w].i] \in Nat
    BY <1>14, ConstantsAssumption DEF MarkFailed, IInv, WorkersAreReal
  <2>2. deleter' \in [Workers -> Deleters]
    BY <1>14 DEF MarkFailed, IInv, Typed, Deleters, IdleDeleter
  <2>3. object' \in [Objects -> ObjectRows]
    BY <1>14, <2>1 DEF MarkFailed, IInv, Typed, ObjectRows, States
  <2>4. usage' \in Usages /\ reconciler' \in Reconcilers
    BY <1>14, <2>1, CountersMove, RacesMove DEF MarkFailed, IInv, Typed
  <2>5. UNCHANGED <<content, upload, history, faults>>
    BY <1>14 DEF MarkFailed
  <2> QED BY <2>2, <2>3, <2>4, <2>5 DEF IInv, Typed
<1>15. ASSUME NEW w \in Workers, CronReads(w) PROVE Typed'
  <2>1. deleter[w].i \in Objects
    BY <1>15 DEF CronReads, IInv, WorkersAreReal
  <2>2. KeyOf(deleter[w].i) \in Keys \cup {None}
    BY <2>1 DEF KeyOf, Keys
  <2>3. deleter' \in [Workers -> Deleters]
    BY <1>15, <2>1, <2>2 DEF CronReads, IInv, Typed, Deleters, IdleDeleter
  <2>4. UNCHANGED <<object, content, upload, usage, reconciler, history, faults>>
    BY <1>15 DEF CronReads
  <2> QED BY <2>3, <2>4 DEF IInv, Typed
<1>16. ASSUME NEW w \in Workers, WorkerDies(w) PROVE Typed'
  <2>1. deleter' \in [Workers -> Deleters]
    BY <1>16 DEF WorkerDies, IInv, Typed, Deleters, IdleDeleter
  <2>2. history' \in Histories /\ faults' \in Nat
    BY <1>16, OvertakesMove DEF WorkerDies, Fault, IInv, Typed
  <2>3. UNCHANGED <<object, content, upload, usage, reconciler>>
    BY <1>16 DEF WorkerDies
  <2> QED BY <2>1, <2>2, <2>3 DEF IInv, Typed
<1>17. CASE Reconcile
  <2>1. reconciler' \in Reconcilers
    <3>1. ASSUME NEW n \in Nat, reconciler' = [IdleReconciler EXCEPT !.pc = "retained", !.ready = n]
          PROVE  reconciler' \in Reconcilers
      BY <3>1 DEF Reconcilers, IdleReconciler
    <3>2. ASSUME NEW n \in Nat, reconciler' = [reconciler EXCEPT !.pc = "reserved", !.reserved = n]
          PROVE  reconciler' \in Reconcilers
      BY <3>2 DEF IInv, Typed, Reconcilers
    <3>3. IdleReconciler \in Reconcilers
      BY DEF Reconcilers, IdleReconciler
    <3> QED BY <1>17, <3>1, <3>2, <3>3, SumsAreNumbers DEF Reconcile
  <2>2. usage' \in Usages
    <3>1. usage \in Usages /\ reconciler.ready \in Nat /\ reconciler.reserved \in Nat
      BY DEF IInv, Typed, Reconcilers
    <3>2. \/ usage' = usage
          \/ usage' = [usage EXCEPT !.ready = reconciler.ready,
                                    !.reserved = reconciler.reserved]
      BY <1>17 DEF Reconcile
    <3> QED BY <3>1, <3>2 DEF Usages
  <2>3. history' \in Histories
    BY <1>17 DEF Reconcile, IInv, Typed, Histories, Reconcilers
  <2>4. UNCHANGED <<object, content, upload, deleter, faults>>
    BY <1>17 DEF Reconcile
  <2> QED BY <2>1, <2>2, <2>3, <2>4 DEF IInv, Typed
<1>18. CASE UNCHANGED vars
  BY <1>18 DEF vars, IInv, Typed
<1> QED
  BY <1>1, <1>2, <1>3, <1>4, <1>5, <1>6, <1>7, <1>8, <1>9, <1>10, <1>11, <1>12, <1>13,
     <1>14, <1>15, <1>16, <1>17, <1>18
     DEF Next, Delete

(* Every step keeps WorkersAreReal.                                        *)
LEMMA WorkersAreRealStep ==
  ASSUME IInv, [Next]_vars
  PROVE  WorkersAreReal'
<1>1. ASSUME NEW i \in Objects, InitiateUpload(i) PROVE WorkersAreReal'
  <2>1. /\ Purged \subseteq Purged'
        /\ \A j \in Expirable : Watched(j) => j \in Expirable'
    <3> SUFFICES ASSUME NEW j \in Objects
                 PROVE  /\ j \in Purged => j \in Purged'
                        /\ j \in Expirable /\ Watched(j) => j \in Expirable'
      BY DEF Purged, Expirable
    <3>1. \/ object'[j].state = "pending_upload" /\ object[j].state = "none"
          \/ object'[j].state = "deleted" /\ object'[j].replaced
          \/ object'[j] = object[j]
      BY <1>1 DEF InitiateUpload, IInv, Typed, ObjectRows, NoObject
    <3>2. history'.overtaken = history.overtaken
      BY <1>1, SkewsMove DEF InitiateUpload, IInv
    <3> QED BY <3>1, <3>2 DEF Purged, Expirable
  <2> QED BY <1>1, <2>1, WorkersStayReal DEF InitiateUpload
<1>2. ASSUME NEW i \in Objects, Presign(i) PROVE WorkersAreReal'
  <2>1. /\ Purged \subseteq Purged'
        /\ \A j \in Expirable : Watched(j) => j \in Expirable'
    <3> SUFFICES ASSUME NEW j \in Objects
                 PROVE  /\ j \in Purged => j \in Purged'
                        /\ j \in Expirable /\ Watched(j) => j \in Expirable'
      BY DEF Purged, Expirable
    <3>1. object'[j] = object[j] \/ (object'[j].state = "failed" /\ j \notin Purged)
      BY <1>2 DEF Presign, IInv, Typed, ObjectRows, Purged
    <3>2. history'.overtaken = history.overtaken
      BY <1>2, SkewsMove DEF Presign, IInv
    <3> QED BY <3>1, <3>2 DEF Purged, Expirable
  <2> QED BY <1>2, <2>1, WorkersStayReal DEF Presign
<1>3. ASSUME NEW i \in Objects, PutObject(i) PROVE WorkersAreReal'
  <2>1. /\ Purged \subseteq Purged'
        /\ \A j \in Expirable : Watched(j) => j \in Expirable'
    BY <1>3, OvertakesMove DEF IInv, Typed, ObjectRows, Purged, Expirable, PutObject
  <2> QED BY <1>3, <2>1, WorkersStayReal DEF PutObject
<1>4. ASSUME NEW i \in Objects, VerifyUpload(i) PROVE WorkersAreReal'
  <2>1. /\ Purged \subseteq Purged'
        /\ \A j \in Expirable : Watched(j) => j \in Expirable'
    BY <1>4, OvertakesMove DEF IInv, Typed, ObjectRows, Purged, Expirable, VerifyUpload
  <2> QED BY <1>4, <2>1, WorkersStayReal DEF VerifyUpload
<1>5. ASSUME NEW i \in Objects, CompleteUpload(i) PROVE WorkersAreReal'
  <2>1. /\ Purged \subseteq Purged'
        /\ \A j \in Expirable : Watched(j) => j \in Expirable'
    <3> SUFFICES ASSUME NEW j \in Objects
                 PROVE  /\ j \in Purged => j \in Purged'
                        /\ j \in Expirable /\ Watched(j) => j \in Expirable'
      BY DEF Purged, Expirable
    <3>1. CASE object[i].state # "pending_upload"
      BY <1>5, <3>1 DEF CompleteUpload, Purged, Expirable
    <3>2. CASE object[i].state = "pending_upload"
      <4>1. /\ object' = [object EXCEPT ![i].state = "ready"]
            /\ Overtakes({k \in {i} : Watched(k)})
        BY <1>5, <3>2 DEF CompleteUpload
      <4>2. history'.overtaken = history.overtaken \cup {k \in {i} : Watched(k)}
        BY <3>2, <4>1, OvertakesMove DEF IInv, In
      <4>3. /\ j # i => object'[j] = object[j]
            /\ object'[i].state = "ready"
        BY <4>1 DEF IInv, Typed, ObjectRows
      <4> QED BY <3>2, <4>2, <4>3 DEF Purged, Expirable
    <3> QED BY <3>1, <3>2
  <2> QED BY <1>5, <2>1, WorkersStayReal DEF CompleteUpload
<1>6. ASSUME NEW i \in Objects, SoftDelete(i) PROVE WorkersAreReal'
  BY <1>6 DEF SoftDelete, IInv, Typed, WorkersAreReal
<1>7. ASSUME NEW i \in Objects, Restore(i) PROVE WorkersAreReal'
  BY <1>7 DEF Restore, Restorable, IInv, Typed, WorkersAreReal
<1>8. ASSUME NEW i \in Objects, TimePasses(i) PROVE WorkersAreReal'
  <2>1. /\ Purged \subseteq Purged'
        /\ \A j \in Expirable : Watched(j) => j \in Expirable'
    BY <1>8 DEF IInv, Typed, ObjectRows, Purged, Expirable, TimePasses
  <2> QED BY <1>8, <2>1, WorkersStayReal DEF TimePasses
<1>9. ASSUME NEW i \in Objects, NEW w \in Workers, Purge(w, i) PROVE WorkersAreReal'
  BY <1>9 DEF Purge, IInv, Typed, WorkersAreReal, KeyOf
<1>10. ASSUME NEW i \in Objects, NEW w \in Workers, CronLists(w, i) PROVE WorkersAreReal'
  BY <1>10 DEF CronLists, IInv, WorkersAreReal
<1>11. ASSUME NEW i \in Objects, NEW w \in Workers, CronExpires(w, i) PROVE WorkersAreReal'
  BY <1>11 DEF CronExpires, Abandoned, IInv, WorkersAreReal, KeyOf
<1>12. ASSUME NEW w \in Workers, DeleteObject(w) PROVE WorkersAreReal'
  <2>1. deleter[w].i \in Objects
    BY <1>12 DEF DeleteObject, IInv, WorkersAreReal
  <2>2. /\ Purged \subseteq Purged'
        /\ \A j \in Expirable : Watched(j) => j \in Expirable'
    BY <1>12, <2>1, OvertakesMove
       DEF DeleteObject, IInv, Typed, ObjectRows, Purged, Expirable
  <2>3. \A v \in Workers :
           \/ deleter'[v] \in {deleter[v], IdleDeleter}
           \/ /\ deleter'[v].i = deleter[v].i /\ deleter'[v].key = deleter[v].key
              /\ <<deleter[v].pc, deleter'[v].pc>> \in
                   {<<"deleting", "marking">>, <<"expiring", "failing">>}
    BY <1>12 DEF DeleteObject, IInv, Typed, Deleters
  <2> QED BY <2>2, <2>3, WorkersStayReal
<1>13. ASSUME NEW w \in Workers, MarkPurged(w) PROVE WorkersAreReal'
  BY <1>13
     DEF MarkPurged, ReadyReleased, IInv, Typed, ObjectRows, Deleters, IdleDeleter,
         WorkersAreReal, PendingIsCurrent, Histories
<1>14. ASSUME NEW w \in Workers, MarkFailed(w) PROVE WorkersAreReal'
  BY <1>14
     DEF MarkFailed, ReservationReleased, IInv, Typed, ObjectRows, IdleDeleter,
         WorkersAreReal, Histories
<1>15. ASSUME NEW w \in Workers, CronReads(w) PROVE WorkersAreReal'
  BY <1>15 DEF CronReads, IInv, Typed, IdleDeleter, WorkersAreReal, KeyOf
<1>16. ASSUME NEW w \in Workers, WorkerDies(w) PROVE WorkersAreReal'
  <2>1. deleter[w].i \in Objects
    BY <1>16 DEF WorkerDies, IInv, WorkersAreReal
  <2>2. /\ Purged \subseteq Purged'
        /\ \A j \in Expirable : Watched(j) => j \in Expirable'
    BY <1>16, <2>1, OvertakesMove DEF WorkerDies, IInv, Typed, ObjectRows, Purged, Expirable
  <2>3. \A v \in Workers :
           \/ deleter'[v] \in {deleter[v], IdleDeleter}
           \/ /\ deleter'[v].i = deleter[v].i /\ deleter'[v].key = deleter[v].key
              /\ <<deleter[v].pc, deleter'[v].pc>> \in
                   {<<"deleting", "marking">>, <<"expiring", "failing">>}
    BY <1>16 DEF WorkerDies, IInv, Typed, Deleters
  <2> QED BY <2>2, <2>3, WorkersStayReal
<1>17. CASE Reconcile
  BY <1>17 DEF Reconcile, IInv, Typed, WorkersAreReal, Histories
<1>18. CASE UNCHANGED vars
  BY <1>18 DEF vars, IInv, WorkersAreReal
<1> QED
  BY <1>1, <1>2, <1>3, <1>4, <1>5, <1>6, <1>7, <1>8, <1>9, <1>10, <1>11, <1>12, <1>13,
     <1>14, <1>15, <1>16, <1>17, <1>18
     DEF Next, Delete

(* Every step keeps PendingIsCurrent.                                      *)
LEMMA PendingIsCurrentStep ==
  ASSUME IInv, [Next]_vars
  PROVE  PendingIsCurrent'
<1>1. ASSUME NEW i \in Objects, InitiateUpload(i) PROVE PendingIsCurrent'
  BY <1>1 DEF InitiateUpload, Retired, IInv, Typed, PendingIsCurrent, ObjectRows, NoObject
<1>2. ASSUME NEW i \in Objects, Presign(i) PROVE PendingIsCurrent'
  BY <1>2 DEF Presign, Fault, IInv, Typed, PendingIsCurrent, ObjectRows
<1>3. ASSUME NEW i \in Objects, PutObject(i) PROVE PendingIsCurrent'
  BY <1>3 DEF PutObject, IInv, Typed, PendingIsCurrent, ObjectRows, NoObject, WorkersAreReal
<1>4. ASSUME NEW i \in Objects, VerifyUpload(i) PROVE PendingIsCurrent'
  BY <1>4
     DEF VerifyUpload, IInv, Typed, PendingIsCurrent, ObjectRows, NoObject, WorkersAreReal
<1>5. ASSUME NEW i \in Objects, CompleteUpload(i) PROVE PendingIsCurrent'
  BY <1>5 DEF CompleteUpload, IInv, Typed, PendingIsCurrent, ObjectRows
<1>6. ASSUME NEW i \in Objects, SoftDelete(i) PROVE PendingIsCurrent'
  BY <1>6
     DEF SoftDelete, IInv, Typed, PendingIsCurrent, ObjectRows, NoObject, WorkersAreReal
<1>7. ASSUME NEW i \in Objects, Restore(i) PROVE PendingIsCurrent'
  BY <1>7 DEF Restore, IInv, Typed, PendingIsCurrent
<1>8. ASSUME NEW i \in Objects, TimePasses(i) PROVE PendingIsCurrent'
  <2>1. \A j \in Objects : /\ object'[j].state = object[j].state
                           /\ object'[j].replaced = object[j].replaced
    BY <1>8 DEF TimePasses, IInv, Typed, ObjectRows
  <2> QED BY <2>1 DEF IInv, PendingIsCurrent
<1>9. ASSUME NEW i \in Objects, NEW w \in Workers, Purge(w, i) PROVE PendingIsCurrent'
  BY <1>9 DEF Purge, IInv, Typed, PendingIsCurrent, ObjectRows, NoObject, WorkersAreReal
<1>10. ASSUME NEW i \in Objects, NEW w \in Workers, CronLists(w, i) PROVE PendingIsCurrent'
  BY <1>10
     DEF CronLists, IInv, Typed, PendingIsCurrent, ObjectRows, NoObject, WorkersAreReal
<1>11. ASSUME NEW i \in Objects, NEW w \in Workers, CronExpires(w, i)
      PROVE PendingIsCurrent'
  BY <1>11 DEF CronExpires, IInv, PendingIsCurrent
<1>12. ASSUME NEW w \in Workers, DeleteObject(w) PROVE PendingIsCurrent'
  BY <1>12 DEF DeleteObject, IInv, Typed, PendingIsCurrent, ObjectRows
<1>13. ASSUME NEW w \in Workers, MarkPurged(w) PROVE PendingIsCurrent'
  BY <1>13 DEF MarkPurged, IInv, Typed, PendingIsCurrent, ObjectRows
<1>14. ASSUME NEW w \in Workers, MarkFailed(w) PROVE PendingIsCurrent'
  BY <1>14
     DEF MarkFailed, ReservationReleased, IInv, Typed, PendingIsCurrent, ObjectRows,
         WorkersAreReal
<1>15. ASSUME NEW w \in Workers, CronReads(w) PROVE PendingIsCurrent'
  BY <1>15
     DEF CronReads, IInv, Typed, PendingIsCurrent, ObjectRows, NoObject, WorkersAreReal
<1>16. ASSUME NEW w \in Workers, WorkerDies(w) PROVE PendingIsCurrent'
  BY <1>16 DEF WorkerDies, IInv, PendingIsCurrent
<1>17. CASE Reconcile
  BY <1>17
     DEF Reconcile, IInv, Typed, PendingIsCurrent, ObjectRows, NoObject, WorkersAreReal
<1>18. CASE UNCHANGED vars
  BY <1>18 DEF vars, IInv, Typed, PendingIsCurrent, ObjectRows, NoObject, WorkersAreReal
<1> QED
  BY <1>1, <1>2, <1>3, <1>4, <1>5, <1>6, <1>7, <1>8, <1>9, <1>10, <1>11, <1>12, <1>13,
     <1>14, <1>15, <1>16, <1>17, <1>18
     DEF Next, Delete

(* Every step keeps CompleteIsStored.                                      *)
LEMMA CompleteIsStoredStep ==
  ASSUME IInv, [Next]_vars
  PROVE  CompleteIsStored'
<1>1. ASSUME NEW i \in Objects, InitiateUpload(i) PROVE CompleteIsStored'
  <2> SUFFICES ASSUME NEW j \in Objects, j \notin history'.overtaken
               PROVE  CompleteIsStored!(j)'
    BY DEF CompleteIsStored
  <2>1. \/ j = i /\ object'[j].state = "pending_upload" /\ upload'[j] = "presigning"
        \/ object'[j].state = "deleted" /\ object'[j].replaced
        \/ object'[j] = object[j] /\ upload'[j] = upload[j]
    <3>1. object[j] \in ObjectRows /\ upload \in [Objects -> {"none", "presigning", "open", "verified"}]
      BY DEF IInv, Typed
    <3>2. upload' = [upload EXCEPT ![i] = "presigning"]
      BY <1>1 DEF InitiateUpload
    <3>3. object'[j] = IF j = i THEN [NoObject EXCEPT !.state = "pending_upload"]
                       ELSE IF j \in Retired(i)
                         THEN [object[j] EXCEPT !.state = "deleted", !.due = FALSE,
                                                !.replaced = TRUE]
                       ELSE object[j]
      BY <1>1 DEF InitiateUpload
    <3>4. CASE j = i
      BY <3>1, <3>2, <3>3, <3>4 DEF NoObject
    <3>5. CASE j # i /\ j \in Retired(i)
      BY <3>1, <3>3, <3>5 DEF ObjectRows
    <3>6. CASE j # i /\ j \notin Retired(i)
      BY <3>1, <3>2, <3>3, <3>6
    <3> QED BY <3>4, <3>5, <3>6
  <2>2. UNCHANGED <<content, deleter>> /\ j \notin history.overtaken
    BY <1>1, SkewsMove DEF InitiateUpload, IInv
  <2> QED BY <2>1, <2>2 DEF IInv, CompleteIsStored, Stored, Removed, Watched
<1>2. ASSUME NEW i \in Objects, Presign(i) PROVE CompleteIsStored'
  <2> SUFFICES ASSUME NEW j \in Objects, j \notin history'.overtaken
               PROVE  CompleteIsStored!(j)'
    BY DEF CompleteIsStored
  <2>1. \/ object'[j].state = "failed"
        \/ object'[j] = object[j] /\ (upload'[j] = "verified" => upload[j] = "verified")
    BY <1>2 DEF Presign, IInv, Typed, ObjectRows
  <2>2. UNCHANGED <<content, deleter>> /\ j \notin history.overtaken
    BY <1>2, SkewsMove DEF Presign, IInv
  <2> QED BY <2>1, <2>2 DEF IInv, CompleteIsStored, Stored, Removed, Watched
<1>3. ASSUME NEW i \in Objects, PutObject(i) PROVE CompleteIsStored'
  <2> SUFFICES ASSUME NEW j \in Objects, j \notin history'.overtaken
               PROVE  CompleteIsStored!(j)'
    BY DEF CompleteIsStored
  <2>1. /\ UNCHANGED <<object, upload, deleter>>
        /\ content'[UploadKey(i)] = i
        /\ \A k \in Keys : k # UploadKey(i) => content'[k] = content[k]
    BY <1>3 DEF PutObject, IInv, Typed, Keys
  <2>2. /\ j \notin history.overtaken
        /\ j # i /\ j \in Logos /\ i \in Logos =>
             object[j].state \notin {"pending_upload", "ready", "deleted"}
    BY <1>3, OvertakesMove DEF PutObject, IInv, In
  <2>3. CASE UploadKey(j) # UploadKey(i)
    BY <2>1, <2>2, <2>3 DEF IInv, CompleteIsStored, Stored, Removed, Watched, Keys
  <2>4. CASE UploadKey(j) = UploadKey(i) /\ j # i
    <3>1. j \in Logos /\ i \in Logos
      BY <2>4 DEF UploadKey, LogoKey, Objects
    <3> QED BY <2>1, <2>2, <2>4, <3>1 DEF CompleteIsStored
  <2>5. CASE j = i
    BY <2>1, <2>2, <2>5 DEF IInv, CompleteIsStored, Stored, Removed, Watched
  <2> QED BY <2>3, <2>4, <2>5
<1>4. ASSUME NEW i \in Objects, VerifyUpload(i) PROVE CompleteIsStored'
  <2> SUFFICES ASSUME NEW j \in Objects, j \notin history'.overtaken
               PROVE  CompleteIsStored!(j)'
    BY DEF CompleteIsStored
  <2>1. /\ UNCHANGED <<object, content, deleter>>
        /\ j # i => upload'[j] = upload[j]
    BY <1>4 DEF VerifyUpload, IInv, Typed
  <2>2. j \notin history.overtaken
    BY <1>4, OvertakesMove DEF VerifyUpload, IInv
  <2>3. ASSUME j = i PROVE content[UploadKey(j)] = j /\ object[j].state = "pending_upload"
    BY <1>4, <2>3, OvertakesMove DEF VerifyUpload, IInv, In, KeyOf, PendingIsCurrent
  <2> QED BY <2>1, <2>2, <2>3 DEF IInv, CompleteIsStored, Stored, Removed, Watched
<1>5. ASSUME NEW i \in Objects, CompleteUpload(i) PROVE CompleteIsStored'
  <2> SUFFICES ASSUME NEW j \in Objects, j \notin history'.overtaken
               PROVE  CompleteIsStored!(j)'
    BY DEF CompleteIsStored
  <2>1. CASE object[i].state # "pending_upload"
    <3>1. /\ UNCHANGED <<object, content, deleter, history>>
          /\ upload'[j] = "verified" => upload[j] = "verified"
      BY <1>5, <2>1 DEF CompleteUpload, IInv, Typed
    <3> QED BY <3>1 DEF IInv, CompleteIsStored, Stored, Removed, Watched
  <2>2. CASE object[i].state = "pending_upload"
    <3>1. /\ UNCHANGED <<content, deleter>>
          /\ upload[i] = "verified" /\ object'[i].state = "ready"
          /\ j # i => object'[j] = object[j] /\ upload'[j] = upload[j]
      BY <1>5, <2>2 DEF CompleteUpload, IInv, Typed, ObjectRows
    <3>2. j \notin history.overtaken /\ (j = i => ~Watched(i))
      BY <1>5, <2>2, OvertakesMove DEF CompleteUpload, IInv, In
    <3>3. CASE j # i
      BY <3>1, <3>2, <3>3 DEF IInv, CompleteIsStored, Stored, Removed, Watched
    <3>4. CASE j = i
      <4>1. ~Removed(i)
        BY <3>2, <3>4 DEF Watched, Removed
      <4>2. Stored(i)
        BY <2>2, <3>1, <3>2, <3>4, <4>1 DEF IInv, CompleteIsStored
      <4> QED BY <3>1, <3>2, <3>4, <4>2 DEF Stored, Watched
    <3> QED BY <3>3, <3>4
  <2> QED BY <2>1, <2>2
<1>6. ASSUME NEW i \in Objects, SoftDelete(i) PROVE CompleteIsStored'
  BY <1>6 DEF SoftDelete, IInv, Typed, CompleteIsStored, Stored, Removed, Watched
<1>7. ASSUME NEW i \in Objects, Restore(i) PROVE CompleteIsStored'
  BY <1>7 DEF Restore, Restorable, IInv, Typed, CompleteIsStored, Stored, Removed, Watched
<1>8. ASSUME NEW i \in Objects, TimePasses(i) PROVE CompleteIsStored'
  BY <1>8
     DEF TimePasses, IInv, Typed, ObjectRows, CompleteIsStored, WorkersAreReal, Stored,
         Removed, Watched
<1>9. ASSUME NEW i \in Objects, NEW w \in Workers, Purge(w, i) PROVE CompleteIsStored'
  BY <1>9 DEF Purge, IInv, Typed, CompleteIsStored, Stored, Removed, Watched
<1>10. ASSUME NEW i \in Objects, NEW w \in Workers, CronLists(w, i) PROVE CompleteIsStored'
  BY <1>10 DEF CronLists, IInv, CompleteIsStored, Stored, Removed, Watched
<1>11. ASSUME NEW i \in Objects, NEW w \in Workers, CronExpires(w, i)
      PROVE CompleteIsStored'
  BY <1>11 DEF CronExpires, Abandoned, IInv, CompleteIsStored, Stored, Removed, Watched
<1>12. ASSUME NEW w \in Workers, DeleteObject(w) PROVE CompleteIsStored'
  <2> SUFFICES ASSUME NEW j \in Objects, j \notin history'.overtaken
               PROVE  CompleteIsStored!(j)'
    BY DEF CompleteIsStored
  <2> DEFINE x == deleter[w].i
             key == deleter[w].key
  <2>1. x \in Objects /\ key \in {UploadKey(x), None}
    BY <1>12 DEF DeleteObject, IInv, WorkersAreReal
  <2>2. /\ j \notin history.overtaken
        /\ object'[j].state = object[j].state /\ object'[j].replaced = object[j].replaced
        /\ upload'[j] = upload[j]
    BY <1>12, <2>1, OvertakesMove DEF DeleteObject, IInv, Typed, ObjectRows
  <2>3. /\ deleter[w].pc \in {"deleting", "expiring"}
        /\ \A v \in Workers : v # w => deleter'[v] = deleter[v]
        /\ deleter'[w] = IdleDeleter \/ deleter'[w].i = x
        /\ content' = content \/ deleter'[w].pc \in {"marking", "failing"}
        /\ content' = content \/ deleter'[w].i = x
    BY <1>12 DEF DeleteObject, IInv, Typed, Deleters
  <2>4. Watched(x) /\ (Watched(j)' => Watched(j)) /\ (Removed(j) => Removed(j)')
    <3>1. Watched(x)
      BY <2>1, <2>3 DEF Watched
    <3>2. ASSUME NEW v \in Workers, deleter'[v].i = j, deleter'[v].pc # "listed"
          PROVE  deleter[v].i = j /\ deleter[v].pc # "listed"
      BY <2>3, <3>2, ConstantsAssumption DEF IdleDeleter, Objects
    <3>3. ASSUME NEW v \in Workers, deleter[v].i = j, deleter[v].pc \in {"marking", "failing"}
          PROVE  deleter'[v].i = j /\ deleter'[v].pc \in {"marking", "failing"}
      BY <2>3, <3>3
    <3> QED BY <3>1, <3>2, <3>3 DEF Watched, Removed
  <2>5. CASE j = x
    <3>1. object[j].state # "ready"
      BY <2>2, <2>4, <2>5 DEF IInv, CompleteIsStored
    <3>2. content' = content \/ Removed(j)'
      BY <2>3, <2>5 DEF Removed
    <3>3. content' = content => (Stored(j) => Stored(j)')
      BY DEF Stored
    <3> QED BY <2>2, <2>4, <3>1, <3>2, <3>3 DEF IInv, CompleteIsStored
  <2>6. CASE j # x
    <3>1. \/ content'[UploadKey(j)] = content[UploadKey(j)]
          \/ object[j].state \notin {"pending_upload", "ready", "deleted"}
      <4>1. CASE key # UploadKey(j)
        BY <1>12, <4>1 DEF DeleteObject, Keys, IInv, Typed
      <4>2. CASE key = UploadKey(j)
        <5>1. UploadKey(j) \in Nat
          BY DEF UploadKey, LogoKey, Objects
        <5>2. UploadKey(j) = UploadKey(x)
          BY <2>1, <4>2, <5>1, ConstantsAssumption
        <5>3. j \in Logos /\ key = LogoKey
          BY <2>1, <2>6, <4>2, <5>2 DEF UploadKey, LogoKey, Objects
        <5> QED BY <1>12, <2>6, <5>3, OvertakesMove DEF DeleteObject, IInv, In
      <4> QED BY <4>1, <4>2
    <3>2. CASE object[j].state \notin {"pending_upload", "ready", "deleted"}
      BY <2>2, <3>2 DEF CompleteIsStored
    <3>3. CASE content'[UploadKey(j)] = content[UploadKey(j)]
      <4>1. Stored(j) => Stored(j)'
        BY <3>3 DEF Stored
      <4> QED BY <2>2, <2>4, <4>1 DEF IInv, CompleteIsStored
    <3> QED BY <3>1, <3>2, <3>3
  <2> QED BY <2>5, <2>6
<1>13. ASSUME NEW w \in Workers, MarkPurged(w) PROVE CompleteIsStored'
  <2> SUFFICES ASSUME NEW j \in Objects, j \notin history'.overtaken
               PROVE  CompleteIsStored!(j)'
    BY DEF CompleteIsStored
  <2> DEFINE x == deleter[w].i
  <2>1. x \in Objects /\ object[x].state \in {"ready", "deleted", "purged"}
    BY <1>13 DEF MarkPurged, IInv, WorkersAreReal
  <2>2. UNCHANGED <<content, upload>>
    BY <1>13 DEF MarkPurged
  <2>3. /\ Watched(j)' => Watched(j)
        /\ Removed(j) /\ j # x => Removed(j)'
    <3>1. deleter' = [deleter EXCEPT ![w] = IdleDeleter]
      BY <1>13 DEF MarkPurged
    <3>2. \A v \in Workers : v # w => deleter'[v] = deleter[v]
      BY <3>1 DEF IInv, Typed
    <3>3. deleter'[w] = IdleDeleter /\ j # None
      BY <3>1, ConstantsAssumption DEF IInv, Typed, Objects
    <3>4. ASSUME NEW v \in Workers, deleter'[v].i = j, deleter'[v].pc # "listed"
          PROVE  deleter[v].i = j /\ deleter[v].pc # "listed"
      BY <3>2, <3>3, <3>4 DEF IdleDeleter
    <3>5. ASSUME NEW v \in Workers, deleter[v].i = j, deleter[v].pc \in {"marking", "failing"},
                 j # x
          PROVE  deleter'[v].i = j /\ deleter'[v].pc \in {"marking", "failing"}
      BY <3>2, <3>5
    <3> QED BY <3>4, <3>5 DEF Watched, Removed
  <2>4. CASE j = x
    <3>1. CASE object[x].state = "deleted"
      <4>1. object'[x].state = "purged"
        BY <1>13, <2>1, <3>1 DEF MarkPurged, IInv, Typed, ObjectRows
      <4> QED BY <2>4, <4>1
    <3>2. CASE object[x].state # "deleted"
      <4>1. UNCHANGED <<object, history>>
        BY <1>13, <2>1, <3>2 DEF MarkPurged
      <4> QED BY <2>1, <2>2, <2>3, <2>4, <3>2, <4>1 DEF IInv, CompleteIsStored, Stored
    <3> QED BY <3>1, <3>2
  <2>5. CASE j # x
    <3>1. object'[j] = object[j] /\ j \notin history.overtaken
      BY <1>13, <2>5 DEF MarkPurged, IInv, Typed, Histories
    <3> QED BY <2>2, <2>3, <2>5, <3>1 DEF IInv, CompleteIsStored, Stored
  <2> QED BY <2>4, <2>5
<1>14. ASSUME NEW w \in Workers, MarkFailed(w) PROVE CompleteIsStored'
  <2> SUFFICES ASSUME NEW j \in Objects, j \notin history'.overtaken
               PROVE  CompleteIsStored!(j)'
    BY DEF CompleteIsStored
  <2> DEFINE x == deleter[w].i
  <2>1. /\ x \in Objects
        /\ object[x].state \notin {"ready", "deleted"} \/ object[x].replaced
             \/ x \in history.overtaken
    BY <1>14 DEF MarkFailed, IInv, WorkersAreReal
  <2>2. UNCHANGED <<content, upload, history>>
    BY <1>14 DEF MarkFailed
  <2>3. /\ Watched(j)' => Watched(j)
        /\ Removed(j) /\ j # x => Removed(j)'
    <3>1. deleter' = [deleter EXCEPT ![w] = IdleDeleter]
      BY <1>14 DEF MarkFailed
    <3>2. \A v \in Workers : v # w => deleter'[v] = deleter[v]
      BY <3>1 DEF IInv, Typed
    <3>3. deleter'[w] = IdleDeleter /\ j # None
      BY <3>1, ConstantsAssumption DEF IInv, Typed, Objects
    <3>4. ASSUME NEW v \in Workers, deleter'[v].i = j, deleter'[v].pc # "listed"
          PROVE  deleter[v].i = j /\ deleter[v].pc # "listed"
      BY <3>2, <3>3, <3>4 DEF IdleDeleter
    <3>5. ASSUME NEW v \in Workers, deleter[v].i = j, deleter[v].pc \in {"marking", "failing"},
                 j # x
          PROVE  deleter'[v].i = j /\ deleter'[v].pc \in {"marking", "failing"}
      BY <3>2, <3>5
    <3> QED BY <3>4, <3>5 DEF Watched, Removed
  <2>4. CASE j = x
    <3>1. CASE object[x].state = "pending_upload"
      <4>1. object'[x].state = "failed"
        BY <1>14, <2>1, <3>1 DEF MarkFailed, IInv, Typed, ObjectRows
      <4> QED BY <2>4, <4>1
    <3>2. CASE object[x].state # "pending_upload"
      <4>1. UNCHANGED object
        BY <1>14, <3>2 DEF MarkFailed
      <4> QED BY <2>1, <2>2, <2>3, <2>4, <3>2, <4>1 DEF IInv, CompleteIsStored, Stored
    <3> QED BY <3>1, <3>2
  <2>5. CASE j # x
    <3>1. object'[j] = object[j]
      BY <1>14, <2>5 DEF MarkFailed, IInv, Typed
    <3> QED BY <2>2, <2>3, <2>5, <3>1 DEF IInv, CompleteIsStored, Stored
  <2> QED BY <2>4, <2>5
<1>15. ASSUME NEW w \in Workers, CronReads(w) PROVE CompleteIsStored'
  <2> SUFFICES ASSUME NEW j \in Objects, j \notin history'.overtaken
               PROVE  CompleteIsStored!(j)'
    BY DEF CompleteIsStored
  <2>1. UNCHANGED <<object, content, upload, history>>
    BY <1>15 DEF CronReads
  <2>2. /\ deleter[w].pc = "listed"
        /\ \A v \in Workers : v # w => deleter'[v] = deleter[v]
        /\ \/ deleter'[w] = IdleDeleter
           \/ /\ object[deleter[w].i].state = "deleted"
              /\ deleter'[w].i = deleter[w].i
    BY <1>15 DEF CronReads, IInv, Typed
  <2>3. Removed(j) => Removed(j)'
    BY <2>2 DEF Removed
  <2>4. object[j].state = "ready" /\ Watched(j)' => Watched(j)
    BY <2>2, ConstantsAssumption DEF Watched, IdleDeleter, Objects
  <2> QED BY <2>1, <2>3, <2>4 DEF IInv, CompleteIsStored, Stored
<1>16. ASSUME NEW w \in Workers, WorkerDies(w) PROVE CompleteIsStored'
  <2> SUFFICES ASSUME NEW j \in Objects, j \notin history'.overtaken
               PROVE  CompleteIsStored!(j)'
    BY DEF CompleteIsStored
  <2>1. UNCHANGED <<object, content, upload>>
    BY <1>16 DEF WorkerDies
  <2>2. /\ j \notin history.overtaken
        /\ j = deleter[w].i /\ deleter[w].pc \in {"marking", "failing"} =>
             object[j].state \notin {"pending_upload", "ready", "deleted"}
    BY <1>16, OvertakesMove DEF WorkerDies, IInv, In
  <2>3. /\ Watched(j)' => Watched(j)
        /\ Removed(j) /\ ~(j = deleter[w].i /\ deleter[w].pc \in {"marking", "failing"}) => Removed(j)'
    <3>1. deleter' = [deleter EXCEPT ![w] = IdleDeleter]
      BY <1>16 DEF WorkerDies
    <3>2. \A v \in Workers : v # w => deleter'[v] = deleter[v]
      BY <3>1 DEF IInv, Typed
    <3>3. deleter'[w] = IdleDeleter /\ j # None
      BY <3>1, ConstantsAssumption DEF IInv, Typed, Objects
    <3>4. ASSUME NEW v \in Workers, deleter'[v].i = j, deleter'[v].pc # "listed"
          PROVE  deleter[v].i = j /\ deleter[v].pc # "listed"
      BY <3>2, <3>3, <3>4 DEF IdleDeleter
    <3>5. ASSUME NEW v \in Workers, deleter[v].i = j, deleter[v].pc \in {"marking", "failing"},
                 ~(j = deleter[w].i /\ deleter[w].pc \in {"marking", "failing"})
          PROVE  deleter'[v].i = j /\ deleter'[v].pc \in {"marking", "failing"}
      BY <3>2, <3>5
    <3> QED BY <3>4, <3>5 DEF Watched, Removed
  <2> QED BY <2>1, <2>2, <2>3 DEF IInv, CompleteIsStored, Stored
<1>17. CASE Reconcile
  <2>1. UNCHANGED <<object, content, upload, deleter>>
    BY <1>17 DEF Reconcile
  <2>2. history'.overtaken = history.overtaken
    BY <1>17 DEF Reconcile, IInv, Typed, Histories
  <2> QED BY <2>1, <2>2 DEF IInv, CompleteIsStored, Stored, Removed, Watched
<1>18. CASE UNCHANGED vars
  BY <1>18 DEF vars, IInv, CompleteIsStored, Stored, Removed, Watched
<1> QED
  BY <1>1, <1>2, <1>3, <1>4, <1>5, <1>6, <1>7, <1>8, <1>9, <1>10, <1>11, <1>12, <1>13,
     <1>14, <1>15, <1>16, <1>17, <1>18
     DEF Next, Delete

(* Every step keeps UsageInv.                                              *)
LEMMA UsageInvStep ==
  ASSUME IInv, [Next]_vars
  PROVE  UsageInv'
<1>1. ASSUME NEW i \in Objects, InitiateUpload(i) PROVE UsageInv'
  <2> DEFINE retained == {"ready", "deleted"}
             reserved == {"pending_upload"}
             d == \E j \in Retired(i) : object[j].state \notin {"ready", "deleted"}
  <2>1. /\ Races /\ usage' = [usage EXCEPT !.reserved = @ + Size[i]]
        /\ history'.skewed = (history.skewed \/ d)
        /\ history'.everSkewed = (history.everSkewed \/ d)
    <3>1. d \in BOOLEAN
      OBVIOUS
    <3> QED BY <1>1, <3>1, SkewsMove DEF InitiateUpload, IInv
  <2>2. /\ usage'.limit = usage.limit /\ usage'.ready = usage.ready
        /\ usage'.reserved = usage.reserved + Size[i]
    BY <2>1 DEF IInv, Typed, Usages
  <2>3. ASSUME ~d
        PROVE  Retained' = Retained /\ Reserved' = Reserved + Size[i]
    <3>1. ASSUME NEW j \in Objects
          PROVE  /\ object'[j].state \in retained <=> object[j].state \in retained
                 /\ object'[j].state \in reserved <=> object[j].state \in reserved \/ j = i
      <4>1. \/ j = i /\ object[j].state = "none" /\ object'[j].state = "pending_upload"
            \/ j \in Retired(i) /\ object'[j].state = "deleted"
            \/ j # i /\ object'[j] = object[j]
        BY <1>1 DEF InitiateUpload, IInv, Typed, ObjectRows, NoObject
      <4>2. object[i].state = "none" /\ i \notin Retired(i)
        BY <1>1 DEF InitiateUpload, Retired
      <4>3. j \in Retired(i) => object[j].state \in retained
        BY <2>3
      <4> QED BY <4>1, <4>2, <4>3
    <3>2. In(retained)' = In(retained) /\ In(reserved)' = In(reserved) \cup {i}
      BY <3>1 DEF In
    <3>3. i \notin In(reserved)
      BY <1>1 DEF InitiateUpload, In
    <3>4. /\ Retained = BytesOf(In(retained)) /\ Reserved = BytesOf(In(reserved))
          /\ Retained' = BytesOf(In(retained)') /\ Reserved' = BytesOf(In(reserved)')
      BY DEF Retained, Reserved, BytesOf
    <3> QED BY <3>2, <3>3, <3>4, SumsMove
  <2>4. ASSUME ~history'.skewed
        PROVE  usage'.ready = Retained' /\ usage'.reserved = Reserved'
    BY <2>1, <2>2, <2>3, <2>4 DEF IInv, CountersFollowObjects
  <2>5. ASSUME ~history'.everSkewed PROVE Retained' + Reserved' <= usage'.limit
    <3>4. ~d /\ ~history.everSkewed
      BY <2>1, <2>5
    <3>5. Retained' = Retained /\ Reserved' = Reserved + Size[i]
      BY <2>3, <3>4
    <3>1. usage.ready = Retained /\ usage.reserved = Reserved
      BY <3>4 DEF IInv, CountersFollowObjects, SkewsAreRemembered
    <3>2. usage.ready + usage.reserved + Size[i] <= usage.limit
      BY <1>1 DEF InitiateUpload, Fits
    <3>3. /\ usage.ready \in Nat /\ usage.reserved \in Nat /\ Size[i] \in Nat
          /\ usage.limit \in Nat
      BY ConstantsAssumption DEF IInv, Typed, Usages
    <3> QED BY <2>2, <3>1, <3>2, <3>3, <3>5
  <2>6. d \in BOOLEAN
    OBVIOUS
  <2> HIDE DEF d
  <2> QED BY <2>1, <2>4, <2>5, <2>6, CommitKeepsUsage
<1>2. ASSUME NEW i \in Objects, Presign(i) PROVE UsageInv'
  <2>1. CASE UNCHANGED <<object, usage, reconciler, history, faults>>
    BY <2>1, SumsStay, QuietStepKeepsUsage
  <2>2. CASE /\ Skews(object[i].state # "pending_upload")
             /\ object' = [object EXCEPT ![i].state = IF @ = "pending_upload" THEN "failed"
                                                      ELSE @]
             /\ usage' = ReservationReleased(Size[i]) /\ Races
    <3> DEFINE d == object[i].state # "pending_upload"
               row == [object[i] EXCEPT !.state = "failed"]
    <3>1. /\ d \in BOOLEAN
          /\ history'.skewed = (history.skewed \/ d)
          /\ history'.everSkewed = (history.everSkewed \/ d)
      BY <2>2, SkewsMove DEF IInv
    <3>2. ASSUME ~d
          PROVE  /\ Retained' = Retained /\ Reserved' = Reserved - Size[i]
                 /\ Size[i] <= Reserved
      <4>1. row \in ObjectRows /\ row.state = "failed"
        BY DEF IInv, Typed, ObjectRows, States
      <4>2. object' = [object EXCEPT ![i] = row]
        BY <2>2, <3>2 DEF IInv, Typed
      <4> HIDE DEF row
      <4> QED BY <3>2, <4>1, <4>2, OneRowMoves DEF IInv
    <3>3. /\ usage'.limit = usage.limit /\ usage'.ready = usage.ready
          /\ usage.reserved >= Size[i] => usage'.reserved = usage.reserved - Size[i]
      BY <2>2, CountersMove, ConstantsAssumption DEF IInv
    <3>4. ASSUME ~history'.skewed
          PROVE  usage'.ready = Retained' /\ usage'.reserved = Reserved'
      BY <3>1, <3>2, <3>3, <3>4, SumsAreNumbers, ConstantsAssumption
         DEF IInv, CountersFollowObjects
    <3>5. ASSUME ~history'.everSkewed PROVE Retained' + Reserved' <= usage'.limit
      <4>1. ~d /\ ~history.everSkewed
        BY <3>1, <3>5
      <4>2. Retained' = Retained /\ Reserved' = Reserved - Size[i] /\ Size[i] \in Nat
        BY <3>2, <4>1, ConstantsAssumption
      <4>3. Retained + Reserved <= usage.limit /\ usage.limit \in Nat
        BY <4>1, ConstantsAssumption DEF IInv, WithinLimit, Typed, Usages
      <4> QED BY <3>3, <4>2, <4>3, SumsAreNumbers
    <3> HIDE DEF d
    <3> QED BY <2>2, <3>1, <3>4, <3>5, CommitKeepsUsage
  <2> QED BY <1>2, <2>1, <2>2 DEF Presign
<1>3. ASSUME NEW i \in Objects, PutObject(i) PROVE UsageInv'
  <2>1. Retained' = Retained /\ Reserved' = Reserved
    BY <1>3, SumsStay DEF PutObject, IInv, Typed, ObjectRows
  <2>2. /\ UNCHANGED usage
        /\ history'.skewed = history.skewed /\ history'.everSkewed = history.everSkewed
        /\ UNCHANGED reconciler \/ Races
    BY <1>3, OvertakesMove DEF PutObject, IInv, Typed, Histories
  <2> QED BY <2>1, <2>2, QuietStepKeepsUsage
<1>4. ASSUME NEW i \in Objects, VerifyUpload(i) PROVE UsageInv'
  <2>1. Retained' = Retained /\ Reserved' = Reserved
    BY <1>4, SumsStay DEF VerifyUpload, IInv, Typed, ObjectRows
  <2>2. /\ UNCHANGED usage
        /\ history'.skewed = history.skewed /\ history'.everSkewed = history.everSkewed
        /\ UNCHANGED reconciler \/ Races
    BY <1>4, OvertakesMove DEF VerifyUpload, IInv, Typed, Histories
  <2> QED BY <2>1, <2>2, QuietStepKeepsUsage
<1>5. ASSUME NEW i \in Objects, CompleteUpload(i) PROVE UsageInv'
  <2>1. CASE object[i].state # "pending_upload"
    <3>1. UNCHANGED <<object, usage, reconciler, history>>
      BY <1>5, <2>1 DEF CompleteUpload
    <3> QED BY <3>1, SumsStay, QuietStepKeepsUsage
  <2>2. CASE object[i].state = "pending_upload"
    <3> DEFINE row == [object[i] EXCEPT !.state = "ready"]
    <3>1. row \in ObjectRows /\ row.state = "ready"
      BY DEF IInv, Typed, ObjectRows, States
    <3>2. object' = [object EXCEPT ![i] = row]
      BY <1>5, <2>2 DEF CompleteUpload, IInv, Typed, ObjectRows
    <3>3. /\ Retained' = Retained + Size[i] /\ Reserved' = Reserved - Size[i]
          /\ Size[i] <= Reserved
      <4> HIDE DEF row
      <4> QED BY <2>2, <3>1, <3>2, OneRowMoves DEF IInv
    <3>4. /\ usage'.limit = usage.limit
          /\ usage.reserved >= Size[i] => /\ usage'.ready = usage.ready + Size[i]
                                          /\ usage'.reserved = usage.reserved - Size[i]
      <4>1. usage' = Confirmed(Size[i]) /\ Size[i] \in Nat
        BY <1>5, <2>2, ConstantsAssumption DEF CompleteUpload
      <4> QED BY <4>1, CountersMove DEF IInv
    <3>5. /\ Races
          /\ history'.skewed = history.skewed /\ history'.everSkewed = history.everSkewed
      BY <1>5, <2>2, OvertakesMove DEF CompleteUpload, IInv, Typed, Histories
    <3>6. ASSUME ~history'.skewed
          PROVE  usage'.ready = Retained' /\ usage'.reserved = Reserved'
      BY <3>3, <3>4, <3>5, <3>6, SumsAreNumbers, ConstantsAssumption
         DEF IInv, CountersFollowObjects
    <3>7. ASSUME ~history'.everSkewed PROVE Retained' + Reserved' <= usage'.limit
      BY <3>3, <3>4, <3>5, <3>7, SumsAreNumbers, ConstantsAssumption
         DEF IInv, WithinLimit, Typed, Usages
    <3>8. /\ history'.skewed = (history.skewed \/ FALSE)
          /\ history'.everSkewed = (history.everSkewed \/ FALSE)
      BY <3>5 DEF IInv, Typed, Histories
    <3> QED BY <3>5, <3>6, <3>7, <3>8, CommitKeepsUsage
  <2> QED BY <2>1, <2>2
<1>6. ASSUME NEW i \in Objects, SoftDelete(i) PROVE UsageInv'
  <2>1. Retained' = Retained /\ Reserved' = Reserved
    BY <1>6, SumsStay DEF SoftDelete, IInv, Typed, ObjectRows
  <2>2. /\ UNCHANGED usage
        /\ history'.skewed = history.skewed /\ history'.everSkewed = history.everSkewed
        /\ UNCHANGED reconciler \/ Races
    BY <1>6 DEF SoftDelete, IInv, Typed, Histories
  <2> QED BY <2>1, <2>2, QuietStepKeepsUsage
<1>7. ASSUME NEW i \in Objects, Restore(i) PROVE UsageInv'
  <2>1. Retained' = Retained /\ Reserved' = Reserved
    BY <1>7, SumsStay DEF Restore, IInv, Typed, ObjectRows, Restorable
  <2>2. /\ UNCHANGED usage
        /\ history'.skewed = history.skewed /\ history'.everSkewed = history.everSkewed
        /\ UNCHANGED reconciler \/ Races
    BY <1>7 DEF Restore, IInv, Typed, Histories
  <2> QED BY <2>1, <2>2, QuietStepKeepsUsage
<1>8. ASSUME NEW i \in Objects, TimePasses(i) PROVE UsageInv'
  <2>1. Retained' = Retained /\ Reserved' = Reserved
    BY <1>8, SumsStay DEF TimePasses, IInv, Typed, ObjectRows
  <2>2. /\ UNCHANGED usage
        /\ history'.skewed = history.skewed /\ history'.everSkewed = history.everSkewed
        /\ UNCHANGED reconciler \/ Races
    BY <1>8 DEF TimePasses, IInv, Typed, Histories
  <2> QED BY <2>1, <2>2, QuietStepKeepsUsage
<1>9. ASSUME NEW i \in Objects, NEW w \in Workers, Purge(w, i) PROVE UsageInv'
  <2>1. Retained' = Retained /\ Reserved' = Reserved
    BY <1>9, SumsStay DEF Purge, IInv, Typed, ObjectRows
  <2>2. /\ UNCHANGED usage
        /\ history'.skewed = history.skewed /\ history'.everSkewed = history.everSkewed
        /\ UNCHANGED reconciler \/ Races
    BY <1>9 DEF Purge, IInv, Typed, Histories
  <2> QED BY <2>1, <2>2, QuietStepKeepsUsage
<1>10. ASSUME NEW i \in Objects, NEW w \in Workers, CronLists(w, i) PROVE UsageInv'
  <2>1. Retained' = Retained /\ Reserved' = Reserved
    BY <1>10, SumsStay DEF CronLists, IInv, Typed, ObjectRows
  <2>2. /\ UNCHANGED usage
        /\ history'.skewed = history.skewed /\ history'.everSkewed = history.everSkewed
        /\ UNCHANGED reconciler \/ Races
    BY <1>10 DEF CronLists, IInv, Typed, Histories
  <2> QED BY <2>1, <2>2, QuietStepKeepsUsage
<1>11. ASSUME NEW i \in Objects, NEW w \in Workers, CronExpires(w, i) PROVE UsageInv'
  <2>1. Retained' = Retained /\ Reserved' = Reserved
    BY <1>11, SumsStay DEF CronExpires, IInv, Typed, ObjectRows
  <2>2. /\ UNCHANGED usage
        /\ history'.skewed = history.skewed /\ history'.everSkewed = history.everSkewed
        /\ UNCHANGED reconciler \/ Races
    BY <1>11 DEF CronExpires, IInv, Typed, Histories
  <2> QED BY <2>1, <2>2, QuietStepKeepsUsage
<1>12. ASSUME NEW w \in Workers, DeleteObject(w) PROVE UsageInv'
  <2>1. Retained' = Retained /\ Reserved' = Reserved
    <3>1. deleter[w].i \in Objects
      BY <1>12 DEF DeleteObject, IInv, WorkersAreReal
    <3>2. \A j \in Objects : object'[j].state = object[j].state
      BY <1>12, <3>1 DEF DeleteObject, IInv, Typed, ObjectRows
    <3> QED BY <3>2, SumsStay
  <2>2. /\ UNCHANGED usage
        /\ history'.skewed = history.skewed /\ history'.everSkewed = history.everSkewed
        /\ UNCHANGED reconciler \/ Races
    BY <1>12, OvertakesMove DEF DeleteObject, IInv, Typed, Histories
  <2> QED BY <2>1, <2>2, QuietStepKeepsUsage
<1>13. ASSUME NEW w \in Workers, MarkPurged(w) PROVE UsageInv'
  <2> DEFINE x == deleter[w].i
  <2>3. x \in Objects /\ object[x].state \in {"ready", "deleted", "purged"}
    BY <1>13 DEF MarkPurged, IInv, WorkersAreReal
  <2>1. CASE object[x].state # "deleted"
    <3>1. UNCHANGED <<object, usage, reconciler, history>>
      BY <1>13, <2>1, <2>3 DEF MarkPurged
    <3> QED BY <3>1, SumsStay, QuietStepKeepsUsage
  <2>2. CASE object[x].state = "deleted"
    <3> DEFINE row == [object[x] EXCEPT !.state = "purged", !.purgedAt = TRUE, !.retry = FALSE]
    <3>1. row \in ObjectRows /\ row.state = "purged"
      <4>1. object[x] \in ObjectRows
        BY <2>3 DEF IInv, Typed
      <4> QED BY <4>1 DEF ObjectRows, States
    <3>2. object' = [object EXCEPT ![x] = row]
      BY <1>13, <2>2, <2>3 DEF MarkPurged, IInv, Typed, ObjectRows
    <3>3. /\ Retained' = Retained - Size[x] /\ Reserved' = Reserved
          /\ Size[x] <= Retained
      <4> HIDE DEF row
      <4> QED BY <2>2, <3>1, <3>2, <2>3, OneRowMoves DEF IInv
    <3>4. /\ usage'.limit = usage.limit /\ usage'.reserved = usage.reserved
          /\ usage.ready >= Size[x] => usage'.ready = usage.ready - Size[x]
      <4>1. usage' = ReadyReleased(Size[x]) /\ Size[x] \in Nat
        BY <1>13, <2>2, <2>3, ConstantsAssumption DEF MarkPurged
      <4> QED BY <4>1, CountersMove DEF IInv
    <3>5. /\ Races
          /\ history'.skewed = history.skewed /\ history'.everSkewed = history.everSkewed
      BY <1>13, <2>2, <2>3 DEF MarkPurged, IInv, Typed, Histories
    <3>6. ASSUME ~history'.skewed
          PROVE  usage'.ready = Retained' /\ usage'.reserved = Reserved'
      BY <3>3, <3>4, <3>5, <3>6, SumsAreNumbers, ConstantsAssumption, <2>3
         DEF IInv, CountersFollowObjects
    <3>7. ASSUME ~history'.everSkewed PROVE Retained' + Reserved' <= usage'.limit
      BY <3>3, <3>4, <3>5, <3>7, SumsAreNumbers, ConstantsAssumption, <2>3
         DEF IInv, WithinLimit, Typed, Usages
    <3>8. /\ history'.skewed = (history.skewed \/ FALSE)
          /\ history'.everSkewed = (history.everSkewed \/ FALSE)
      BY <3>5 DEF IInv, Typed, Histories
    <3> QED BY <3>5, <3>6, <3>7, <3>8, CommitKeepsUsage
  <2> QED BY <2>1, <2>2
<1>14. ASSUME NEW w \in Workers, MarkFailed(w) PROVE UsageInv'
  <2> DEFINE x == deleter[w].i
  <2>3. x \in Objects
    BY <1>14 DEF MarkFailed, IInv, WorkersAreReal
  <2>1. CASE object[x].state # "pending_upload"
    <3>1. UNCHANGED <<object, usage, reconciler, history>>
      BY <1>14, <2>1, <2>3 DEF MarkFailed
    <3> QED BY <3>1, SumsStay, QuietStepKeepsUsage
  <2>2. CASE object[x].state = "pending_upload"
    <3> DEFINE row == [object[x] EXCEPT !.state = "failed"]
    <3>1. row \in ObjectRows /\ row.state = "failed"
      BY <2>3 DEF IInv, Typed, ObjectRows, States
    <3>2. object' = [object EXCEPT ![x] = row]
      BY <1>14, <2>2, <2>3 DEF MarkFailed, IInv, Typed, ObjectRows
    <3>3. /\ Retained' = Retained /\ Reserved' = Reserved - Size[x]
          /\ Size[x] <= Reserved
      <4> HIDE DEF row
      <4> QED BY <2>2, <3>1, <3>2, <2>3, OneRowMoves DEF IInv
    <3>4. /\ usage'.limit = usage.limit /\ usage'.ready = usage.ready
          /\ usage.reserved >= Size[x] => usage'.reserved = usage.reserved - Size[x]
      <4>1. usage' = ReservationReleased(Size[x]) /\ Size[x] \in Nat
        BY <1>14, <2>2, <2>3, ConstantsAssumption DEF MarkFailed
      <4> QED BY <4>1, CountersMove DEF IInv
    <3>5. /\ Races
          /\ history'.skewed = history.skewed /\ history'.everSkewed = history.everSkewed
      BY <1>14, <2>2 DEF MarkFailed, IInv, Typed, Histories
    <3>6. ASSUME ~history'.skewed
          PROVE  usage'.ready = Retained' /\ usage'.reserved = Reserved'
      BY <3>3, <3>4, <3>5, <3>6, SumsAreNumbers, ConstantsAssumption, <2>3
         DEF IInv, CountersFollowObjects
    <3>7. ASSUME ~history'.everSkewed PROVE Retained' + Reserved' <= usage'.limit
      BY <3>3, <3>4, <3>5, <3>7, SumsAreNumbers, ConstantsAssumption, <2>3
         DEF IInv, WithinLimit, Typed, Usages
    <3>8. /\ history'.skewed = (history.skewed \/ FALSE)
          /\ history'.everSkewed = (history.everSkewed \/ FALSE)
      BY <3>5 DEF IInv, Typed, Histories
    <3> QED BY <3>5, <3>6, <3>7, <3>8, CommitKeepsUsage
  <2> QED BY <2>1, <2>2
<1>15. ASSUME NEW w \in Workers, CronReads(w) PROVE UsageInv'
  <2>1. Retained' = Retained /\ Reserved' = Reserved
    BY <1>15, SumsStay DEF CronReads, IInv, Typed, ObjectRows
  <2>2. /\ UNCHANGED usage
        /\ history'.skewed = history.skewed /\ history'.everSkewed = history.everSkewed
        /\ UNCHANGED reconciler \/ Races
    BY <1>15 DEF CronReads, IInv, Typed, Histories
  <2> QED BY <2>1, <2>2, QuietStepKeepsUsage
<1>16. ASSUME NEW w \in Workers, WorkerDies(w) PROVE UsageInv'
  <2>1. Retained' = Retained /\ Reserved' = Reserved
    BY <1>16, SumsStay DEF WorkerDies, IInv, Typed, ObjectRows
  <2>2. /\ UNCHANGED usage
        /\ history'.skewed = history.skewed /\ history'.everSkewed = history.everSkewed
        /\ UNCHANGED reconciler \/ Races
    BY <1>16, OvertakesMove DEF WorkerDies, IInv, Typed, Histories
  <2> QED BY <2>1, <2>2, QuietStepKeepsUsage
<1>17. CASE Reconcile
  <2>1. Retained' = Retained /\ Reserved' = Reserved
    BY <1>17, SumsStay DEF Reconcile
  <2>2. reconciler \in Reconcilers /\ usage \in Usages /\ history \in Histories
    BY DEF IInv, Typed
  <2>3. CASE /\ reconciler.pc = "idle"
             /\ reconciler' = [IdleReconciler EXCEPT !.pc = "retained", !.ready = Retained]
             /\ UNCHANGED <<usage, history>>
    <3>1. reconciler'.pc = "retained" /\ reconciler'.ready = Retained
      BY <2>3 DEF IdleReconciler
    <3>2. SumsAreCurrent'
      BY <2>1, <3>1 DEF SumsAreCurrent
    <3> QED BY <2>1, <2>3, <3>2
            DEF IInv, UsageInv, SkewsAreRemembered, CountersFollowObjects, WithinLimit
  <2>4. CASE /\ reconciler.pc = "retained"
             /\ reconciler' = [reconciler EXCEPT !.pc = "reserved", !.reserved = Reserved]
             /\ UNCHANGED <<usage, history>>
    <3>1. /\ reconciler'.reserved = Reserved /\ reconciler'.ready = reconciler.ready
          /\ reconciler'.raced = reconciler.raced
      BY <2>2, <2>4 DEF Reconcilers
    <3>2. SumsAreCurrent'
      BY <2>1, <2>4, <3>1 DEF IInv, SumsAreCurrent
    <3> QED BY <2>1, <2>4, <3>2
            DEF IInv, UsageInv, SkewsAreRemembered, CountersFollowObjects, WithinLimit
  <2>5. CASE /\ reconciler.pc = "reserved"
             /\ usage' = [usage EXCEPT !.ready = reconciler.ready,
                                      !.reserved = reconciler.reserved]
             /\ history' = [history EXCEPT !.skewed = reconciler.raced,
                                           !.everSkewed = @ \/ reconciler.raced]
             /\ reconciler' = IdleReconciler
    <3>1. /\ usage'.limit = usage.limit
          /\ usage'.ready = reconciler.ready /\ usage'.reserved = reconciler.reserved
          /\ history'.skewed = reconciler.raced
          /\ history'.everSkewed = (history.everSkewed \/ reconciler.raced)
      BY <2>2, <2>5 DEF Usages, Histories
    <3>2. SumsAreCurrent'
      BY <2>5 DEF SumsAreCurrent, IdleReconciler
    <3>3. SkewsAreRemembered'
      BY <3>1 DEF SkewsAreRemembered
    <3>4. CountersFollowObjects'
      BY <2>1, <2>5, <3>1 DEF IInv, SumsAreCurrent, CountersFollowObjects
    <3>5. WithinLimit'
      BY <2>1, <3>1 DEF IInv, WithinLimit
    <3> QED BY <3>2, <3>3, <3>4, <3>5 DEF UsageInv
  <2> QED BY <1>17, <2>3, <2>4, <2>5 DEF Reconcile
<1>18. CASE UNCHANGED vars
  <2>1. Retained' = Retained /\ Reserved' = Reserved
    BY <1>18, SumsStay DEF vars
  <2> QED BY <1>18, <2>1, QuietStepKeepsUsage DEF vars
<1> QED
  BY <1>1, <1>2, <1>3, <1>4, <1>5, <1>6, <1>7, <1>8, <1>9, <1>10, <1>11, <1>12, <1>13,
     <1>14, <1>15, <1>16, <1>17, <1>18
     DEF Next, Delete

-----------------------------------------------------------------------------
(* The inductive invariant holds at first.                                 *)
LEMMA InitInv == Init => IInv
<1> SUFFICES ASSUME Init PROVE IInv
  OBVIOUS
<1>1. Typed
  <2>1. NoObject \in ObjectRows /\ IdleDeleter \in Deleters /\ IdleReconciler \in Reconcilers
    BY DEF NoObject, ObjectRows, States, IdleDeleter, Deleters, IdleReconciler, Reconcilers
  <2> QED BY <2>1 DEF Init, Typed, Usages, Histories, Keys
<1>2. In({"ready", "deleted"}) = {} /\ In({"pending_upload"}) = {}
  BY DEF Init, In, NoObject
<1>3. BytesOf({}) = 0
  BY FS_EmptySet DEF BytesOf
<1>4. Retained = 0 /\ Reserved = 0
  BY <1>2, <1>3 DEF Retained, Reserved
<1>5. CountersFollowObjects /\ WithinLimit
  <2>1. usage.ready = 0 /\ usage.reserved = 0 /\ usage.limit \in Nat
    BY ConstantsAssumption DEF Init
  <2> QED BY <1>4, <2>1 DEF CountersFollowObjects, WithinLimit
<1>6. SumsAreCurrent /\ SkewsAreRemembered
  BY DEF Init, SumsAreCurrent, SkewsAreRemembered, IdleReconciler
<1>7. WorkersAreReal /\ PendingIsCurrent /\ CompleteIsStored
  BY DEF Init, WorkersAreReal, PendingIsCurrent, CompleteIsStored, IdleDeleter, NoObject
<1> QED
  BY <1>1, <1>5, <1>6, <1>7 DEF IInv

(* The inductive invariant holds always.                                   *)
LEMMA InvHolds == Spec => []IInv
<1>1. IInv /\ [Next]_vars => IInv'
  <2> SUFFICES ASSUME IInv, [Next]_vars PROVE IInv'
    OBVIOUS
  <2>1. Typed' /\ WorkersAreReal' /\ PendingIsCurrent' /\ CompleteIsStored'
    BY TypedStep, WorkersAreRealStep, PendingIsCurrentStep, CompleteIsStoredStep
  <2>2. SumsAreCurrent' /\ SkewsAreRemembered' /\ CountersFollowObjects' /\ WithinLimit'
    BY UsageInvStep DEF UsageInv
  <2> QED BY <2>1, <2>2 DEF IInv
<1> QED
  BY <1>1, InitInv, PTL DEF Spec

(* The counters are the sums over the rows and the plan is kept, unless    *)
(* reconcile wrote sums that had been overtaken or a logo was replaced     *)
(* that was not ready (tryReserve, confirm, release, reconcile), and every *)
(* variable has its type.                                                  *)
THEOREM UsageIsAlwaysSound == Spec => []UsageIsSound
<1>1. IInv => UsageIsSound
  BY DEF IInv, UsageIsSound, Typed, TypeOK, ObjectRows, Usages, Deleters, Reconcilers,
     Histories
<1> QED
  BY <1>1, InvHolds, PTL

(* A ready object is in S3, whatever purges, expiries, replacements and    *)
(* crashes go on, but for the races the history names.                     *)
THEOREM ReadyIsAlwaysStored == Spec => []ReadyIsStored
<1>1. IInv => ReadyIsStored
  BY DEF IInv, CompleteIsStored, Stored, ReadyIsStored
<1> QED
  BY <1>1, InvHolds, PTL

=============================================================================
