------------------------- MODULE PaymentEvents_proofs -------------------------
(***************************************************************************)
(* Proofs about PaymentEvents, for any set of events, any finite set of    *)
(* workers and any budget of attempts.                                     *)
(***************************************************************************)
EXTENDS PaymentEvents, FiniteSetTheorems, TLAPS

-----------------------------------------------------------------------------
Rows == [status: RowStatus, retryCount: Nat, due: BOOLEAN,
         lease: {"none", "live", "expired"}]
Steps == {"idle", "taken", "claimed", "applied", "ignoring", "failing", "done"}
RunStates == [pc: Steps, e: Events \cup {None}, holds: BOOLEAN, retryCount: Nat]
Entries == [applied: Nat, failures: Nat, reclaims: Nat, lost: Nat]

(* TypeOK with its records named.                                          *)
Typed ==
  /\ row \in [Events -> Rows]
  /\ nature \in [Events -> {"applies", "ignored", "throws"}]
  /\ inbound \subseteq Events
  /\ job \in [Events -> JobStates]
  /\ run \in [Runs -> RunStates]
  /\ ledger \in [Events -> Entries]
  /\ faults \in Nat
  /\ \A e \in Events : row[e].status = "processing" <=> row[e].lease # "none"

(* A run that goes on stays with its event.                                *)
LEMMA GotoMoves ==
  ASSUME run \in [Runs -> RunStates], NEW r \in Runs, NEW pc \in Steps, Goto(r, pc)
  PROVE  /\ run' \in [Runs -> RunStates]
         /\ run'[r].pc = pc /\ run'[r].e = run[r].e
         /\ run'[r].retryCount = run[r].retryCount
         /\ \A s \in Runs \ {r} : run'[s] = run[s]
<1>1. [run[r] EXCEPT !.pc = pc] \in RunStates
  BY DEF RunStates
<1>2. run' = [run EXCEPT ![r] = [run[r] EXCEPT !.pc = pc]]
  BY DEF Goto
<1>3. run'[r] = [run[r] EXCEPT !.pc = pc]
  BY <1>2
<1>4. run'[r].pc = pc /\ run'[r].e = run[r].e /\ run'[r].retryCount = run[r].retryCount
  BY <1>3 DEF RunStates
<1> HIDE DEF RunStates
<1> QED
  BY <1>1, <1>2, <1>4

(* Only what is counted changes in the ledger.                             *)
LEMMA CountMoves ==
  ASSUME ledger \in [Events -> Entries], NEW e \in Events,
         NEW what \in {"applied", "failures", "lost"}, Count(e, what)
  PROVE  /\ ledger' \in [Events -> Entries]
         /\ \A f \in Events : ledger'[f].reclaims = ledger[f].reclaims
         /\ \A f \in Events \ {e} : ledger'[f] = ledger[f]
         /\ ledger'[e][what] = ledger[e][what] + 1
         /\ \A other \in {"applied", "failures", "lost"} \ {what} :
              ledger'[e][other] = ledger[e][other]
<1> DEFINE entry == [ledger[e] EXCEPT ![what] = @ + 1]
<1>1. ledger[e] \in Entries
  OBVIOUS
<1>2. CASE what = "applied"
  <2>1. entry \in Entries /\ entry.reclaims = ledger[e].reclaims
        /\ entry.applied = ledger[e].applied + 1
        /\ entry.failures = ledger[e].failures /\ entry.lost = ledger[e].lost
    BY <1>1, <1>2 DEF Entries
  <2> HIDE DEF entry, Entries
  <2> QED BY <1>2, <2>1 DEF Count, entry
<1>3. CASE what = "failures"
  <2>1. entry \in Entries /\ entry.reclaims = ledger[e].reclaims
        /\ entry.failures = ledger[e].failures + 1
        /\ entry.applied = ledger[e].applied /\ entry.lost = ledger[e].lost
    BY <1>1, <1>3 DEF Entries
  <2> HIDE DEF entry, Entries
  <2> QED BY <1>3, <2>1 DEF Count, entry
<1>4. CASE what = "lost"
  <2>1. entry \in Entries /\ entry.reclaims = ledger[e].reclaims
        /\ entry.lost = ledger[e].lost + 1
        /\ entry.applied = ledger[e].applied /\ entry.failures = ledger[e].failures
    BY <1>1, <1>4 DEF Entries
  <2> HIDE DEF entry, Entries
  <2> QED BY <1>4, <2>1 DEF Count, entry
<1> QED
  BY <1>2, <1>3, <1>4

-----------------------------------------------------------------------------
(* A run that has claimed its event and not yet recorded what became of it.*)
Works(r) == run[r].pc \in {"claimed", "applied", "ignoring", "failing"}

(* Every run that is not idle is about an event.                           *)
RunsAreAboutEvents == \A r \in Runs : ~At(r, "idle") => run[r].e \in Events

(* Applying an event does what its nature says.                            *)
NatureIsKept ==
  /\ \A e \in Events : nature[e] # "applies" => ledger[e].applied = 0
  /\ \A r \in Runs : /\ At(r, "applied") => nature[run[r].e] = "applies"
                     /\ At(r, "ignoring") => nature[run[r].e] = "ignored"

(* As long as no lease was lost, an event that is worked on is processing, *)
(* and by one worker alone.                                                *)
OwnerIsAlone ==
  \A r \in Runs : Works(r) /\ ledger[run[r].e].reclaims = 0 =>
    /\ row[run[r].e].status = "processing"
    /\ \A s \in Runs : Works(s) /\ run[s].e = run[r].e => s = r

(* The retries a run will count from are failures that happened.           *)
ClaimsCountFailures ==
  \A r \in Runs : Works(r) => run[r].retryCount <= ledger[run[r].e].failures

(* The runs that may yet apply an event or open its row again.             *)
Chances(e) == {r \in Runs : run[r].e = e /\ run[r].pc \in {"claimed", "failing"}}
Open(e) == IF row[e].status \in {"none", "pending", "failed"} THEN 1 ELSE 0

(* Applications and chances of one together are paid for.                  *)
ChancesArePaid ==
  \A e \in Events : nature[e] = "applies" =>
    ledger[e].applied + Cardinality(Chances(e)) + Open(e)
      <= 1 + ledger[e].reclaims + ledger[e].lost

Aux == RunsAreAboutEvents /\ NatureIsKept /\ OwnerIsAlone /\ ClaimsCountFailures
         /\ RetriesAreFailures

(* The inductive invariant.                                                *)
IInv == Typed /\ Aux /\ ChancesArePaid

(* Nobody works on an event that was never delivered.                      *)
LEMMA InitInv == Init => IInv
<1> SUFFICES ASSUME Init PROVE IInv
  OBVIOUS
<1>1. Typed
  BY DEF Init, Typed, NoRow, IdleRun, RowStatus, JobStates, Rows, RunStates, Steps, Entries
<1>2. Aux
  BY DEF Init, Aux, RunsAreAboutEvents, NatureIsKept, OwnerIsAlone, ClaimsCountFailures,
         RetriesAreFailures, Works, At, NoRow, IdleRun
<1>3. ChancesArePaid
  <2>1. \A e \in Events : Chances(e) = {}
    BY DEF Init, Chances, IdleRun
  <2>2. \A e \in Events : Open(e) = 1 /\ ledger[e].applied = 0 /\ ledger[e].reclaims = 0
                          /\ ledger[e].lost = 0
    BY DEF Init, Open, NoRow
  <2> QED
    BY <2>1, <2>2, FS_EmptySet DEF ChancesArePaid
<1> QED
  BY <1>1, <1>2, <1>3 DEF IInv
-----------------------------------------------------------------------------
(* A run counts where it has a chance, and only one run moves in a step.   *)
Chance(r, e) == run[r].e = e /\ run[r].pc \in {"claimed", "failing"}

(* Only the run that steps gains or loses a chance.                        *)
LEMMA ChancesMove ==
  ASSUME NEW r \in Runs, \A s \in Runs \ {r} : run'[s] = run[s], NEW e \in Events
  PROVE  /\ Cardinality(Chances(e)) \in Nat /\ Cardinality(Chances(e)') \in Nat
         /\ Cardinality(Chances(e)') =
              (Cardinality(Chances(e)) - (IF Chance(r, e) THEN 1 ELSE 0))
                + (IF Chance(r, e)' THEN 1 ELSE 0)
<1>1. IsFiniteSet(Runs)
  BY ConstantsAssumption
<1>2. IsFiniteSet(Chances(e)) /\ IsFiniteSet(Chances(e)')
  BY <1>1, FS_Subset DEF Chances
<1> DEFINE rest == Chances(e) \ {r}
<1>3. rest = Chances(e)' \ {r}
  BY DEF Chances
<1>4. /\ Cardinality(rest) = IF r \in Chances(e) THEN Cardinality(Chances(e)) - 1
                             ELSE Cardinality(Chances(e))
      /\ Cardinality(rest) = IF r \in Chances(e)' THEN Cardinality(Chances(e)') - 1
                             ELSE Cardinality(Chances(e)')
  BY <1>2, <1>3, FS_RemoveElement
<1>5. /\ r \in Chances(e) <=> Chance(r, e)
      /\ r \in Chances(e)' <=> Chance(r, e)'
  BY DEF Chances, Chance
<1>6. Cardinality(Chances(e)) \in Nat /\ Cardinality(Chances(e)') \in Nat
  BY <1>2, FS_CardinalityType
<1> HIDE DEF rest
<1> QED
  BY <1>4, <1>5, <1>6

(* Nothing but rows that stay as open as they were.                        *)
LEMMA RunsAndLedgerStay ==
  ASSUME IInv, UNCHANGED <<nature, run, ledger>>, Typed', RetriesAreFailures',
         \A e \in Events : /\ Open(e)' = Open(e)
                           /\ row[e].status = "processing" => row'[e].status = "processing"
  PROVE  IInv'
<1>1. Aux'
  <2>1. RunsAreAboutEvents' /\ NatureIsKept' /\ ClaimsCountFailures'
    BY DEF IInv, Aux, RunsAreAboutEvents, NatureIsKept, ClaimsCountFailures, Works, At
  <2>2. OwnerIsAlone'
    BY DEF IInv, Aux, RunsAreAboutEvents, OwnerIsAlone, Works, At
  <2> QED
    BY <2>1, <2>2 DEF Aux
<1>2. ChancesArePaid'
  <2>1. \A e \in Events : Chances(e)' = Chances(e)
    BY DEF Chances
  <2> QED
    BY <2>1 DEF IInv, ChancesArePaid
<1> QED
  BY <1>1, <1>2 DEF IInv

(* A delivery of the event keeps the inductive invariant.                  *)
LEMMA HandleInboundKeeps ==
  ASSUME IInv, NEW e \in Events, HandleInbound(e)
  PROVE  IInv'
<1> DEFINE new == [NoRow EXCEPT !.status = "pending", !.due = TRUE]
<1>1. new \in Rows /\ new.status = "pending" /\ new.lease = "none" /\ new.retryCount = 0
  BY DEF NoRow, Rows, RowStatus
<1>2. /\ \/ row' = row
         \/ row[e].status = "none" /\ row' = [row EXCEPT ![e] = new]
      /\ inbound' = inbound \cup {e}
      /\ UNCHANGED <<nature, job, run, ledger, faults>>
  BY DEF HandleInbound
<1> HIDE DEF new
<1>3. \A f \in Events : row'[f] = row[f] \/ (row[f].status = "none" /\ row'[f] = new)
  BY <1>2 DEF IInv, Typed
<1>4. Typed'
  BY <1>1, <1>2, <1>3 DEF IInv, Typed
<1>5. RetriesAreFailures'
  BY <1>1, <1>2, <1>3 DEF IInv, Aux, RetriesAreFailures, Typed, Entries
<1>6. \A f \in Events : /\ Open(f)' = Open(f)
                        /\ row[f].status = "processing" => row'[f].status = "processing"
  BY <1>1, <1>3 DEF Open
<1> QED
  BY <1>2, <1>4, <1>5, <1>6, RunsAndLedgerStay

(* Wakes and stalled jobs keep it.                                         *)
LEMMA QueueKeeps ==
  ASSUME IInv, NEW e \in Events, EnqueueWake(e) \/ JobStalls(e)
  PROVE  IInv'
<1>1. /\ inbound' \subseteq Events
      /\ job' \in [Events -> JobStates]
      /\ faults' \in Nat
      /\ UNCHANGED <<row, nature, run, ledger>>
  <2>1. CASE EnqueueWake(e)
    BY <2>1 DEF EnqueueWake, EnqueueJob, EnqueueFailure, AddJob, RemoveJob, JobStates,
                IInv, Typed, Fault
  <2>2. CASE JobStalls(e)
    BY <2>2 DEF JobStalls, JobStates, IInv, Typed
  <2> QED
    BY <2>1, <2>2
<1>2. Typed'
  BY <1>1 DEF IInv, Typed
<1>3. RetriesAreFailures'
  BY <1>1 DEF IInv, Aux, RetriesAreFailures
<1> QED
  BY <1>1, <1>2, <1>3, RunsAndLedgerStay DEF Open

(* Time keeps it.                                                          *)
LEMMA TimeKeeps ==
  ASSUME IInv, NEW e \in Events, LeaseExpires(e) \/ LeaseOverrun(e) \/ BecomesDue(e)
  PROVE  IInv'
<1>1. \E new \in Rows : /\ row' = [row EXCEPT ![e] = new]
                        /\ new.status = row[e].status
                        /\ new.retryCount = row[e].retryCount
                        /\ new.lease # "none" <=> row[e].lease # "none"
  <2>1. row[e] \in Rows
    BY DEF IInv, Typed
  <2>2. CASE row[e].lease = "live" /\ row' = [row EXCEPT ![e].lease = "expired"]
    <3> DEFINE new == [row[e] EXCEPT !.lease = "expired"]
    <3>1. new \in Rows /\ new.status = row[e].status /\ new.lease = "expired"
          /\ new.retryCount = row[e].retryCount
      BY <2>1 DEF Rows
    <3>2. row' = [row EXCEPT ![e] = new]
      BY <2>2
    <3> HIDE DEF new
    <3> QED BY <2>2, <3>1, <3>2
  <2>3. CASE row' = [row EXCEPT ![e].due = TRUE]
    <3> DEFINE new == [row[e] EXCEPT !.due = TRUE]
    <3>1. new \in Rows /\ new.status = row[e].status /\ new.lease = row[e].lease
          /\ new.retryCount = row[e].retryCount
      BY <2>1 DEF Rows
    <3>2. row' = [row EXCEPT ![e] = new]
      BY <2>3
    <3> HIDE DEF new
    <3> QED BY <3>1, <3>2
  <2> QED
    BY <2>2, <2>3 DEF LeaseExpires, LeaseOverrun, BecomesDue
<1>2. UNCHANGED <<nature, inbound, job, run, ledger>> /\ faults' \in Nat
  BY DEF LeaseExpires, LeaseOverrun, BecomesDue, Fault, IInv, Typed
<1>3. /\ row' \in [Events -> Rows]
      /\ \A f \in Events : /\ row'[f].status = row[f].status
                           /\ row'[f].retryCount = row[f].retryCount
                           /\ row'[f].lease # "none" <=> row[f].lease # "none"
  BY <1>1 DEF IInv, Typed
<1>4. Typed'
  BY <1>2, <1>3 DEF IInv, Typed
<1>5. RetriesAreFailures'
  BY <1>2, <1>3 DEF IInv, Aux, RetriesAreFailures
<1> QED
  BY <1>2, <1>3, <1>4, <1>5, RunsAndLedgerStay DEF Open

-----------------------------------------------------------------------------
Bit(condition) == IF condition THEN 1 ELSE 0

(* What suffices of a step of one run about one event.                     *)
LEMMA RunMoveKeeps ==
  ASSUME IInv, Typed', nature' = nature,
         NEW r \in Runs, NEW e \in Events,
         \A s \in Runs \ {r} : run'[s] = run[s],
         \A f \in Events \ {e} : row'[f] = row[f] /\ ledger'[f] = ledger[f],
         run[r].pc = "idle" \/ run[r].e = e,
         run'[r].pc = "idle" \/ run'[r].e = e,
         ledger[e].failures <= ledger'[e].failures,
         ledger[e].reclaims <= ledger'[e].reclaims,
         nature[e] # "applies" => ledger'[e].applied = 0,
         run'[r].pc = "applied" => nature[e] = "applies",
         run'[r].pc = "ignoring" => nature[e] = "ignored",
         Works(r)' => run'[r].retryCount <= ledger'[e].failures,
         row'[e].retryCount <= ledger'[e].failures,
         \/ ledger'[e].reclaims # 0
         \/ row'[e].status = row[e].status /\ (Works(r)' => Works(r))
         \/ /\ \A s \in Runs \ {r} : Works(s) => run[s].e # e
            /\ Works(r)' => row'[e].status = "processing",
         nature[e] = "applies" =>
           ledger'[e].applied + Bit(run'[r].pc \in {"claimed", "failing"}) + Open(e)'
               + ledger[e].reclaims + ledger[e].lost
             <= ledger[e].applied + Bit(run[r].pc \in {"claimed", "failing"}) + Open(e)
                  + ledger'[e].reclaims + ledger'[e].lost
  PROVE  IInv'
<1>1. RunsAreAboutEvents'
  BY DEF IInv, Aux, RunsAreAboutEvents, At
<1>2. NatureIsKept'
  BY DEF IInv, Aux, NatureIsKept, At
<1>3. ClaimsCountFailures'
  <2> SUFFICES ASSUME NEW s \in Runs, Works(s)'
               PROVE  run'[s].retryCount <= ledger'[run'[s].e].failures
    BY DEF ClaimsCountFailures
  <2>1. CASE s = r
    BY <2>1 DEF Works
  <2>2. CASE s # r
    <3>1. /\ run'[s] = run[s] /\ run[s].e \in Events
          /\ run[s].retryCount <= ledger[run[s].e].failures
      BY <2>2 DEF IInv, Aux, ClaimsCountFailures, RunsAreAboutEvents, Works, At
    <3>2. run[s].retryCount \in Nat /\ \A f \in Events : ledger[f].failures \in Nat
                                                         /\ ledger'[f].failures \in Nat
      BY DEF IInv, Typed, RunStates, Entries
    <3> QED
      BY <3>1, <3>2
  <2> QED
    BY <2>1, <2>2
<1>4. RetriesAreFailures'
  BY DEF IInv, Aux, RetriesAreFailures
<1>5. OwnerIsAlone'
  <2>1. \A f \in Events : ledger[f].reclaims \in Nat /\ ledger'[f].reclaims \in Nat
    BY DEF IInv, Typed, Entries
  <2> SUFFICES ASSUME NEW s \in Runs, Works(s)', ledger'[run'[s].e].reclaims = 0
               PROVE  /\ row'[run'[s].e].status = "processing"
                      /\ \A t \in Runs : Works(t)' /\ run'[t].e = run'[s].e => t = s
    BY DEF OwnerIsAlone
  <2>2. CASE run'[s].e = e
    <3>1. ledger[e].reclaims = 0
      BY <2>1, <2>2
    <3>2. CASE row'[e].status = row[e].status /\ (Works(r)' => Works(r))
      BY <2>2, <3>1, <3>2 DEF IInv, Aux, OwnerIsAlone, Works
    <3>3. CASE /\ \A t \in Runs \ {r} : Works(t) => run[t].e # e
               /\ Works(r)' => row'[e].status = "processing"
      BY <2>2, <3>3 DEF Works
    <3> QED
      BY <2>2, <3>2, <3>3
  <2>3. CASE run'[s].e # e
    <3>1. s # r /\ run'[s] = run[s] /\ run[s].e \in Events
      BY <2>3 DEF IInv, Aux, RunsAreAboutEvents, Works, At
    <3> QED
      BY <2>1, <2>3, <3>1 DEF IInv, Aux, OwnerIsAlone, Works
  <2> QED
    BY <2>2, <2>3
<1>6. ChancesArePaid'
  <2> SUFFICES ASSUME NEW f \in Events, nature[f] = "applies"
               PROVE  ledger'[f].applied + Cardinality(Chances(f)') + Open(f)'
                        <= 1 + ledger'[f].reclaims + ledger'[f].lost
    BY DEF ChancesArePaid
  <2>1. /\ Cardinality(Chances(f)) \in Nat /\ Cardinality(Chances(f)') \in Nat
        /\ Cardinality(Chances(f)') =
              (Cardinality(Chances(f)) - (IF Chance(r, f) THEN 1 ELSE 0))
                + (IF Chance(r, f)' THEN 1 ELSE 0)
    BY ChancesMove
  <2>2. ledger[f].applied + Cardinality(Chances(f)) + Open(f)
          <= 1 + ledger[f].reclaims + ledger[f].lost
    BY DEF IInv, ChancesArePaid
  <2>3. ledger[f] \in Entries /\ ledger'[f] \in Entries /\ Open(f) \in Nat /\ Open(f)' \in Nat
    BY DEF IInv, Typed, Open
  <2>4. CASE f = e
    <3>1. /\ Chance(r, e) <=> run[r].pc \in {"claimed", "failing"}
          /\ Chance(r, e)' <=> run'[r].pc \in {"claimed", "failing"}
      BY DEF Chance
    <3> QED
      BY <2>1, <2>2, <2>3, <2>4, <3>1 DEF Bit, Entries
  <2>5. CASE f # e
    <3>1. ~Chance(r, f) /\ ~Chance(r, f)' /\ ledger'[f] = ledger[f] /\ Open(f)' = Open(f)
      BY <2>5 DEF Chance, Open
    <3> QED
      BY <2>1, <2>2, <3>1
  <2> QED
    BY <2>4, <2>5
<1> QED
  BY <1>1, <1>2, <1>3, <1>4, <1>5, <1>6 DEF IInv, Aux

-----------------------------------------------------------------------------
(* The start of a worker keeps it.                                         *)
LEMMA TakeJobKeeps ==
  ASSUME IInv, NEW r \in Runs, NEW e \in Events, TakeJob(r, e)
  PROVE  IInv'
<1> DEFINE new == [IdleRun EXCEPT !.pc = "taken", !.e = e, !.holds = TRUE]
<1>1. new \in RunStates /\ new.pc = "taken" /\ new.e = e
  BY DEF IdleRun, RunStates, Steps
<1>2. /\ run[r].pc = "idle" /\ run' = [run EXCEPT ![r] = new]
      /\ job' = [job EXCEPT ![e] = "active"]
      /\ UNCHANGED <<row, nature, inbound, ledger, faults>>
  BY DEF TakeJob, At
<1> HIDE DEF new
<1>3. run'[r] = new /\ \A s \in Runs \ {r} : run'[s] = run[s]
  BY <1>2 DEF IInv, Typed
<1>4. Typed'
  BY <1>1, <1>2 DEF IInv, Typed, JobStates
<1>5. ~Works(r)' /\ Open(e)' = Open(e)
  BY <1>1, <1>2, <1>3 DEF Works, Open
<1>6. ledger[e] \in Entries /\ row[e].retryCount <= ledger[e].failures /\ Open(e) \in Nat
  BY DEF IInv, Typed, Aux, RetriesAreFailures, Open
<1>7. nature[e] # "applies" => ledger[e].applied = 0
  BY DEF IInv, Aux, NatureIsKept
<1> QED
  BY <1>1, <1>2, <1>3, <1>4, <1>5, <1>6, <1>7, RunMoveKeeps DEF Entries, Bit

(* A run has an event in hand from the moment it took its job.             *)
LEMMA ClaimKeeps ==
  ASSUME IInv, NEW r \in Runs, NEW e \in Events, NEW holds \in BOOLEAN,
         run[r].pc \in {"idle", "taken"}, run[r].pc = "taken" => run[r].e = e,
         Claim(r, e, holds), UNCHANGED <<nature, inbound, job, faults>>
  PROVE  IInv'
<1> DEFINE new == [pc |-> "claimed", e |-> e, holds |-> holds,
                   retryCount |-> row[e].retryCount]
           claimed == [row[e] EXCEPT !.status = "processing", !.lease = "live"]
           entry == [ledger[e] EXCEPT !.reclaims =
                       IF row[e].lease = "expired" THEN @ + 1 ELSE @]
<1>1. row[e] \in Rows /\ ledger[e] \in Entries
  BY DEF IInv, Typed
<1>2. /\ new \in RunStates /\ new.pc = "claimed" /\ new.e = e
      /\ new.retryCount = row[e].retryCount
  BY <1>1 DEF RunStates, Steps, Rows
<1>3. /\ claimed \in Rows /\ claimed.status = "processing" /\ claimed.lease = "live"
      /\ claimed.retryCount = row[e].retryCount
  BY <1>1 DEF Rows, RowStatus
<1>4. /\ entry \in Entries /\ entry.applied = ledger[e].applied
      /\ entry.failures = ledger[e].failures /\ entry.lost = ledger[e].lost
      /\ entry.reclaims = ledger[e].reclaims + Bit(row[e].lease = "expired")
  BY <1>1 DEF Entries, Bit
<1>5. row' = [row EXCEPT ![e] = claimed]
  BY DEF Claim, IInv, Typed
<1>6. run' = [run EXCEPT ![r] = new] /\ ledger' = [ledger EXCEPT ![e] = entry]
  BY DEF Claim
<1> HIDE DEF new, claimed, entry
<1>7. /\ run'[r] = new /\ \A s \in Runs \ {r} : run'[s] = run[s]
      /\ row'[e] = claimed /\ ledger'[e] = entry
      /\ \A f \in Events \ {e} : row'[f] = row[f] /\ ledger'[f] = ledger[f]
  BY <1>5, <1>6 DEF IInv, Typed
<1>8. Typed'
  BY <1>2, <1>3, <1>4, <1>5, <1>6 DEF IInv, Typed
<1>9. /\ row[e].retryCount <= ledger[e].failures
      /\ nature[e] # "applies" => ledger[e].applied = 0
  BY DEF IInv, Aux, RetriesAreFailures, NatureIsKept
<1>10. \/ row[e].status \in {"pending", "failed"} /\ row[e].lease = "none"
       \/ row[e].status = "processing" /\ row[e].lease = "expired"
  BY DEF Claim, Claimable, IInv, Typed
<1>11. entry.reclaims # 0 \/ \A s \in Runs \ {r} : Works(s) => run[s].e # e
  <2>1. CASE row[e].lease = "expired"
    BY <1>1, <1>4, <2>1 DEF Entries, Bit
  <2>2. CASE row[e].status # "processing"
    BY <1>1, <1>4, <2>2 DEF IInv, Aux, OwnerIsAlone, Bit, Entries
  <2> QED
    BY <1>10, <2>1, <2>2
<1>12. /\ Open(e)' = 0
       /\ Bit(row[e].lease = "expired") + Open(e) = 1
  BY <1>3, <1>7, <1>10 DEF Open, Bit
<1>13. /\ Bit(run'[r].pc \in {"claimed", "failing"}) = 1
       /\ Bit(run[r].pc \in {"claimed", "failing"}) = 0
  BY <1>2, <1>7 DEF Bit
<1>14. /\ Open(e) \in Nat /\ Bit(row[e].lease = "expired") \in Nat
       /\ entry.reclaims \in Nat /\ entry.reclaims >= ledger[e].reclaims
  BY <1>1, <1>4 DEF Open, Bit, Entries
<1>15. nature[e] = "applies" =>
           entry.applied + Bit(run'[r].pc \in {"claimed", "failing"}) + Open(e)'
               + ledger[e].reclaims + ledger[e].lost
             <= ledger[e].applied + Bit(run[r].pc \in {"claimed", "failing"}) + Open(e)
                  + entry.reclaims + entry.lost
  BY <1>1, <1>4, <1>12, <1>13, <1>14 DEF Entries
<1> QED
  BY <1>1, <1>2, <1>3, <1>4, <1>7, <1>8, <1>9, <1>11, <1>14, <1>15, RunMoveKeeps DEF Entries

(* A claim keeps it: what was reclaimed is counted.                        *)
LEMMA ProcessByIdKeeps ==
  ASSUME IInv, NEW r \in Runs, ProcessById(r)
  PROVE  IInv'
<1>1. PICK e \in Events : e = run[r].e /\ run[r].pc = "taken"
  BY DEF ProcessById, At, IInv, Aux, RunsAreAboutEvents
<1>2. CASE Claim(r, e, TRUE)
  BY <1>1, <1>2, ClaimKeeps DEF ProcessById
<1>3. CASE Goto(r, "done") /\ UNCHANGED <<row, ledger>>
  <2>1. /\ run' \in [Runs -> RunStates] /\ run'[r].pc = "done" /\ run'[r].e = e
        /\ \A s \in Runs \ {r} : run'[s] = run[s]
    BY <1>1, <1>3, GotoMoves DEF IInv, Typed, Steps
  <2>2. Typed' /\ nature' = nature
    BY <1>3, <2>1 DEF ProcessById, IInv, Typed
  <2>3. ~Works(r)' /\ Open(e)' = Open(e)
    BY <1>3, <2>1 DEF Works, Open
  <2>4. /\ ledger[e] \in Entries /\ row[e].retryCount <= ledger[e].failures
        /\ Open(e) \in Nat /\ (nature[e] # "applies" => ledger[e].applied = 0)
    BY <1>1 DEF IInv, Typed, Aux, RetriesAreFailures, NatureIsKept, Open
  <2> QED
    BY <1>1, <1>3, <2>1, <2>2, <2>3, <2>4, RunMoveKeeps DEF Entries, Bit
<1> QED
  BY <1>1, <1>2, <1>3 DEF ProcessById

(* The application keeps it: the chance of the run is used.                *)
LEMMA ApplyEventKeeps ==
  ASSUME IInv, NEW r \in Runs, ApplyEvent(r)
  PROVE  IInv'
<1>1. PICK e \in Events : e = run[r].e /\ run[r].pc = "claimed" /\ Works(r)
  BY DEF ApplyEvent, At, IInv, Aux, RunsAreAboutEvents, Works
<1>2. /\ ledger[e] \in Entries /\ row[e].retryCount <= ledger[e].failures
      /\ run[r].retryCount <= ledger[e].failures
      /\ Open(e) \in Nat /\ (nature[e] # "applies" => ledger[e].applied = 0)
  BY <1>1 DEF IInv, Typed, Aux, RetriesAreFailures, NatureIsKept, ClaimsCountFailures, Open
<1>3. UNCHANGED <<row, nature, inbound, job>> /\ faults' \in Nat
  BY DEF ApplyEvent, Fault, IInv, Typed
<1>4. CASE nature[e] = "applies" /\ Goto(r, "applied") /\ Count(e, "applied")
  <2>1. /\ run' \in [Runs -> RunStates] /\ run'[r].pc = "applied" /\ run'[r].e = e
        /\ run'[r].retryCount = run[r].retryCount
        /\ \A s \in Runs \ {r} : run'[s] = run[s]
    BY <1>1, <1>4, GotoMoves DEF IInv, Typed, Steps
  <2>2. /\ ledger' \in [Events -> Entries]
        /\ \A f \in Events \ {e} : ledger'[f] = ledger[f]
        /\ ledger'[e].reclaims = ledger[e].reclaims
        /\ ledger'[e].applied = ledger[e].applied + 1
        /\ ledger'[e].failures = ledger[e].failures /\ ledger'[e].lost = ledger[e].lost
    BY <1>1, <1>4, CountMoves DEF IInv, Typed
  <2>3. Typed'
    BY <1>3, <2>1, <2>2 DEF IInv, Typed
  <2>4. Open(e)' = Open(e)
    BY <1>3 DEF Open
  <2> QED
    BY <1>1, <1>2, <1>3, <1>4, <2>1, <2>2, <2>3, <2>4, RunMoveKeeps DEF Entries, Bit
<1>5. CASE /\ UNCHANGED ledger
           /\ \/ nature[e] = "ignored" /\ Goto(r, "ignoring")
              \/ Goto(r, "failing")
  <2>1. /\ run' \in [Runs -> RunStates] /\ run'[r].e = e
        /\ run'[r].pc = "failing" \/ (run'[r].pc = "ignoring" /\ nature[e] = "ignored")
        /\ run'[r].retryCount = run[r].retryCount
        /\ \A s \in Runs \ {r} : run'[s] = run[s]
    BY <1>1, <1>5, GotoMoves DEF IInv, Typed, Steps
  <2>2. Typed'
    BY <1>3, <1>5, <2>1 DEF IInv, Typed
  <2>3. Open(e)' = Open(e)
    BY <1>3 DEF Open
  <2> QED
    BY <1>1, <1>2, <1>3, <1>5, <2>1, <2>2, <2>3, RunMoveKeeps DEF Entries, Bit
<1> QED
  BY <1>1, <1>4, <1>5 DEF ApplyEvent

(* Marking the event processed or ignored keeps it.                        *)
LEMMA MarkConcludedKeeps ==
  ASSUME IInv, NEW r \in Runs, MarkConcluded(r)
  PROVE  IInv'
<1>1. PICK e \in Events : e = run[r].e /\ run[r].pc \in {"applied", "ignoring"} /\ Works(r)
  BY DEF MarkConcluded, At, IInv, Aux, RunsAreAboutEvents, Works
<1>2. /\ ledger[e] \in Entries /\ row[e] \in Rows /\ row[e].retryCount <= ledger[e].failures
      /\ run[r].retryCount <= ledger[e].failures
      /\ Open(e) \in Nat /\ (nature[e] # "applies" => ledger[e].applied = 0)
      /\ At(r, "ignoring") => nature[e] = "ignored"
  BY <1>1 DEF IInv, Typed, Aux, RetriesAreFailures, NatureIsKept, ClaimsCountFailures, Open
<1>3. UNCHANGED <<nature, inbound, job>>
  BY DEF MarkConcluded
<1>4. ASSUME NEW status \in {"processed", "ignored"}, Mark(e, status),
             Goto(r, "done"), UNCHANGED <<ledger, faults>>
      PROVE  IInv'
  <2> DEFINE marked == [row[e] EXCEPT !.status = status, !.lease = "none"]
  <2>1. /\ marked \in Rows /\ marked.status = status /\ marked.lease = "none"
        /\ marked.retryCount = row[e].retryCount
    BY <1>2 DEF Rows, RowStatus
  <2>2. row' = [row EXCEPT ![e] = marked]
    BY <1>4 DEF Mark, IInv, Typed
  <2> HIDE DEF marked
  <2>3. row'[e] = marked /\ \A f \in Events \ {e} : row'[f] = row[f]
    BY <2>2 DEF IInv, Typed
  <2>4. /\ run' \in [Runs -> RunStates] /\ run'[r].pc = "done" /\ run'[r].e = e
        /\ \A s \in Runs \ {r} : run'[s] = run[s]
    BY <1>1, <1>4, GotoMoves DEF IInv, Typed, Steps
  <2>5. Typed'
    BY <1>3, <1>4, <2>1, <2>2, <2>4 DEF IInv, Typed
  <2>6. ~Works(r)' /\ Open(e)' = 0
    BY <2>1, <2>3, <2>4 DEF Works, Open
  <2>7. ledger[e].reclaims = 0 => \A s \in Runs \ {r} : Works(s) => run[s].e # e
    BY <1>1 DEF IInv, Aux, OwnerIsAlone
  <2> QED
    BY <1>1, <1>2, <1>3, <1>4, <2>1, <2>3, <2>4, <2>5, <2>6, <2>7, RunMoveKeeps
       DEF Entries, Bit
<1>5. ASSUME Fault, Goto(r, "failing"),
             IF At(r, "applied") THEN Count(e, "lost") ELSE UNCHANGED ledger,
             UNCHANGED row
      PROVE  IInv'
  <2>1. /\ run' \in [Runs -> RunStates] /\ run'[r].pc = "failing" /\ run'[r].e = e
        /\ run'[r].retryCount = run[r].retryCount
        /\ \A s \in Runs \ {r} : run'[s] = run[s]
    BY <1>1, <1>5, GotoMoves DEF IInv, Typed, Steps
  <2>2. /\ ledger' \in [Events -> Entries]
        /\ \A f \in Events \ {e} : ledger'[f] = ledger[f]
        /\ ledger'[e].reclaims = ledger[e].reclaims
        /\ ledger'[e].applied = ledger[e].applied
        /\ ledger'[e].failures = ledger[e].failures
        /\ ledger'[e].lost = ledger[e].lost + Bit(At(r, "applied"))
    <3>1. CASE At(r, "applied")
      <4>1. Count(e, "lost")
        BY <1>5, <3>1
      <4> QED
        BY <3>1, <4>1, CountMoves DEF IInv, Typed, Bit
    <3>2. CASE ~At(r, "applied")
      BY <1>2, <1>5, <3>2 DEF IInv, Typed, Bit, Entries
    <3> QED
      BY <3>1, <3>2
  <2>3. Typed'
    BY <1>3, <1>5, <2>1, <2>2 DEF IInv, Typed, Fault
  <2>4. Open(e)' = Open(e) /\ Works(r)'
    BY <1>5, <2>1 DEF Open, Works
  <2>5. nature[e] = "applies" => At(r, "applied")
    BY <1>1, <1>2 DEF At
  <2> QED
    BY <1>1, <1>2, <1>3, <1>5, <2>1, <2>2, <2>3, <2>4, <2>5, RunMoveKeeps DEF Entries, Bit
<1> QED
  BY <1>1, <1>4, <1>5 DEF MarkConcluded

(* Marking it failed keeps it: the chance of the run goes to the row.      *)
LEMMA MarkFailedForRetryKeeps ==
  ASSUME IInv, NEW r \in Runs, MarkFailedForRetry(r)
  PROVE  IInv'
<1>1. PICK e \in Events : e = run[r].e /\ run[r].pc = "failing" /\ Works(r)
  BY DEF MarkFailedForRetry, At, IInv, Aux, RunsAreAboutEvents, Works
<1>2. /\ ledger[e] \in Entries /\ run[r].retryCount \in Nat
      /\ run[r].retryCount <= ledger[e].failures
      /\ Open(e) \in Nat /\ (nature[e] # "applies" => ledger[e].applied = 0)
  BY <1>1 DEF IInv, Typed, RunStates, Aux, NatureIsKept, ClaimsCountFailures, Open
<1> DEFINE failed == [status |-> "failed", retryCount |-> NextRetry(r), due |-> FALSE,
                      lease |-> "none"]
<1>3. /\ UNCHANGED <<nature, inbound, job, faults>> /\ row' = [row EXCEPT ![e] = failed]
      /\ Count(e, "failures") /\ Goto(r, "done")
  BY <1>1 DEF MarkFailedForRetry
<1>4. PICK new : new = failed
  OBVIOUS
<1>5. /\ new \in Rows /\ new.status = "failed" /\ new.lease = "none"
      /\ new.retryCount = run[r].retryCount + 1
  BY <1>2, <1>4 DEF Rows, RowStatus, NextRetry
<1>6. /\ row' = [row EXCEPT ![e] = new] /\ row'[e] = new
      /\ \A f \in Events \ {e} : row'[f] = row[f]
  BY <1>3, <1>4 DEF IInv, Typed
<1> HIDE DEF failed
<1>7. /\ run' \in [Runs -> RunStates] /\ run'[r].pc = "done" /\ run'[r].e = e
      /\ \A s \in Runs \ {r} : run'[s] = run[s]
  BY <1>1, <1>3, GotoMoves DEF IInv, Typed, Steps
<1>8. /\ ledger' \in [Events -> Entries]
      /\ \A f \in Events \ {e} : ledger'[f] = ledger[f]
      /\ ledger'[e].reclaims = ledger[e].reclaims /\ ledger'[e].lost = ledger[e].lost
      /\ ledger'[e].applied = ledger[e].applied
      /\ ledger'[e].failures = ledger[e].failures + 1
  BY <1>3, CountMoves DEF IInv, Typed
<1>9. Typed'
  <2>1. UNCHANGED <<nature, inbound, job, faults>>
    BY <1>3
  <2> QED
    BY <1>5, <1>6, <1>7, <1>8, <2>1 DEF IInv, Typed
<1>10. ~Works(r)' /\ Open(e)' = 1
  BY <1>5, <1>6, <1>7 DEF Works, Open
<1>11. ledger[e].reclaims = 0 => \A s \in Runs \ {r} : Works(s) => run[s].e # e
  BY <1>1 DEF IInv, Aux, OwnerIsAlone
<1> QED
  BY <1>1, <1>2, <1>3, <1>5, <1>6, <1>7, <1>8, <1>9, <1>10, <1>11, RunMoveKeeps
     DEF Entries, Bit

(* A run that ends or dies: what it applied may be lost.                   *)
LEMMA RunEndsKeeps ==
  ASSUME IInv, NEW r \in Runs, FinishJob(r) \/ RunDies(r)
  PROVE  IInv'
<1>1. PICK e \in Events : e = run[r].e /\ run[r].pc # "idle"
  BY DEF FinishJob, RunDies, At, IInv, Aux, RunsAreAboutEvents
<1>2. /\ ledger[e] \in Entries /\ row[e].retryCount <= ledger[e].failures
      /\ Open(e) \in Nat /\ (nature[e] # "applies" => ledger[e].applied = 0)
  BY <1>1 DEF IInv, Typed, Aux, RetriesAreFailures, NatureIsKept, Open
<1>3. /\ UNCHANGED <<row, nature, inbound>> /\ faults' \in Nat
      /\ job' \in [Events -> JobStates]
      /\ run' = [run EXCEPT ![r] = IdleRun]
  BY <1>1 DEF FinishJob, RunDies, Fault, IInv, Typed, JobStates
<1>4. IdleRun \in RunStates /\ IdleRun.pc = "idle"
  BY DEF IdleRun, RunStates, Steps
<1>5. /\ run' \in [Runs -> RunStates] /\ run'[r].pc = "idle"
      /\ \A s \in Runs \ {r} : run'[s] = run[s]
  BY <1>3, <1>4 DEF IInv, Typed
<1>6. \/ UNCHANGED ledger
      \/ At(r, "applied") /\ Count(e, "lost")
  BY <1>1 DEF FinishJob, RunDies
<1>7. /\ ledger' \in [Events -> Entries]
      /\ \A f \in Events \ {e} : ledger'[f] = ledger[f]
      /\ ledger'[e].reclaims = ledger[e].reclaims
      /\ ledger'[e].applied = ledger[e].applied
      /\ ledger'[e].failures = ledger[e].failures
      /\ ledger'[e].lost \in {ledger[e].lost, ledger[e].lost + 1}
  BY <1>2, <1>6, CountMoves DEF IInv, Typed, Entries
<1>8. Typed'
  BY <1>3, <1>5, <1>7 DEF IInv, Typed
<1>9. ~Works(r)' /\ Open(e)' = Open(e)
  BY <1>3, <1>5 DEF Works, Open
<1> QED
  BY <1>1, <1>2, <1>3, <1>5, <1>7, <1>8, <1>9, RunMoveKeeps DEF Entries, Bit

-----------------------------------------------------------------------------
(* Every step keeps the inductive invariant.                               *)
LEMMA StepInv == IInv /\ [Next]_vars => IInv'
<1> SUFFICES ASSUME IInv, [Next]_vars PROVE IInv'
  OBVIOUS
<1>1. CASE UNCHANGED vars
  <2>1. Typed' /\ RetriesAreFailures'
    BY <1>1 DEF vars, IInv, Typed, Aux, RetriesAreFailures
  <2> QED
    BY <1>1, <2>1, RunsAndLedgerStay DEF vars, Open
<1>2. ASSUME NEW e \in Events,
             \/ HandleInbound(e) \/ EnqueueWake(e) \/ JobStalls(e)
             \/ LeaseExpires(e) \/ LeaseOverrun(e) \/ BecomesDue(e)
      PROVE  IInv'
  BY <1>2, HandleInboundKeeps, QueueKeeps, TimeKeeps
<1>3. ASSUME NEW e \in Events, NEW r \in Runs, TakeJob(r, e)
      PROVE  IInv'
  BY <1>3, TakeJobKeeps
<1>4. ASSUME NEW e \in Events, NEW r \in Runs, ProcessNextDue(r, e)
      PROVE  IInv'
  BY <1>4, ClaimKeeps DEF ProcessNextDue, At
<1>5. ASSUME NEW r \in Runs, ProcessClaimed(r) \/ RunDies(r)
      PROVE  IInv'
  BY <1>5, ProcessByIdKeeps, ApplyEventKeeps, MarkConcludedKeeps,
     MarkFailedForRetryKeeps, RunEndsKeeps DEF ProcessClaimed
<1> QED
  BY <1>1, <1>2, <1>3, <1>4, <1>5 DEF Next

(* The invariant the theorems below rest on.                               *)
LEMMA InvHolds == Spec => []IInv
<1> QED
  BY InitInv, StepInv, PTL DEF Spec

(* TypeOK: rows, runs and the queue have their types, and a row has a lease*)
(* exactly while it is processing (claimById and the mark functions).      *)
THEOREM TypeCorrect == Spec => []TypeOK
<1>1. IInv => TypeOK
  BY DEF IInv, Typed, TypeOK, Rows, RunStates, Steps, Entries
<1> QED
  BY <1>1, InvHolds, PTL

(* LedgerIsSound: an event is applied once, and once more only for each    *)
(* reclaimed lease and each application that was not recorded; the budget  *)
(* of attempts is charged for failures alone.                              *)
THEOREM LedgerIsAlwaysSound == Spec => []LedgerIsSound
<1>1. ASSUME IInv PROVE LedgerIsSound
  <2>1. ASSUME NEW e \in Events
        PROVE  ledger[e].applied <= 1 + ledger[e].reclaims + ledger[e].lost
    <3>1. ledger[e] \in Entries /\ Open(e) \in Nat
      BY <1>1 DEF IInv, Typed, Open
    <3>2. CASE nature[e] = "applies"
      <4>1. IsFiniteSet(Runs)
        BY ConstantsAssumption
      <4>2. IsFiniteSet(Chances(e))
        BY <4>1, FS_Subset DEF Chances
      <4>3. Cardinality(Chances(e)) \in Nat
        BY <4>2, FS_CardinalityType
      <4> QED
        BY <1>1, <3>1, <3>2, <4>3 DEF IInv, ChancesArePaid, Entries
    <3>3. CASE nature[e] # "applies"
      BY <1>1, <3>1, <3>3 DEF IInv, Aux, NatureIsKept, Entries
    <3> QED
      BY <3>2, <3>3
  <2> QED
    BY <1>1, <2>1 DEF LedgerIsSound, ApplicationsHaveACause, IInv, Aux
<1> QED
  BY <1>1, InvHolds, PTL

(* ConcludedIsFinal: a row that is processed, ignored or parked is never   *)
(* touched again unless its lease was lost to another worker.              *)
THEOREM ConcludedStaysFinal == Spec => ConcludedIsFinal
<1>1. ASSUME IInv, [Next]_vars, NEW e \in Events, Concluded(e), ledger[e].reclaims = 0
      PROVE  row'[e] = row[e]
  <2>1. \A r \in Runs : Works(r) => run[r].e # e
    BY <1>1 DEF IInv, Aux, OwnerIsAlone, Concluded, Parked
  <2>2. ~Claimable(e) /\ row[e].status \notin {"none", "processing"}
        /\ row[e].lease = "none"
    BY <1>1 DEF Concluded, Parked, Claimable, IInv, Typed
  <2>3. ASSUME NEW f \in Events,
               \/ HandleInbound(f) \/ EnqueueWake(f) \/ JobStalls(f)
               \/ LeaseExpires(f) \/ LeaseOverrun(f) \/ BecomesDue(f)
        PROVE  row'[e] = row[e]
    <3>1. CASE f # e
      BY <1>1, <2>3, <3>1 DEF HandleInbound, EnqueueWake, JobStalls, LeaseExpires,
                              LeaseOverrun, BecomesDue, IInv, Typed
    <3>2. CASE f = e
      BY <1>1, <2>2, <2>3, <3>2 DEF HandleInbound, EnqueueWake, JobStalls, LeaseExpires,
                                    LeaseOverrun, BecomesDue, Concluded
    <3> QED
      BY <3>1, <3>2
  <2>4. ASSUME NEW f \in Events, NEW r \in Runs, NEW holds, Claim(r, f, holds)
        PROVE  row'[e] = row[e]
    BY <1>1, <2>2, <2>4 DEF Claim, IInv, Typed
  <2>5. ASSUME NEW f \in Events, NEW r \in Runs, TakeJob(r, f) \/ ProcessNextDue(r, f)
        PROVE  row'[e] = row[e]
    BY <2>4, <2>5 DEF TakeJob, ProcessNextDue
  <2>6. ASSUME NEW r \in Runs, ProcessById(r)
        PROVE  row'[e] = row[e]
    BY <1>1, <2>4, <2>6 DEF ProcessById, At, IInv, Aux, RunsAreAboutEvents
  <2>7. ASSUME NEW r \in Runs,
               ApplyEvent(r) \/ MarkConcluded(r) \/ MarkFailedForRetry(r)
        PROVE  row'[e] = row[e]
    <3>1. Works(r)
      BY <2>7 DEF ApplyEvent, MarkConcluded, MarkFailedForRetry, Works, At
    <3>2. run[r].e # e
      BY <2>1, <3>1
    <3> QED
      BY <1>1, <2>7, <3>2 DEF ApplyEvent, MarkConcluded, MarkFailedForRetry, Mark, IInv, Typed
  <2>8. ASSUME NEW r \in Runs, FinishJob(r) \/ RunDies(r)
        PROVE  row'[e] = row[e]
    BY <2>8 DEF FinishJob, RunDies
  <2> QED
    BY <1>1, <2>3, <2>5, <2>6, <2>7, <2>8 DEF Next, vars, ProcessClaimed
<1>2. IInv /\ [Next]_vars =>
        [\A e \in Events : Concluded(e) /\ ledger[e].reclaims = 0 => row'[e] = row[e]]_vars
  BY <1>1
<1> QED
  BY <1>2, InvHolds, PTL DEF Spec, ConcludedIsFinal
=============================================================================
