------------------------------- MODULE Storage -------------------------------
(***************************************************************************)
(* The media storage of one organization: organization_storage_objects and *)
(* the contents in S3, the quota counters, uploads, soft deletes, restores *)
(* and purges by the owner, and the lifecycle cron that expires uploads,   *)
(* purges, retries deletes and reconciles the counters                     *)
(* (services/media_asset_service.ts, storage_quota_service.ts,             *)
(* storage_lifecycle_service.ts).                                          *)
(*                                                                         *)
(* Calls to S3 are outside transactions.  The media_assets row follows its *)
(* object; every test of it is repeated by a conditional update of the     *)
(* object, so it has no variable.                                          *)
(***************************************************************************)
EXTENDS Integers, FiniteSetsExt

CONSTANTS
  NumObjects,    \* rows of organization_storage_objects, in order of creation
  Logos,         \* the objects uploaded under the one key of the profile logo
  Size,          \* sizeBytes of each object
  Limits,        \* possible storageBytes entitlements
  Workers,       \* deletions under way: requests of the owner and cron jobs
  None,          \* no object, no key
  MaxFaults      \* bound on failures of the environment, for TLC

Objects == 1..NumObjects
LogoKey == 0
UploadKey(i) == IF i \in Logos THEN LogoKey ELSE i
Keys == {UploadKey(i) : i \in Objects}

ASSUME ConstantsAssumption ==
  /\ {NumObjects, MaxFaults} \cup Limits \subseteq Nat
  /\ Logos \subseteq Objects
  /\ Size \in [Objects -> Nat \ {0}]
  /\ None \notin Nat

VARIABLES
  object,     \* the rows
  content,    \* whose upload is stored under a key in S3
  upload,     \* the client of an upload, and its completeUpload request
  usage,      \* the entitlement, and organization_storage_usages
  deleter,    \* what the workers do
  reconciler, \* reconcile, between its statements
  history,    \* why counters or contents may be off
  faults

vars == <<object, content, upload, usage, deleter, reconciler, history, faults>>

-----------------------------------------------------------------------------
States == {"none", "pending_upload", "ready", "failed", "deleted", "purged"}
NoObject == [state |-> "none", old |-> FALSE, due |-> FALSE, purgedAt |-> FALSE,
             retry |-> FALSE, replaced |-> FALSE]
IdleDeleter == [pc |-> "idle", i |-> None, key |-> None]
IdleReconciler == [pc |-> "idle", ready |-> 0, reserved |-> 0, raced |-> FALSE]

TypeOK ==
  /\ object \in [Objects -> [state: States,
                             old: BOOLEAN,       \* createdAt is a day ago
                             due: BOOLEAN,       \* purgeAfter has come
                             purgedAt: BOOLEAN,  \* purgedAt is not null
                             retry: BOOLEAN,     \* a delete failed before
                             replaced: BOOLEAN]] \* retireStorageKey renamed it
  /\ content \in [Keys -> Objects \cup {None}]
  /\ upload \in [Objects -> {"none", "presigning", "open", "verified"}]
  /\ usage \in [limit: Limits, ready: Nat, reserved: Nat]
  /\ deleter \in [Workers -> [pc: {"idle", "listed", "deleting", "marking",
                                   "expiring", "failing"},
                              i: Objects \cup {None}, key: Keys \cup {None}]]
  /\ reconciler \in [pc: {"idle", "retained", "reserved"}, ready: Nat, reserved: Nat,
                     raced: BOOLEAN]
  /\ history \in [skewed: BOOLEAN, everSkewed: BOOLEAN, overtaken: SUBSET Objects]
  /\ faults \in Nat

Init ==
  /\ object = [i \in Objects |-> NoObject]
  /\ content = [k \in Keys |-> None]
  /\ upload = [i \in Objects |-> "none"]
  /\ usage \in [limit: Limits, ready: {0}, reserved: {0}]
  /\ deleter = [w \in Workers |-> IdleDeleter]
  /\ reconciler = IdleReconciler
  /\ history = [skewed |-> FALSE, everSkewed |-> FALSE, overtaken |-> {}]
  /\ faults = 0

-----------------------------------------------------------------------------
Fault == faults < MaxFaults /\ faults' = faults + 1
In(states) == {i \in Objects : object[i].state \in states}
Bytes(i) == {i} \X (1..Size[i])
BytesOf(set) == Cardinality(UNION {Bytes(i) : i \in set})

(* sumRetainedBytes, sumReservedBytes                                      *)
Retained == BytesOf(In({"ready", "deleted"}))
Reserved == BytesOf(In({"pending_upload"}))

(* The key of a row as it is now; nothing is stored under a renamed one.   *)
KeyOf(i) == IF object[i].replaced THEN None ELSE UploadKey(i)

(* History: a commit that changes counters or sums while reconcile has read*)
(* sums and not yet written them.                                          *)
Races == reconciler' = [reconciler EXCEPT !.raced = @ \/ reconciler.pc # "idle"]

(* History: a commit that changes counters and rows differently.           *)
Skews(differently) ==
  history' = [history EXCEPT !.skewed = @ \/ differently,
                             !.everSkewed = @ \/ differently]

(* History: rows whose content may be gone, until they are purged.         *)
Overtakes(rows) ==
  history' = [history EXCEPT !.overtaken =
               @ \cup (rows \cap In({"pending_upload", "ready", "deleted"}))]

(* History: whether a deletion has its eye on the object.                  *)
Watched(i) == \E w \in Workers : deleter[w].i = i /\ deleter[w].pc # "listed"

(* The counters change only if they are large enough.                      *)
Confirmed(n) == IF usage.reserved >= n
                  THEN [usage EXCEPT !.ready = @ + n, !.reserved = @ - n]
                  ELSE usage
ReservationReleased(n) == IF usage.reserved >= n
                            THEN [usage EXCEPT !.reserved = @ - n] ELSE usage

ReadyReleased(n) == IF usage.ready >= n THEN [usage EXCEPT !.ready = @ - n] ELSE usage

-----------------------------------------------------------------------------
(* Mutant: what is stored already is not counted.                          *)
FitsReserved(n) == usage.reserved + n <= usage.limit

(* tryReserve                                                              *)
Fits(n) == usage.ready + usage.reserved + n <= usage.limit

(* retireStorageKey: the rows under the key of the logo, whatever state    *)
(* they are in, are renamed and deleted.                                   *)
Retired(i) == IF i \in Logos THEN {j \in Logos : /\ object[j].state # "none"
                                                 /\ ~object[j].replaced} ELSE {}

(* The transaction of initiateUpload.                                      *)
InitiateUpload(i) ==
  /\ object[i].state = "none" /\ (i > 1 => object[i - 1].state # "none")
  /\ Fits(Size[i])
  /\ usage' = [usage EXCEPT !.reserved = @ + Size[i]]
  /\ object' = [j \in Objects |->
                 IF j = i THEN [NoObject EXCEPT !.state = "pending_upload"]
                 ELSE IF j \in Retired(i)
                   THEN [object[j] EXCEPT !.state = "deleted", !.due = FALSE,
                                          !.replaced = TRUE]
                 ELSE object[j]]
  /\ Skews(\E j \in Retired(i) : object[j].state \notin {"ready", "deleted"})
  /\ upload' = [upload EXCEPT ![i] = "presigning"]
  /\ Races
  /\ UNCHANGED <<content, deleter, faults>>

(* The upload is presigned, or that fails and the reservation is released. *)
Presign(i) ==
  /\ upload[i] = "presigning"
  /\ \/ /\ upload' = [upload EXCEPT ![i] = "open"]
        /\ UNCHANGED <<object, usage, reconciler, history, faults>>
     \/ /\ Fault
        /\ upload' = [upload EXCEPT ![i] = "none"]
        /\ Skews(object[i].state # "pending_upload")
        /\ object' = [object EXCEPT ![i].state = IF @ = "pending_upload" THEN "failed"
                                                 ELSE @]
        /\ usage' = ReservationReleased(Size[i])
        /\ Races
  /\ UNCHANGED <<content, deleter>>

(* The client writes to S3 with its presigned URL, for a quarter of an     *)
(* hour, also when the row has been replaced meanwhile.                    *)
PutObject(i) ==
  /\ upload[i] = "open"
  /\ ~object[i].old
  /\ content[UploadKey(i)] # i
  /\ content' = [content EXCEPT ![UploadKey(i)] = i]
  /\ Overtakes({j \in Logos : i \in Logos /\ j # i})
  /\ UNCHANGED <<object, upload, usage, deleter, reconciler, faults>>

(* completeUpload finds an object of the right size and type, which may be *)
(* what another upload left under the key of the logo ...                  *)
VerifyUpload(i) ==
  /\ upload[i] = "open"
  /\ object[i].state = "pending_upload"
  /\ content[KeyOf(i)] # None
  /\ upload' = [upload EXCEPT ![i] = "verified"]
  /\ Overtakes({j \in {i} : content[KeyOf(j)] # j})
  /\ UNCHANGED <<object, content, usage, deleter, reconciler, faults>>

(* ... and in its transaction makes the row ready if it is still pending.  *)
CompleteUpload(i) ==
  /\ upload[i] = "verified"
  /\ upload' = [upload EXCEPT ![i] = "none"]
  /\ IF object[i].state = "pending_upload"
       THEN /\ object' = [object EXCEPT ![i].state = "ready"]
            /\ usage' = Confirmed(Size[i])
            /\ Overtakes({j \in {i} : Watched(j)})
            /\ Races
       ELSE UNCHANGED <<object, usage, history, reconciler>>
  /\ UNCHANGED <<content, deleter, faults>>

-----------------------------------------------------------------------------
(* softDelete.  It refuses an object that messages or campaigns refer to;  *)
(* references have no variable, and a refusal is a step that is not taken. *)
SoftDelete(i) ==
  /\ object[i].state = "ready"
  /\ object' = [object EXCEPT ![i].state = "deleted", ![i].due = FALSE]
  /\ UNCHANGED <<content, upload, usage, deleter, reconciler, history, faults>>

(* Mutant: a purged object can be restored.                                *)
RestorablePurged(i) == object[i].state \in {"deleted", "purged"}

Restorable(i) == object[i].state = "deleted" /\ ~object[i].purgedAt

Restore(i) ==
  /\ Restorable(i)
  /\ object' = [object EXCEPT ![i].state = "ready", ![i].due = FALSE]
  /\ history' = [history EXCEPT !.overtaken =
                  IF Watched(i) \/ object[i].replaced THEN @ \cup {i} ELSE @]
  /\ Races
  /\ UNCHANGED <<content, upload, usage, deleter, faults>>

(* purge by the owner; a ready object is soft-deleted first, unless it is  *)
(* referred to.  Of a deleted one neither the owner nor the cron asks that.*)
Purge(w, i) ==
  /\ deleter[w].pc = "idle"
  /\ object[i].state \in {"ready", "deleted"}
  /\ object' = [object EXCEPT ![i].state = "deleted",
                              ![i].due = @ /\ object[i].state = "deleted"]
  /\ deleter' = [deleter EXCEPT ![w] = [pc |-> "deleting", i |-> i, key |-> KeyOf(i)]]
  /\ UNCHANGED <<content, upload, usage, reconciler, history, faults>>

(* Mutant: only rows whose delete has failed before are listed.            *)
PurgeableRetries(i) ==
  object[i].state \in {"deleted", "failed"} /\ object[i].retry /\ ~object[i].purgedAt

(* listDueForPurge, listFailedDeletes                                      *)
Purgeable(i) ==
  /\ ~object[i].purgedAt
  /\ \/ object[i].state = "deleted" /\ object[i].due
     \/ object[i].state \in {"deleted", "failed"} /\ object[i].retry

(* The cron lists the objects to purge; purgeStorageObject reads each again*)
CronLists(w, i) ==
  /\ deleter[w].pc = "idle"
  /\ Purgeable(i)
  /\ deleter' = [deleter EXCEPT ![w] = [pc |-> "listed", i |-> i, key |-> None]]
  /\ UNCHANGED <<object, content, upload, usage, reconciler, history, faults>>

CronReads(w) ==
  LET i == deleter[w].i IN
  /\ deleter[w].pc = "listed"
  /\ deleter' = [deleter EXCEPT ![w] =
                  IF object[i].state = "deleted"
                    THEN [pc |-> "deleting", i |-> i, key |-> KeyOf(i)]
                    ELSE IdleDeleter]
  /\ UNCHANGED <<object, content, upload, usage, reconciler, history, faults>>

(* listExpiredPending                                                      *)
Abandoned(i) == object[i].state = "pending_upload" /\ object[i].old
CronExpires(w, i) ==
  /\ deleter[w].pc = "idle"
  /\ Abandoned(i)
  /\ deleter' = [deleter EXCEPT ![w] = [pc |-> "expiring", i |-> i, key |-> KeyOf(i)]]
  /\ UNCHANGED <<object, content, upload, usage, reconciler, history, faults>>

(* deleteObject, under the key that was read.  A purge that fails is       *)
(* recorded; an expiry goes on.                                            *)
DeleteObject(w) ==
  LET i == deleter[w].i  key == deleter[w].key
      Goto(pc) == deleter' = [deleter EXCEPT ![w].pc = pc] IN
  /\ \/ /\ deleter[w].pc \in {"deleting", "expiring"}
        /\ content' = [k \in Keys |-> IF k = key THEN None ELSE content[k]]
        /\ Overtakes({j \in Logos \ {i} : key = LogoKey})
        /\ Goto(IF deleter[w].pc = "deleting" THEN "marking" ELSE "failing")
        /\ UNCHANGED <<object, faults>>
     \/ /\ deleter[w].pc = "deleting"
        /\ Fault
        /\ object' = [object EXCEPT ![i].retry = TRUE]
        /\ deleter' = [deleter EXCEPT ![w] = IdleDeleter]
        /\ UNCHANGED <<content, history>>
     \/ /\ deleter[w].pc = "expiring"
        /\ Fault
        /\ Goto("failing")
        /\ UNCHANGED <<object, content, history>>
  /\ UNCHANGED <<upload, usage, reconciler>>

(* The transaction of #hardDeleteStorageObject.                            *)
MarkPurged(w) ==
  LET i == deleter[w].i IN
  /\ deleter[w].pc = "marking"
  /\ deleter' = [deleter EXCEPT ![w] = IdleDeleter]
  /\ IF object[i].state \in {"deleted", "failed", "pending_upload"}
       THEN /\ object' = [object EXCEPT ![i].state = "purged", ![i].purgedAt = TRUE,
                                        ![i].retry = FALSE]
            /\ usage' = ReadyReleased(Size[i])
            /\ history' = [history EXCEPT !.overtaken = @ \ {i}]
            /\ Races
       ELSE UNCHANGED <<object, usage, reconciler, history>>
  /\ UNCHANGED <<content, upload, faults>>

(* The transaction of #expirePendingObject.                                *)
MarkFailed(w) ==
  LET i == deleter[w].i IN
  /\ deleter[w].pc = "failing"
  /\ deleter' = [deleter EXCEPT ![w] = IdleDeleter]
  /\ IF object[i].state = "pending_upload"
       THEN /\ object' = [object EXCEPT ![i].state = "failed"]
            /\ usage' = ReservationReleased(Size[i])
            /\ Races
       ELSE UNCHANGED <<object, usage, reconciler>>
  /\ UNCHANGED <<content, upload, history, faults>>

(* A worker dies, perhaps between the deletion and its record.             *)
WorkerDies(w) ==
  /\ deleter[w].pc # "idle"
  /\ Fault
  /\ deleter' = [deleter EXCEPT ![w] = IdleDeleter]
  /\ Overtakes({i \in {deleter[w].i} : deleter[w].pc \in {"marking", "failing"}})
  /\ UNCHANGED <<object, content, upload, usage, reconciler>>

-----------------------------------------------------------------------------
(* reconcile sums the retained bytes, then the reserved ones, then writes. *)
Reconcile ==
  /\ \/ /\ reconciler.pc = "idle"
        /\ reconciler' = [IdleReconciler EXCEPT !.pc = "retained", !.ready = Retained]
        /\ UNCHANGED <<usage, history>>
     \/ /\ reconciler.pc = "retained"
        /\ reconciler' = [reconciler EXCEPT !.pc = "reserved", !.reserved = Reserved]
        /\ UNCHANGED <<usage, history>>
     \/ /\ reconciler.pc = "reserved"
        /\ usage' = [usage EXCEPT !.ready = reconciler.ready,
                                 !.reserved = reconciler.reserved]
        /\ history' = [history EXCEPT !.skewed = reconciler.raced,
                                      !.everSkewed = @ \/ reconciler.raced]
        /\ reconciler' = IdleReconciler
  /\ UNCHANGED <<object, content, upload, deleter, faults>>

(* A day passes for an upload, thirty for a deleted object.                *)
TimePasses(i) ==
  /\ \/ /\ object[i].state = "pending_upload" /\ ~object[i].old
        /\ object' = [object EXCEPT ![i].old = TRUE]
     \/ /\ object[i].state = "deleted" /\ ~object[i].due
        /\ object' = [object EXCEPT ![i].old = TRUE, ![i].due = TRUE]
  /\ UNCHANGED <<content, upload, usage, deleter, reconciler, history, faults>>

-----------------------------------------------------------------------------
Delete(w) == DeleteObject(w) \/ MarkPurged(w) \/ MarkFailed(w) \/ CronReads(w)
Next ==
  \/ \E i \in Objects :
       \/ InitiateUpload(i) \/ Presign(i) \/ PutObject(i) \/ VerifyUpload(i)
       \/ CompleteUpload(i) \/ SoftDelete(i) \/ Restore(i) \/ TimePasses(i)
       \/ \E w \in Workers : Purge(w, i) \/ CronLists(w, i) \/ CronExpires(w, i)
  \/ \E w \in Workers : Delete(w) \/ WorkerDies(w)
  \/ Reconcile

Spec == Init /\ [][Next]_vars

(* The crons run every five and fifteen minutes, and list the oldest rows  *)
(* first; calls to S3 return; time passes.                                 *)
Fairness ==
  /\ \A i \in Objects : /\ WF_vars(TimePasses(i))
                        /\ SF_vars(\E w \in Workers : CronLists(w, i))
                        /\ SF_vars(\E w \in Workers : CronExpires(w, i))
  /\ \A w \in Workers : WF_vars(Delete(w))

FairSpec == Spec /\ Fairness

-----------------------------------------------------------------------------
(* The counters are the sums over the rows, across reservations, failed    *)
(* presigns, expiries, purges and retries - unless reconcile wrote sums    *)
(* that were out of date, or a logo was replaced that was not ready.       *)
CountersFollowObjects ==
  ~history.skewed => usage.ready = Retained /\ usage.reserved = Reserved

(* What is stored or being uploaded stays within the plan, under any number*)
(* of concurrent uploads, as long as the counters have never been off.     *)
WithinLimit == ~history.everSkewed => Retained + Reserved <= usage.limit

(* A ready object is in S3 - unless it became ready while a deletion was   *)
(* under way or after one that died before its record, or another upload   *)
(* wrote or deleted the key of the logo.                                   *)
ReadyIsStored ==
  \A i \in Objects : object[i].state = "ready" /\ i \notin history.overtaken =>
                       content[UploadKey(i)] = i

(* What is past its grace is purged or restored in the end, in spite of    *)
(* failing deletes and dead workers.                                       *)
Overdue(i) == object[i].state = "deleted" /\ object[i].due /\ ~object[i].purgedAt
DueIsPurged == \A i \in Objects : Overdue(i) ~> ~Overdue(i)

(* No upload stays pending, not even one whose initiateUpload died before  *)
(* it had presigned it: its reservation would be held for ever.            *)
UploadsEnd ==
  \A i \in Objects : object[i].state = "pending_upload" ~>
                       object[i].state # "pending_upload"

(* The usage row is sound (tryReserve, confirm and release, reconcile).    *)
UsageIsSound == TypeOK /\ CountersFollowObjects /\ WithinLimit

(* Nothing is left half way (the two storage crons).                       *)
StorageSettles == DueIsPurged /\ UploadsEnd

=============================================================================
