--------------------------- MODULE NonAdminBackup ---------------------------
(***************************************************************************)
(* The NonAdminBackup reconciler of internal/controller/                   *)
(* nonadminbackup_controller.go together with the parts of the cluster it  *)
(* talks to: the API server (NonAdminBackup, NonAdminRestore objects), the *)
(* backup engine (Velero Backup and DeleteBackupRequest objects), the      *)
(* informer cache the controller reads from, the work queue, the tenant    *)
(* and Velero itself.                                                      *)
(*                                                                         *)
(* A reconcile pass is the list of step functions Reconcile selects; each  *)
(* step is one action, and a step that makes two API writes is split in   *)
(* two actions, because every API call is a point where the other actors  *)
(* may move.  Passes of one key are serialised (one work-queue item per    *)
(* key); passes of different keys run concurrently.                       *)
(***************************************************************************)
EXTENDS Naturals, Sequences, FiniteSets

CONSTANTS
  Nabs,          \* NonAdminBackup keys (namespace/name)
  Namespaces,    \* tenant namespaces
  NsOf,          \* the tenant namespace of each key
  UUIDs,         \* NACUUID values (also the Velero Backup names)
  None,          \* absent value
  Invalid,       \* a sync label that is present but not a valid value
  SyncLabels,    \* [Nabs -> SUBSET (UUIDs \cup {Invalid})]: labels a tenant may set
  PreExisting,   \* [UUIDs -> Nabs \cup {None, Foreign}]: Velero Backups that
                 \* exist at start, by origin: left by an earlier
                 \* NonAdminBackup of a key, or annotated with a namespace
                 \* no modelled key lives in (Foreign)
  CachedReads,   \* TRUE: Get/List are served by the informer cache
  MaxEdits,      \* bound on tenant spec edits
  MaxFaults,     \* bound on transient API failures
  MaxDeleteRequests \* bound on DeleteBackupRequests per UUID

ASSUME NsOf \in [Nabs -> Namespaces]
ASSUME SyncLabels \in [Nabs -> SUBSET (UUIDs \cup {Invalid})]
\* The origin-namespace annotation of a Backup no modelled key owns.
Foreign == "foreign"

ASSUME PreExisting \in [UUIDs -> Nabs \cup {None, Foreign}]
ASSUME CachedReads \in BOOLEAN /\ MaxEdits \in Nat /\ MaxFaults \in Nat
       /\ MaxDeleteRequests \in Nat \ {0}

VARIABLES
  nab,        \* API server: NonAdminBackup objects
  nars,       \* API server: is there a NonAdminRestore naming the key's backup
  backups,    \* API server: Velero Backups in the OADP namespace, by name=UUID
  dbrs,       \* API server: DeleteBackupRequests labelled with each UUID
  cnab, cbackups, cdbrs,  \* informer cache of the three kinds
  queue,      \* work queue: key is dirty
  todo,       \* remaining steps of the key's running pass
  local,      \* the pass's in-memory NonAdminBackup (the `nab` pointer)
  seen,       \* Velero Backup phase read by the running pass
  seenDbr,    \* DeleteBackupRequest status read by the running pass
  edits,      \* tenant spec edits so far
  faults      \* transient API failures so far

server  == <<nab, nars, backups, dbrs>>
cache   == <<cnab, cbackups, cdbrs>>
ctrl    == <<queue, todo, local, seen, seenDbr>>
vars    == <<server, cache, ctrl, edits, faults>>

Phases       == {"", "New", "BackingOff", "Created", "Deleting"}
BackupPhases == {"New", "InProgress", "Completed"}
Velero       == "velero"   \* Velero's own garbage collection

(***************************************************************************)
(* Object shapes.  A NonAdminBackup is metadata, spec and status; the      *)
(* status abstracts conditions to their status values and the engine       *)
(* mirror to the mirrored Backup phase.                                    *)
(***************************************************************************)
NabMeta == [state: {"Absent", "Present", "Gone"}, rv: Nat, deleting: BOOLEAN,
         finalizer: BOOLEAN, sync: UUIDs \cup {Invalid, None}]
NabSpec == [valid: BOOLEAN, deleteBackup: BOOLEAN]
NabStatus == [phase: Phases, accepted: {None, "True", "False"}, queued: BOOLEAN,
           deletingCond: {None, "Graceful", "Direct"}, uuid: UUIDs \cup {None},
           mirror: BackupPhases \cup {None}, dbrRef: BOOLEAN, dbrProcessed: BOOLEAN]
NabRec == [meta: NabMeta, spec: NabSpec, status: NabStatus]
BackupRec == [exists: BOOLEAN, origin: Nabs \cup {None, Foreign}, creator: Nabs \cup {None},
              phase: BackupPhases, removedBy: Nabs \cup {None, Velero},
              dataDeleted: BOOLEAN, reborn: BOOLEAN]
DbrRec == [n: 0..MaxDeleteRequests, processed: BOOLEAN, by: Nabs \cup {None}]

EmptyStatus == [phase |-> "", accepted |-> None, queued |-> FALSE,
                deletingCond |-> None, uuid |-> None, mirror |-> None,
                dbrRef |-> FALSE, dbrProcessed |-> FALSE]
AbsentNab == [meta |-> [state |-> "Absent", rv |-> 0, deleting |-> FALSE,
                        finalizer |-> FALSE, sync |-> None],
              spec |-> [valid |-> TRUE, deleteBackup |-> FALSE],
              status |-> EmptyStatus]
NoBackup == [exists |-> FALSE, origin |-> None, creator |-> None, phase |-> "New",
             removedBy |-> None, dataDeleted |-> FALSE, reborn |-> FALSE]
NoDbr == [n |-> 0, processed |-> FALSE, by |-> None]

\* Reads go to the informer cache when the manager's client is cached.
NabView    == IF CachedReads THEN cnab ELSE nab
BackupView == IF CachedReads THEN cbackups ELSE backups
DbrView    == IF CachedReads THEN cdbrs ELSE dbrs

\* UUIDs already in use anywhere; GenerateNacObjectUUID returns a fresh one
\* (which one does not matter: UUIDs are interchangeable).
UsedUUIDs == {nab[k].status.uuid : k \in Nabs} \cup {nab[k].meta.sync : k \in Nabs}
             \cup {u \in UUIDs : backups[u].exists \/ backups[u].removedBy # None}

SyncLabelValid(o) == o.meta.sync \in UUIDs

(***************************************************************************)
(* The step lists of the four reconcile paths, in the code's order.        *)
(***************************************************************************)
GracefulDeleteSteps == <<"markDeleting", "callDelete", "deleteNonAdminRestores",
                         "createVeleroDeleteBackupRequest", "updateDeleteBackupRequestStatus">>
DirectDeleteSteps == <<"setStatusForDirectKubernetesAPIDeletion",
                       "deleteDeleteBackupRequestObjects", "deleteVeleroBackupObjects">>
SyncSteps == <<"setBackupUUIDInStatus", "setFinalizerOnNonAdminBackup",
               "createVeleroBackup", "syncVeleroBackupStatus">>
CreateSteps == <<"initNabCreate", "validateSpec">> \o SyncSteps

PathOf(o) ==
  CASE o.spec.deleteBackup -> GracefulDeleteSteps
    [] o.meta.deleting     -> DirectDeleteSteps
    [] SyncLabelValid(o)   -> SyncSteps
    [] OTHER               -> CreateSteps

\* When reads bypass the cache, the informers only deliver events; their lag
\* then changes nothing but the moment a key is enqueued, so they are let
\* catch up before any other actor moves.
Ready == CachedReads \/ (cnab = nab /\ cbackups = backups /\ cdbrs = dbrs)

(***************************************************************************)
(* Outcomes of a step.                                                     *)
(***************************************************************************)
At(k, s)    == Ready /\ todo[k] # <<>> /\ Head(todo[k]) = s
Continue(k) == todo' = [todo EXCEPT ![k] = Tail(@)] /\ UNCHANGED queue
EndPass(k)  == todo' = [todo EXCEPT ![k] = <<>>] /\ UNCHANGED queue
\* An error (retried with backoff) or Result{Requeue: true}.
Retry(k)    == todo' = [todo EXCEPT ![k] = <<>>] /\ queue' = [queue EXCEPT ![k] = TRUE]

(***************************************************************************)
(* API writes on the NonAdminBackup.  Update and Status().Update carry the *)
(* resourceVersion of the object they send and fail with a conflict when   *)
(* it is stale, or NotFound when the object is gone; a write that changes  *)
(* nothing leaves the resourceVersion alone.  On success the object sent   *)
(* is refreshed with the server's answer.                                  *)
(***************************************************************************)
Fresh(k, base) == nab[k].meta.state = "Present" /\ nab[k].meta.rv = base.meta.rv

Bumped(old, new) == IF old = new THEN old ELSE [new EXCEPT !.meta.rv = old.meta.rv + 1]

\* Status().Update(ctx, base with status st)
WriteStatus(k, base, st, next) ==
  \/ /\ Fresh(k, base)
     /\ LET new == Bumped(nab[k], [nab[k] EXCEPT !.status = st])
        IN /\ nab' = [nab EXCEPT ![k] = new]
           /\ local' = [local EXCEPT ![k] = new]
     /\ next
  \/ /\ ~Fresh(k, base)
     /\ Retry(k)
     /\ UNCHANGED <<nab, local>>

\* Update(ctx, base) writing the finalizer; removing the last finalizer of
\* an object with a deletionTimestamp lets the API server delete it.
WriteFinalizer(k, base, fin, next) ==
  \/ /\ Fresh(k, base)
     /\ LET set == [nab[k] EXCEPT !.meta.finalizer = fin]
            new == IF ~fin /\ set.meta.deleting
                   THEN [set EXCEPT !.meta.state = "Gone"] ELSE set
        IN /\ nab' = [nab EXCEPT ![k] = Bumped(nab[k], new)]
           /\ local' = [local EXCEPT ![k] = nab'[k]]
     /\ next
  \/ /\ ~Fresh(k, base)
     /\ Retry(k)
     /\ UNCHANGED <<nab, local>>


\* Status().Update only when the computed status differs from the one held.
UpdateStatusIfChanged(k, base, st, next) ==
  \/ st # base.status /\ WriteStatus(k, base, st, next)
  \/ st = base.status /\ next /\ UNCHANGED <<nab, local>>

\* updateNonAdminPhase and the two mirror helpers set one part of the
\* in-memory status; whether anything changed is the status comparison made
\* before writing (UpdateStatusIfChanged, SyncVeleroBackupStatus,
\* UpdateDeleteBackupRequestStatus).  The Backup's spec and status are
\* mirrored as its phase, the request's status as whether it was processed.
UpdateNonAdminPhase(st, p) == [st EXCEPT !.phase = p]
UpdateVeleroBackupSpecStatus(st, p) == [st EXCEPT !.mirror = p]
UpdateNonAdminBackupDeleteBackupRequestStatus(st, processed) == [st EXCEPT !.dbrProcessed = processed]

\* Delete(ctx, nab): no precondition; with a finalizer it only stamps the
\* deletionTimestamp, without one the object is removed at once.
Deleted(r) ==
  CASE ~r.meta.finalizer -> [r EXCEPT !.meta.state = "Gone", !.meta.rv = @ + 1]
    [] r.meta.deleting   -> r
    [] OTHER             -> [r EXCEPT !.meta.deleting = TRUE, !.meta.rv = @ + 1]

OriginNs(b) == IF b.origin \in Nabs THEN NsOf[b.origin] ELSE b.origin

\* setBackupUUIDInStatus: the sync label's value when the label is present
\* (valid or not: an invalid value leaves NACUUID empty), otherwise a fresh
\* random UUID.
NewUUID(o) ==
  CASE o.meta.sync \in UUIDs  -> {o.meta.sync}
    [] o.meta.sync = Invalid  -> {None}
    [] OTHER                  -> {CHOOSE u \in UUIDs \ UsedUUIDs : TRUE}

-----------------------------------------------------------------------------
(***************************************************************************)
(* The reconciler.                                                         *)
(***************************************************************************)

\* Reconcile: take the key from the work queue, Get the object, pick a path.
Begin(k) ==
  LET o == NabView[k] IN
  /\ Ready /\ queue[k] /\ todo[k] = <<>>
  /\ queue' = [queue EXCEPT ![k] = FALSE]
  /\ \/ /\ o.meta.state # "Present"
        /\ UNCHANGED <<todo, local>>
     \/ /\ o.meta.state = "Present"
        /\ local' = [local EXCEPT ![k] = o]
        /\ todo' = [todo EXCEPT ![k] = PathOf(o)]
  /\ UNCHANGED <<server, cache, seen, seenDbr, edits, faults>>

InitNabCreate(k) ==
  LET o == local[k] IN
  /\ At(k, "initNabCreate")
  /\ \/ /\ o.status.phase # ""
        /\ Continue(k) /\ UNCHANGED <<nab, local>>
     \/ /\ o.status.phase = ""
        /\ WriteStatus(k, o, UpdateNonAdminPhase(o.status, "New"), Continue(k))
  /\ UNCHANGED <<nars, backups, dbrs, cache, seen, seenDbr, edits, faults>>

\* A rejected spec is a terminal error: the pass ends without a requeue.
ValidateSpec(k) ==
  LET o == local[k]
      rejected == [UpdateNonAdminPhase(o.status, "BackingOff") EXCEPT !.accepted = "False"]
      accepted == [o.status EXCEPT !.accepted = "True"]
  IN /\ At(k, "validateSpec")
     /\ \/ ~o.spec.valid /\ UpdateStatusIfChanged(k, o, rejected, EndPass(k))
        \/ o.spec.valid /\ UpdateStatusIfChanged(k, o, accepted, Continue(k))
     /\ UNCHANGED <<nars, backups, dbrs, cache, seen, seenDbr, edits, faults>>

\* Mutant: the NACUUID-already-set test dropped; every pass mints anew.
SetBackupUUIDInStatusAlwaysMint(k) ==
  LET o == NabView[k] IN
  /\ At(k, "setBackupUUIDInStatus")
  /\ \/ o.meta.state # "Present" /\ Retry(k) /\ UNCHANGED <<nab, local>>
     \/ /\ o.meta.state = "Present"
        /\ \E u \in NewUUID(o) :
             WriteStatus(k, o, [o.status EXCEPT !.uuid = u], Continue(k))
  /\ UNCHANGED <<nars, backups, dbrs, cache, seen, seenDbr, edits, faults>>

\* Re-fetches the object (from the cache) before testing NACUUID.
SetBackupUUIDInStatus(k) ==
  LET o == NabView[k] IN
  /\ At(k, "setBackupUUIDInStatus")
  /\ \/ /\ o.meta.state # "Present"
        /\ Retry(k) /\ UNCHANGED <<nab, local>>
     \/ /\ o.meta.state = "Present" /\ o.status.uuid # None
        /\ local' = [local EXCEPT ![k] = o]
        /\ Continue(k) /\ UNCHANGED nab
     \/ /\ o.meta.state = "Present" /\ o.status.uuid = None
        /\ \E u \in NewUUID(o) :
             WriteStatus(k, o, [o.status EXCEPT !.uuid = u], Continue(k))
  /\ UNCHANGED <<nars, backups, dbrs, cache, seen, seenDbr, edits, faults>>

\* Mutant: the finalizer step skipped.
SetFinalizerSkipped(k) ==
  /\ At(k, "setFinalizerOnNonAdminBackup")
  /\ Continue(k)
  /\ UNCHANGED <<server, cache, local, seen, seenDbr, edits, faults>>

\* The finalizer is added before the Velero Backup is created.
SetFinalizerOnNonAdminBackup(k) ==
  LET o == local[k] IN
  /\ At(k, "setFinalizerOnNonAdminBackup")
  /\ \/ o.meta.finalizer /\ Continue(k) /\ UNCHANGED <<nab, local>>
     \/ ~o.meta.finalizer /\ WriteFinalizer(k, o, TRUE, Continue(k))
  /\ UNCHANGED <<nars, backups, dbrs, cache, seen, seenDbr, edits, faults>>

\* The objects the two Create calls make: the Velero Backup, named by the
\* UUID and annotated with the key's origin (reborn: the name was in use
\* before, so the object is a new one with a new UID), and one more
\* DeleteBackupRequest (generateName: a second one never collides).
NewBackup(k, old) == [NoBackup EXCEPT !.exists = TRUE, !.origin = k, !.creator = k,
                                       !.reborn = old.reborn \/ old.removedBy # None]
AddDbr(d, k) == IF d.n = 0 THEN [n |-> 1, processed |-> FALSE, by |-> k]
                ELSE [d EXCEPT !.n = @ + 1]

\* First half of createVeleroBackupAndSyncWithNonAdminBackup: find the
\* Backup by UUID label, refuse a vanished or foreign one, or create it.
CreateVeleroBackup(k) ==
  LET o == local[k]
      u == o.status.uuid
      notFound == [UpdateNonAdminPhase(o.status, "BackingOff") EXCEPT !.accepted = "False"]
  IN /\ At(k, "createVeleroBackup")
     /\ \/ /\ u = None
           /\ Retry(k) /\ UNCHANGED <<nab, local, backups, seen>>
        \/ /\ u # None /\ ~BackupView[u].exists
           /\ SyncLabelValid(o) \/ o.status.phase = "Created"
           /\ UpdateStatusIfChanged(k, o, notFound, EndPass(k))
           /\ UNCHANGED <<backups, seen>>
        \/ /\ u # None /\ ~BackupView[u].exists
           /\ ~SyncLabelValid(o) /\ o.status.phase # "Created"
           /\ \/ /\ ~backups[u].exists
                 /\ backups' = [backups EXCEPT ![u] = NewBackup(k, @)]
                 /\ seen' = [seen EXCEPT ![k] = "New"]
                 /\ Continue(k)
              \/ /\ backups[u].exists   \* AlreadyExists
                 /\ Retry(k) /\ UNCHANGED <<backups, seen>>
           /\ UNCHANGED <<nab, local>>
        \/ /\ u # None /\ BackupView[u].exists
           /\ OriginNs(BackupView[u]) # NsOf[k]
           /\ EndPass(k) /\ UNCHANGED <<nab, local, backups, seen>>
        \/ /\ u # None /\ BackupView[u].exists
           /\ OriginNs(BackupView[u]) = NsOf[k]
           /\ seen' = [seen EXCEPT ![k] = BackupView[u].phase]
           /\ Continue(k) /\ UNCHANGED <<nab, local, backups>>
     /\ UNCHANGED <<nars, dbrs, cache, seenDbr, edits, faults>>

\* Mutant: the Velero Backup phase copied into the NonAdminBackup phase.
SyncVeleroBackupStatusMirrorPhase(k) ==
  LET o == local[k]
      st == [o.status EXCEPT !.phase = seen[k], !.queued = TRUE, !.mirror = seen[k]]
  IN /\ At(k, "syncVeleroBackupStatus")
     /\ WriteStatus(k, o, st, Continue(k))
     /\ UNCHANGED <<nars, backups, dbrs, cache, seen, seenDbr, edits, faults>>

\* Mutant: only a new queue position counts as an update.
SyncVeleroBackupStatusQueueInfoOnly(k) ==
  LET o == local[k]
      st == UpdateVeleroBackupSpecStatus(
              [UpdateNonAdminPhase(o.status, "Created") EXCEPT !.queued = TRUE], seen[k])
  IN /\ At(k, "syncVeleroBackupStatus")
     /\ \E queueInfoOk \in BOOLEAN :
          \/ queueInfoOk /\ WriteStatus(k, o, st, Continue(k))
          \/ ~queueInfoOk /\ Continue(k) /\ UNCHANGED <<nab, local>>
     /\ UNCHANGED <<nars, backups, dbrs, cache, seen, seenDbr, edits, faults>>

\* Second half: phase Created, Queued=True, mirror of the Backup; a
\* successful queue-position lookup always counts as an update.
SyncVeleroBackupStatus(k) ==
  LET o == local[k]
      st == UpdateVeleroBackupSpecStatus(
              [UpdateNonAdminPhase(o.status, "Created") EXCEPT !.queued = TRUE], seen[k])
  IN /\ At(k, "syncVeleroBackupStatus")
     /\ \E queueInfoOk \in BOOLEAN :
          \/ /\ queueInfoOk \/ st # o.status
             /\ WriteStatus(k, o, st, Continue(k))
          \/ /\ ~queueInfoOk /\ st = o.status
             /\ Continue(k) /\ UNCHANGED <<nab, local>>
     /\ UNCHANGED <<nars, backups, dbrs, cache, seen, seenDbr, edits, faults>>


\* removeNabFinalizerUponVeleroBackupDeletion, ending the step that calls it.
RemoveNabFinalizer(k, next) == WriteFinalizer(k, local[k], FALSE, next)

\* setStatusAndConditionForDeletionAndCallDelete, status half.
MarkDeleting(k) ==
  LET o == local[k] IN
  /\ At(k, "markDeleting")
  /\ UpdateStatusIfChanged(k, o,
       [UpdateNonAdminPhase(o.status, "Deleting") EXCEPT !.deletingCond = "Graceful"], Continue(k))
  /\ UNCHANGED <<nars, backups, dbrs, cache, seen, seenDbr, edits, faults>>

\* setStatusAndConditionForDeletionAndCallDelete, Delete half: requeue.
CallDelete(k) ==
  /\ At(k, "callDelete")
  /\ \/ local[k].meta.deleting /\ Continue(k) /\ UNCHANGED nab
     \/ /\ ~local[k].meta.deleting
        /\ \/ nab[k].meta.state # "Present" /\ UNCHANGED nab   \* NotFound
           \/ /\ nab[k].meta.state = "Present"
              /\ nab' = [nab EXCEPT ![k] = Deleted(@)]
        /\ Retry(k)
  /\ UNCHANGED <<nars, backups, dbrs, cache, local, seen, seenDbr, edits, faults>>

\* The List of NonAdminRestores is served by the cache in CachedReads mode,
\* which may not hold one created since its last sync (no NAR informer is
\* modelled): such a restore is missed and survives the pass.
DeleteNonAdminRestores(k) ==
  /\ At(k, "deleteNonAdminRestores")
  /\ \E listed \in IF CachedReads THEN BOOLEAN ELSE {TRUE} :
        nars' = [nars EXCEPT ![k] = @ /\ ~listed]
  /\ Continue(k)
  /\ UNCHANGED <<nab, backups, dbrs, cache, local, seen, seenDbr, edits, faults>>

\* Mutant: a Backup found gone ends the pass without releasing the object.
CreateVeleroDeleteBackupRequestKeepFinalizer(k) ==
  LET o == local[k]
      u == o.status.uuid
  IN /\ At(k, "createVeleroDeleteBackupRequest")
     /\ \/ /\ ~o.meta.finalizer \/ u = None \/ ~BackupView[u].exists
           /\ EndPass(k) /\ UNCHANGED <<local, dbrs, seenDbr>>
        \/ /\ o.meta.finalizer /\ u # None /\ BackupView[u].exists
           /\ DbrView[u].n > 1
           /\ Retry(k) /\ UNCHANGED <<local, dbrs, seenDbr>>
        \/ /\ o.meta.finalizer /\ u # None /\ BackupView[u].exists
           /\ DbrView[u].n = 1
           /\ seenDbr' = [seenDbr EXCEPT ![k] = DbrView[u].processed]
           /\ Continue(k) /\ UNCHANGED <<local, dbrs>>
        \/ /\ o.meta.finalizer /\ u # None /\ BackupView[u].exists
           /\ DbrView[u].n = 0 /\ dbrs[u].n < MaxDeleteRequests
           /\ dbrs' = [dbrs EXCEPT ![u] = AddDbr(@, k)]
           /\ local' = [local EXCEPT ![k].status.dbrRef = TRUE]
           /\ seenDbr' = [seenDbr EXCEPT ![k] = FALSE]
           /\ Continue(k)
     /\ UNCHANGED <<nab, nars, backups, cache, seen, edits, faults>>

\* createVeleroDeleteBackupRequest up to the Create of the request.
CreateVeleroDeleteBackupRequest(k) ==
  LET o == local[k]
      u == o.status.uuid
  IN /\ At(k, "createVeleroDeleteBackupRequest")
     /\ \/ /\ ~o.meta.finalizer \/ u = None
           /\ EndPass(k) /\ UNCHANGED <<nab, local, dbrs, seenDbr>>
        \/ /\ o.meta.finalizer /\ u # None /\ ~BackupView[u].exists
           /\ RemoveNabFinalizer(k, EndPass(k))
           /\ UNCHANGED <<dbrs, seenDbr>>
        \/ /\ o.meta.finalizer /\ u # None /\ BackupView[u].exists
           /\ DbrView[u].n > 1                            \* more than one found
           /\ Retry(k) /\ UNCHANGED <<nab, local, dbrs, seenDbr>>
        \/ /\ o.meta.finalizer /\ u # None /\ BackupView[u].exists
           /\ DbrView[u].n = 1
           /\ seenDbr' = [seenDbr EXCEPT ![k] = DbrView[u].processed]
           /\ Continue(k) /\ UNCHANGED <<nab, local, dbrs>>
        \/ /\ o.meta.finalizer /\ u # None /\ BackupView[u].exists
           /\ DbrView[u].n = 0
           /\ dbrs[u].n < MaxDeleteRequests
           /\ dbrs' = [dbrs EXCEPT ![u] = AddDbr(@, k)]
           /\ local' = [local EXCEPT ![k].status.dbrRef = TRUE]
           /\ seenDbr' = [seenDbr EXCEPT ![k] = FALSE]
           /\ Continue(k) /\ UNCHANGED nab
     /\ UNCHANGED <<nars, backups, cache, seen, edits, faults>>

\* createVeleroDeleteBackupRequest, status half: written only when the
\* request's status differs from the mirrored one.
UpdateDeleteBackupRequestStatus(k) ==
  LET o == local[k] IN
  /\ At(k, "updateDeleteBackupRequestStatus")
  /\ \/ /\ o.status.dbrProcessed # seenDbr[k]
        /\ WriteStatus(k, o, UpdateNonAdminBackupDeleteBackupRequestStatus(o.status, seenDbr[k]),
                    Continue(k))
     \/ /\ o.status.dbrProcessed = seenDbr[k]
        /\ Continue(k) /\ UNCHANGED <<nab, local>>
  /\ UNCHANGED <<nars, backups, dbrs, cache, seen, seenDbr, edits, faults>>

SetStatusForDirectKubernetesAPIDeletion(k) ==
  LET o == local[k] IN
  /\ At(k, "setStatusForDirectKubernetesAPIDeletion")
  /\ UpdateStatusIfChanged(k, o,
       [UpdateNonAdminPhase(o.status, "Deleting") EXCEPT !.deletingCond = "Direct"], Continue(k))
  /\ UNCHANGED <<nars, backups, dbrs, cache, seen, seenDbr, edits, faults>>

DeleteDeleteBackupRequestObjects(k) ==
  LET u == local[k].status.uuid IN
  /\ At(k, "deleteDeleteBackupRequestObjects")
  /\ \/ /\ u = None \/ (u # None /\ DbrView[u].n = 0)
        /\ Continue(k) /\ UNCHANGED dbrs
     \/ /\ u # None /\ DbrView[u].n > 1
        /\ Retry(k) /\ UNCHANGED dbrs
     \/ /\ u # None /\ DbrView[u].n = 1
        /\ \/ /\ dbrs[u].n > 0
              /\ dbrs' = [dbrs EXCEPT ![u] = IF @.n = 1 THEN NoDbr ELSE [@ EXCEPT !.n = @ - 1]]
              /\ Continue(k)
           \/ dbrs[u].n = 0 /\ Retry(k) /\ UNCHANGED dbrs   \* NotFound
  /\ UNCHANGED <<nab, nars, backups, cache, local, seen, seenDbr, edits, faults>>

\* Mutant: the direct path deletes through a DeleteBackupRequest.
DeleteVeleroBackupObjectsByRequest(k) ==
  LET u == local[k].status.uuid IN
  /\ At(k, "deleteVeleroBackupObjects")
  /\ u # None /\ BackupView[u].exists /\ dbrs[u].n = 0
  /\ dbrs' = [dbrs EXCEPT ![u] = [n |-> 1, processed |-> FALSE, by |-> k]]
  /\ Continue(k)
  /\ UNCHANGED <<nab, nars, backups, cache, local, seen, seenDbr, edits, faults>>

\* Mutant: the finalizer is left in place once the Backup is gone.
DeleteVeleroBackupObjectsKeepFinalizer(k) ==
  LET u == local[k].status.uuid IN
  /\ At(k, "deleteVeleroBackupObjects")
  /\ \/ (u = None \/ (u # None /\ ~BackupView[u].exists)) /\ UNCHANGED backups
     \/ /\ u # None /\ BackupView[u].exists /\ backups[u].exists
        /\ backups' = [backups EXCEPT ![u].exists = FALSE, ![u].removedBy = k]
  /\ Continue(k)
  /\ UNCHANGED <<nab, nars, dbrs, cache, local, seen, seenDbr, edits, faults>>

\* Deletes the Backup object only (its stored data stays), or, once it is
\* gone, removes the finalizer.
DeleteVeleroBackupObjects(k) ==
  LET u == local[k].status.uuid IN
  /\ At(k, "deleteVeleroBackupObjects")
  /\ \/ /\ u = None
        /\ Continue(k) /\ UNCHANGED <<nab, local, backups>>
     \/ /\ u # None /\ BackupView[u].exists
        /\ \/ /\ backups[u].exists
              /\ backups' = [backups EXCEPT ![u].exists = FALSE, ![u].removedBy = k]
              /\ Continue(k)
           \/ ~backups[u].exists /\ Retry(k) /\ UNCHANGED backups   \* NotFound
        /\ UNCHANGED <<nab, local>>
     \/ /\ u # None /\ ~BackupView[u].exists
        /\ RemoveNabFinalizer(k, Continue(k))
        /\ UNCHANGED backups
  /\ UNCHANGED <<nars, dbrs, cache, seen, seenDbr, edits, faults>>

\* Any API call of a step may fail transiently: the pass ends with an error
\* and the key is retried with backoff.
StepFails(k) ==
  /\ Ready /\ todo[k] # <<>> /\ faults < MaxFaults
  /\ Retry(k)
  /\ faults' = faults + 1
  /\ UNCHANGED <<server, cache, local, seen, seenDbr, edits>>

\* A Create whose effect happens but whose answer is lost (timeout,
\* dropped connection): the step returns the error and the key is retried,
\* with nothing recorded in the in-memory object.
BackupCreateLostResponse(k) ==
  LET o == local[k]
      u == o.status.uuid
  IN /\ At(k, "createVeleroBackup") /\ faults < MaxFaults
     /\ u # None /\ ~BackupView[u].exists /\ ~backups[u].exists
     /\ ~SyncLabelValid(o) /\ o.status.phase # "Created"
     /\ backups' = [backups EXCEPT ![u] = NewBackup(k, @)]
     /\ Retry(k) /\ faults' = faults + 1
     /\ UNCHANGED <<nab, nars, dbrs, cache, local, seen, seenDbr, edits>>

DbrCreateLostResponse(k) ==
  LET o == local[k]
      u == o.status.uuid
  IN /\ At(k, "createVeleroDeleteBackupRequest") /\ faults < MaxFaults
     /\ o.meta.finalizer /\ u # None /\ BackupView[u].exists
     /\ DbrView[u].n = 0 /\ dbrs[u].n < MaxDeleteRequests
     /\ dbrs' = [dbrs EXCEPT ![u] = AddDbr(@, k)]
     /\ Retry(k) /\ faults' = faults + 1
     /\ UNCHANGED <<nab, nars, backups, cache, local, seen, seenDbr, edits>>

\* The controller process restarts (a crash, or a new leader taking over):
\* every running pass stops wherever it was, the informers list every kind
\* afresh, and the initial list enqueues every existing NonAdminBackup.  All
\* that survives is what the API server holds.
ControllerRestart ==
  /\ faults < MaxFaults
  /\ todo' = [k \in Nabs |-> <<>>]
  /\ queue' = [k \in Nabs |-> nab[k].meta.state = "Present"]
  /\ cnab' = nab /\ cbackups' = backups /\ cdbrs' = dbrs
  /\ faults' = faults + 1
  /\ UNCHANGED <<server, local, seen, seenDbr, edits>>

Step(k) ==
  \/ InitNabCreate(k) \/ ValidateSpec(k) \/ SetBackupUUIDInStatus(k)
  \/ SetFinalizerOnNonAdminBackup(k) \/ CreateVeleroBackup(k) \/ SyncVeleroBackupStatus(k)
  \/ MarkDeleting(k) \/ CallDelete(k) \/ DeleteNonAdminRestores(k)
  \/ CreateVeleroDeleteBackupRequest(k) \/ UpdateDeleteBackupRequestStatus(k)
  \/ SetStatusForDirectKubernetesAPIDeletion(k)
  \/ DeleteDeleteBackupRequestObjects(k) \/ DeleteVeleroBackupObjects(k)


-----------------------------------------------------------------------------
(***************************************************************************)
(* The tenant.                                                             *)
(***************************************************************************)
Bump(r) == [r EXCEPT !.meta.rv = @ + 1]

CreateNab(k) ==
  /\ Ready
  /\ nab[k].meta.state = "Absent"
  /\ \E s \in SyncLabels[k] \cup {None}, valid \in BOOLEAN :
       nab' = [nab EXCEPT ![k] =
                 [meta |-> [AbsentNab.meta EXCEPT !.state = "Present", !.rv = 1, !.sync = s],
                  spec |-> [valid |-> valid, deleteBackup |-> FALSE],
                  status |-> EmptyStatus]]
  /\ UNCHANGED <<nars, backups, dbrs, cache, ctrl, edits, faults>>

\* Edit the backup spec so that it becomes valid or invalid.
EditSpec(k) ==
  /\ Ready
  /\ nab[k].meta.state = "Present" /\ edits < MaxEdits
  /\ nab' = [nab EXCEPT ![k] = Bump([@ EXCEPT !.spec.valid = ~@])]
  /\ edits' = edits + 1
  /\ UNCHANGED <<nars, backups, dbrs, cache, ctrl, faults>>

SetDeleteBackup(k) ==
  /\ Ready
  /\ nab[k].meta.state = "Present" /\ ~nab[k].spec.deleteBackup
  /\ nab' = [nab EXCEPT ![k] = Bump([@ EXCEPT !.spec.deleteBackup = TRUE])]
  /\ UNCHANGED <<nars, backups, dbrs, cache, ctrl, edits, faults>>

KubectlDelete(k) ==
  /\ Ready
  /\ nab[k].meta.state = "Present" /\ ~nab[k].meta.deleting
  /\ nab' = [nab EXCEPT ![k] = Deleted(@)]
  /\ UNCHANGED <<nars, backups, dbrs, cache, ctrl, edits, faults>>

CreateNonAdminRestore(k) ==
  /\ Ready
  /\ nab[k].meta.state = "Present" /\ ~nars[k]
  /\ nars' = [nars EXCEPT ![k] = TRUE]
  /\ UNCHANGED <<nab, backups, dbrs, cache, ctrl, edits, faults>>

Tenant(k) ==
  CreateNab(k) \/ EditSpec(k) \/ SetDeleteBackup(k) \/ KubectlDelete(k)
  \/ CreateNonAdminRestore(k)

(***************************************************************************)
(* Velero.                                                                 *)
(***************************************************************************)
NextBackupPhase == [p \in {"New", "InProgress"} |-> IF p = "New" THEN "InProgress" ELSE "Completed"]

VeleroProgress(u) ==
  /\ Ready
  /\ backups[u].exists /\ backups[u].phase # "Completed"
  /\ backups' = [backups EXCEPT ![u].phase = NextBackupPhase[@]]
  /\ UNCHANGED <<nab, nars, dbrs, cache, ctrl, edits, faults>>

\* Processing a DeleteBackupRequest deletes the Backup and its stored data.
VeleroProcessDeleteRequest(u) ==
  /\ Ready
  /\ dbrs[u].n > 0 /\ ~dbrs[u].processed
  /\ dbrs' = [dbrs EXCEPT ![u].processed = TRUE]
  /\ backups' = IF backups[u].exists
                THEN [backups EXCEPT ![u].exists = FALSE, ![u].removedBy = dbrs[u].by,
                                     ![u].dataDeleted = TRUE]
                ELSE backups
  /\ UNCHANGED <<nab, nars, cache, ctrl, edits, faults>>

\* Garbage collection of an expired backup (TTL), or an admin deleting it.
VeleroExpire(u) ==
  /\ Ready
  /\ backups[u].exists /\ backups[u].phase = "Completed"
  /\ backups' = [backups EXCEPT ![u].exists = FALSE, ![u].removedBy = Velero,
                                ![u].dataDeleted = TRUE]
  /\ UNCHANGED <<nab, nars, dbrs, cache, ctrl, edits, faults>>

(***************************************************************************)
(* Informers: each kind's cache catches up with the server as a whole, and *)
(* the watch events it delivers enqueue keys.  The NonAdminBackup          *)
(* predicate admits creation, spec changes and deletion (not status or     *)
(* finalizer updates); the Backup handler enqueues the key named by the    *)
(* Backup's origin annotations.  DeleteBackupRequests are not watched.     *)
(***************************************************************************)
NabEvent(old, new) ==
  old.meta.state # new.meta.state \/ old.spec # new.spec \/ old.meta.deleting # new.meta.deleting

SyncNabCache ==
  /\ cnab # nab
  /\ cnab' = nab
  /\ queue' = [k \in Nabs |-> queue[k] \/ NabEvent(cnab[k], nab[k])]
  /\ UNCHANGED <<server, cbackups, cdbrs, todo, local, seen, seenDbr, edits, faults>>

SyncBackupCache ==
  /\ cbackups # backups
  /\ cbackups' = backups
  /\ queue' = [k \in Nabs |-> queue[k] \/
                 \E u \in UUIDs : cbackups[u] # backups[u] /\ k \in {cbackups[u].origin, backups[u].origin}]
  /\ UNCHANGED <<server, cnab, cdbrs, todo, local, seen, seenDbr, edits, faults>>

SyncDbrCache ==
  /\ cdbrs # dbrs
  /\ cdbrs' = dbrs
  /\ UNCHANGED <<server, cnab, cbackups, ctrl, edits, faults>>

-----------------------------------------------------------------------------
InitBackups ==
  [u \in UUIDs |-> IF PreExisting[u] = None THEN NoBackup
                   ELSE [NoBackup EXCEPT !.exists = TRUE, !.origin = PreExisting[u],
                                         !.phase = "Completed"]]

Init ==
  /\ nab = [k \in Nabs |-> AbsentNab]
  /\ nars = [k \in Nabs |-> FALSE]
  /\ backups = InitBackups
  /\ dbrs = [u \in UUIDs |-> NoDbr]
  /\ cnab = nab /\ cbackups = backups /\ cdbrs = dbrs
  /\ queue = [k \in Nabs |-> FALSE]
  /\ todo = [k \in Nabs |-> <<>>]
  /\ local = [k \in Nabs |-> AbsentNab]
  /\ seen = [k \in Nabs |-> None]
  /\ seenDbr = [k \in Nabs |-> FALSE]
  /\ edits = 0
  /\ faults = 0

Next ==
  \/ \E k \in Nabs : Begin(k) \/ Step(k) \/ StepFails(k) \/ Tenant(k)
                    \/ BackupCreateLostResponse(k) \/ DbrCreateLostResponse(k)
  \/ \E u \in UUIDs : VeleroProgress(u) \/ VeleroProcessDeleteRequest(u) \/ VeleroExpire(u)
  \/ SyncNabCache \/ SyncBackupCache \/ SyncDbrCache
  \/ ControllerRestart

(***************************************************************************)
(* Fairness.  A dirty key is eventually handed to a worker, and a worker  *)
(* that holds a pass eventually runs its next step.  With cached reads    *)
(* these stay enabled until taken (WF); in direct-read mode the informers' *)
(* catch-up steps intervene (Ready), so they are enabled only infinitely  *)
(* often and need SF.  Transient failures are bounded (MaxFaults), so a  *)
(* pass cannot fail for ever.  Informers keep up, and Velero eventually   *)
(* processes a delete request (WF or SF for the same reason as above).    *)
(* The tenant owes nothing.                                               *)
(***************************************************************************)
Fairness ==
  /\ \A k \in Nabs : IF CachedReads THEN WF_vars(Begin(k)) /\ WF_vars(Step(k))
                                   ELSE SF_vars(Begin(k)) /\ SF_vars(Step(k))
  /\ \A u \in UUIDs : IF CachedReads THEN WF_vars(VeleroProcessDeleteRequest(u))
                                   ELSE SF_vars(VeleroProcessDeleteRequest(u))
  /\ WF_vars(SyncNabCache) /\ WF_vars(SyncBackupCache) /\ WF_vars(SyncDbrCache)

Spec == Init /\ [][Next]_vars
FairSpec == Spec /\ Fairness

-----------------------------------------------------------------------------
TypeOK ==
  /\ nab \in [Nabs -> NabRec] /\ cnab \in [Nabs -> NabRec] /\ local \in [Nabs -> NabRec]
  /\ nars \in [Nabs -> BOOLEAN]
  /\ backups \in [UUIDs -> BackupRec] /\ cbackups \in [UUIDs -> BackupRec]
  /\ dbrs \in [UUIDs -> DbrRec] /\ cdbrs \in [UUIDs -> DbrRec]
  /\ queue \in [Nabs -> BOOLEAN]
  /\ \A k \in Nabs : \E i \in 0..6 : todo[k] \in [1..i -> STRING]
  /\ seen \in [Nabs -> BackupPhases \cup {None}] /\ seenDbr \in [Nabs -> BOOLEAN]
  /\ edits \in 0..MaxEdits /\ faults \in 0..MaxFaults


(***************************************************************************)
(* State view for safety runs.  Only equality of resourceVersions matters  *)
(* (a write conflicts when they differ), so they are replaced by their     *)
(* rank among the versions held; the in-memory object and what the pass   *)
(* read mean nothing once the pass has ended.                              *)
(***************************************************************************)
HeldVersions(k) ==
  {nab[k].meta.rv, cnab[k].meta.rv} \cup IF todo[k] = <<>> THEN {} ELSE {local[k].meta.rv}
Ranked(k, r) == [r EXCEPT !.meta.rv = Cardinality({v \in HeldVersions(k) : v < r.meta.rv})]
View ==
  << [k \in Nabs |-> Ranked(k, nab[k])], nars, backups, dbrs,
     [k \in Nabs |-> Ranked(k, cnab[k])], cbackups, cdbrs, queue, todo,
     [k \in Nabs |-> IF todo[k] = <<>> THEN AbsentNab ELSE Ranked(k, local[k])],
     [k \in Nabs |-> IF todo[k] = <<>> THEN None ELSE seen[k]],
     [k \in Nabs |-> todo[k] # <<>> /\ seenDbr[k]], edits, faults >>


-----------------------------------------------------------------------------
(***************************************************************************)
(* Properties.                                                             *)
(***************************************************************************)

\* Finalizer discipline (spec I4/P4): a NonAdminBackup the API server has
\* deleted leaves behind no Velero Backup that the reconciler created for
\* it.  Removing the finalizer in createVeleroDeleteBackupRequest /
\* deleteVeleroBackupObjects must wait until the Backup is really gone, and
\* the finalizer must be in place before the Backup is created.  (A Backup
\* that predates the object, adopted through the sync label, may survive it.)
NoOrphanBackup ==
  \A k \in Nabs, u \in UUIDs :
    nab[k].meta.state = "Gone" /\ backups[u].creator = k => ~backups[u].exists

\* One engine object per tenant object: the reconciler never creates Velero
\* Backups under two UUIDs for the same NonAdminBackup, although
\* setBackupUUIDInStatus re-reads the object (possibly stale) before deciding
\* to mint a UUID and passes may die between minting and creating.
SingleBackupPerNab ==
  \A k \in Nabs : Cardinality({u \in UUIDs : backups[u].creator = k}) <= 1

\* Direct deletion preserves data (spec 4.5): stored backup data is deleted
\* on behalf of a NonAdminBackup only if that object asked for it with
\* spec.deleteBackup; kubectl delete removes the Backup object alone.
DataDeletedOnlyOnRequest ==
  \A u \in UUIDs :
    backups[u].dataDeleted /\ backups[u].removedBy \in Nabs
      => nab[backups[u].removedBy].spec.deleteBackup

\* Origin check (spec I3): a Velero Backup is only ever removed on behalf
\* of a NonAdminBackup of the namespace in its origin annotation.  The
\* create path refuses a foreign Backup (createVeleroBackupAndSync...), but
\* both delete paths find the Backup by the UUID in status, and that UUID
\* comes from the tenant-set sync label.
NoCrossTenantRemoval ==
  \A u \in UUIDs :
    backups[u].removedBy \in Nabs => OriginNs(backups[u]) = NsOf[backups[u].removedBy]

\* Phase DAG (spec I5/P5): New -> BackingOff or Created, and deletion may
\* begin from any phase; nothing goes back.  Every status write of the
\* reconciler, across passes, respects it.
PhaseEdges ==
  {<<"", p>> : p \in Phases} \cup {<<p, "Deleting">> : p \in Phases}
  \cup {<<"New", "BackingOff">>, <<"New", "Created">>}

PhaseFollowsDAG ==
  [][\A k \in Nabs :
       nab'[k].status.phase # nab[k].status.phase
         => <<nab[k].status.phase, nab'[k].status.phase>> \in PhaseEdges]_nab

\* Delete-request reference (spec 4.5, graceful delete step 3): once a pass
\* has created a DeleteBackupRequest for the key and the key is idle, the
\* request is recorded in the object's status.
DeleteRequestRecorded ==
  \A k \in Nabs :
    LET o == nab[k] IN
    o.meta.state = "Present" /\ todo[k] = <<>> /\ ~queue[k]
    /\ o.status.uuid # None /\ dbrs[o.status.uuid].by = k
      => o.status.dbrRef

\* No silent re-creation (spec 4.4, step "create engine object"): a Velero
\* Backup that has been removed, by Velero, an admin or the reconciler, is
\* never created again.  createVeleroBackupAndSyncWithNonAdminBackup
\* decides between "not created yet" and "removed" by the phase Created,
\* which a failed status write after the Create never records.
NoRecreatedBackup ==
  [][\A u \in UUIDs :
       ~backups[u].exists /\ backups[u].removedBy # None => ~backups'[u].exists]_backups

\* Deletion completes (spec 4.5, both delete paths): a NonAdminBackup that
\* is being deleted, by kubectl or by deleteBackup, is eventually removed by
\* the API server, i.e. the reconciler eventually removes its finalizer.
DeletionCompletes ==
  \A k \in Nabs :
    nab[k].meta.state = "Present" /\ (nab[k].meta.deleting \/ nab[k].spec.deleteBackup)
      ~> nab[k].meta.state = "Gone"

\* A NonAdminBackup with a valid spec and no sync label, not being deleted,
\* still in phase New (or not yet initialised).
CreationPending(k) ==
  LET o == nab[k] IN
  /\ o.meta.state = "Present" /\ ~o.meta.deleting /\ ~o.spec.deleteBackup
  /\ o.spec.valid /\ o.meta.sync = None /\ o.status.phase \in {"", "New"}

MirrorStale(k) ==
  LET o == nab[k]
      u == o.status.uuid
  IN /\ o.meta.state = "Present" /\ ~o.meta.deleting /\ ~o.spec.deleteBackup
     /\ o.status.phase = "Created" /\ u # None
     /\ backups[u].exists /\ o.status.mirror # backups[u].phase

\* Continuous status mirror (spec 4.4 step 6, 4.6): once the Backup of a
\* created NonAdminBackup moves on, the mirror eventually catches up, or the
\* binding ends.  It depends on the Backup handler routing the Backup's
\* events to the key of its origin annotations, on the cached Backup read
\* of createVeleroBackupAndSyncWithNonAdminBackup and on the mirror change
\* counting as an update there.
MirrorEventuallyCurrent == \A k \in Nabs : MirrorStale(k) ~> ~MirrorStale(k)

\* The Backup bound to the key has been created again under its name.
BackupReborn(k) == nab[k].status.uuid # None /\ backups[nab[k].status.uuid].reborn

\* Mirror under cached reads (line 800): the status comparison made against
\* a stale cached copy of the object never leaves the mirror stale for
\* good while the Backup only moves forward.  A stale copy that already
\* shows the current Backup phase implies the server copy does too; any
\* other stale copy makes the pass write, and the write conflicts and is
\* retried.  Only a re-created Backup, whose phase goes back to New, is
\* excepted.
MirrorCurrentUnlessReborn ==
  \A k \in Nabs : MirrorStale(k) ~> (~MirrorStale(k) \/ BackupReborn(k))

-----------------------------------------------------------------------------
(***************************************************************************)
(* Refinement.  The server state maps onto BackupBinding: the object's     *)
(* lifecycle and finalizer, the NACUUID in its status, and the Backup the  *)
(* reconciler created for it (the one whose creator is the key).           *)
(***************************************************************************)
Lifecycle(r) ==
  CASE r.meta.state = "Absent" -> "absent"
    [] r.meta.state = "Gone"   -> "gone"
    [] r.meta.deleting         -> "deleting"
    [] OTHER                   -> "live"

CreatedBackup(k) ==
  IF \E u \in UUIDs : backups[u].creator = k
  THEN LET u == CHOOSE v \in UUIDs : backups[v].creator = k
       IN  [name |-> u, live |-> backups[u].exists]
  ELSE None

Binding == INSTANCE BackupBinding WITH
  Keys    <- Nabs,
  obj     <- [k \in Nabs |-> Lifecycle(nab[k])],
  uuid    <- [k \in Nabs |-> nab[k].status.uuid],
  guarded <- [k \in Nabs |-> nab[k].meta.finalizer],
  engine  <- [k \in Nabs |-> CreatedBackup(k)]

\* The reconciler implements the binding protocol: every step, of every
\* actor, is a step of BackupBinding or leaves its state alone.  The
\* NACUUID is stamped once (setBackupUUIDInStatus, after a re-fetch) and
\* never rewritten; the Backup is created only behind the finalizer and
\* under that NACUUID (createVeleroBackupAndSyncWithNonAdminBackup); the
\* finalizer is removed only from an object being deleted whose Backup is
\* gone (createVeleroDeleteBackupRequest, deleteVeleroBackupObjects).
BindingRefined == Binding!Spec

=============================================================================
