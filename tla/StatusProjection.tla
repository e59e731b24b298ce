-------------------------- MODULE StatusProjection --------------------------
(***************************************************************************)
(* The status projection of createVeleroBackupAndSyncWithNonAdminBackup   *)
(* (lines 749-811) for one NonAdminBackup whose Velero Backup exists: the  *)
(* queue info, the Backup mirror, and the PodVolumeBackup and DataUpload   *)
(* counters of updateNonAdminBackupPodVolumeBackupStatus and               *)
(* updateNonAdminBackupDataUploadStatus (lines 913-1035).  Velero creates  *)
(* child objects and moves their phases; informers copy them into the      *)
(* cache and the handlers enqueue the NAB; a pass lists the children from  *)
(* the cache, tallies them, and writes the status if anything changed.     *)
(***************************************************************************)
EXTENDS Integers, Sequences, FiniteSets, TLC

CONSTANTS
    Pvbs,            \* PodVolumeBackup objects of the Backup
    Dus,             \* DataUpload objects of the Backup
    MaxListErrors,   \* failed r.List calls in a behaviour
    MaxWriteErrors   \* failed Status().Update calls in a behaviour

Absent == "absent"

\* The phases the two switch statements count; any other phase, the empty
\* phase of an object no agent has picked up yet included, hits `default`.
PvbCounted == {"New", "InProgress", "Failed", "Completed"}
DuCounted  == {"New", "Accepted", "Prepared", "InProgress",
               "Canceling", "Canceled", "Failed", "Completed"}

\* Velero's phase graphs for the children (the engine, not this code).
PvbEdges == {<<Absent, "">>, <<"", "New">>, <<"New", "InProgress">>,
             <<"InProgress", "Completed">>, <<"InProgress", "Failed">>}
DuEdges  == {<<Absent, "">>, <<"", "New">>, <<"New", "Accepted">>,
             <<"Accepted", "Prepared">>, <<"Prepared", "InProgress">>,
             <<"InProgress", "Completed">>, <<"InProgress", "Failed">>,
             <<"Accepted", "Canceling">>, <<"InProgress", "Canceling">>,
             <<"Canceling", "Canceled">>}
Terminal == {Absent, "Completed", "Failed", "Canceled"}
PvbPhase == {Absent, ""} \cup PvbCounted
DuPhase  == {Absent, ""} \cup DuCounted

VARIABLES
    pvb, du, bphase,       \* server: child phases and the Backup's phase
    cpvb, cdu, cbphase,    \* informer caches of the three kinds
    dirty,                 \* the NAB's key is in the work queue
    status,                \* persisted NAB status
    passOk,                \* the last pass ended without error
    wrote,                 \* the last step issued Status().Update
    listErrors, writeErrors

cluster == <<pvb, du, bphase>>
cache   == <<cpvb, cdu, cbphase>>
vars    == <<cluster, cache, dirty, status, passOk, wrote, listErrors, writeErrors>>

Counters(counted) == [counted \cup {"Total"} -> Nat]
Zero(counted) == [f \in counted \cup {"Total"} |-> 0]

(***************************************************************************)
(* The code.                                                               *)
(***************************************************************************)

\* r.List with a label selector: the phases of the present objects, one
\* per object, in the order the cache yields them.
RECURSIVE ListOf(_)
ListOf(c) ==
    LET present == {o \in DOMAIN c : c[o] # Absent}
    IN  IF present = {} THEN <<>>
        ELSE LET o == CHOOSE x \in present : TRUE
             IN  <<c[o]>> \o ListOf([x \in present \ {o} |-> c[x]])

\* The for/switch loop: one counter per counted phase, `default: continue`.
RECURSIVE Tally(_, _)
Tally(items, counted) ==
    IF items = <<>> THEN [ph \in counted |-> 0]
    ELSE LET acc == Tally(Tail(items), counted)
         IN  IF Head(items) \in counted
             THEN [acc EXCEPT ![Head(items)] = @ + 1]
             ELSE acc

\* Total taken one short of the list's length.
UpdateCountersTotalOffByOne(old, items, counted) ==
    LET new == ("Total" :> Len(items) - 1) @@ Tally(items, counted)
    IN  [value |-> new, updated |-> new # old]

\* A compare chain that forgets the Total field.
UpdateCountersNoTotalCheck(old, items, counted) ==
    LET new == ("Total" :> Len(items)) @@ Tally(items, counted)
    IN  [value |-> new,
         updated |-> \E f \in DOMAIN new \ {"Total"} : new[f] # old[f]]

\* Set Total and each counter that differs; `updated` if any was set.
UpdateCounters(old, items, counted) ==
    LET new == ("Total" :> Len(items)) @@ Tally(items, counted)
    IN  [value |-> new, updated |-> new # old]

\* A DeepEqual over the Backup's spec alone: a change of its phase is not
\* reported.
UpdateVeleroBackupSpecStatusSpecOnly(old, phase) ==
    [value |-> phase, updated |-> FALSE]

\* updateNonAdminBackupVeleroBackupSpecStatus: copy the Backup's spec and
\* status into the NAB status when either differs.
UpdateVeleroBackupSpecStatus(old, phase) ==
    [value |-> phase, updated |-> old # phase]

UpdatePodVolumeBackupStatus(old, items) == UpdateCounters(old, items, PvbCounted)
UpdateDataUploadStatus(old, items)      == UpdateCounters(old, items, DuCounted)

(***************************************************************************)
(* Velero and the informers.                                               *)
(***************************************************************************)

\* Velero creates a child or moves it along its phase graph while the
\* Backup runs.
VeleroPvb(p) ==
    /\ bphase = "InProgress"
    /\ \E ph \in PvbPhase : <<pvb[p], ph>> \in PvbEdges /\ pvb' = [pvb EXCEPT ![p] = ph]
    /\ UNCHANGED <<du, bphase, cache, dirty, status, passOk, listErrors, writeErrors>>
    /\ wrote' = FALSE

VeleroDu(d) ==
    /\ bphase = "InProgress"
    /\ \E ph \in DuPhase : <<du[d], ph>> \in DuEdges /\ du' = [du EXCEPT ![d] = ph]
    /\ UNCHANGED <<pvb, bphase, cache, dirty, status, passOk, listErrors, writeErrors>>
    /\ wrote' = FALSE

\* The Backup completes only once every child is in a terminal phase.
VeleroCompleteBackup ==
    /\ bphase = "InProgress"
    /\ \A p \in Pvbs : pvb[p] \in Terminal
    /\ \A d \in Dus : du[d] \in Terminal
    /\ bphase' = "Completed"
    /\ UNCHANGED <<pvb, du, cache, dirty, status, passOk, listErrors, writeErrors>>
    /\ wrote' = FALSE

\* An informer catches up with the server; its handler enqueues the NAB
\* (the child handlers map the backup-name label back to the NAB).
SyncPvbCache ==
    /\ cpvb # pvb
    /\ cpvb' = pvb /\ dirty' = TRUE
    /\ UNCHANGED <<cluster, cdu, cbphase, status, passOk, listErrors, writeErrors>>
    /\ wrote' = FALSE

SyncDuCache ==
    /\ cdu # du
    /\ cdu' = du /\ dirty' = TRUE
    /\ UNCHANGED <<cluster, cpvb, cbphase, status, passOk, listErrors, writeErrors>>
    /\ wrote' = FALSE

SyncBackupCache ==
    /\ cbphase # bphase
    /\ cbphase' = bphase /\ dirty' = TRUE
    /\ UNCHANGED <<cluster, cpvb, cdu, status, passOk, listErrors, writeErrors>>
    /\ wrote' = FALSE

\* Any other event of the NAB, or the manager's periodic resync, which
\* re-delivers every Backup to the Backup handler.
Resync ==
    /\ ~dirty /\ dirty' = TRUE
    /\ UNCHANGED <<cluster, cache, status, passOk, listErrors, writeErrors>>
    /\ wrote' = FALSE

(***************************************************************************)
(* The projection pass (lines 749-811).  The NAB is already Created and    *)
(* Queued, so updateNonAdminPhase and SetStatusCondition report no change; *)
(* the Backup mirror is reduced to the Backup's phase and the queue info   *)
(* to whether it was ever computed.  A failed List leaves the list empty   *)
(* and the pass goes on; a failed Status().Update returns the error, and   *)
(* the work queue retries the key.                                         *)
(***************************************************************************)
\* A failed Status().Update (lines 800-804): the error is returned, so the
\* key stays in the queue and is retried with backoff.
StatusWriteErrorSwallowed ==
    /\ writeErrors < MaxWriteErrors
    /\ writeErrors' = writeErrors + 1
    /\ dirty' = FALSE /\ passOk' = FALSE /\ wrote' = FALSE
    /\ UNCHANGED status

StatusWriteError ==
    /\ writeErrors < MaxWriteErrors
    /\ writeErrors' = writeErrors + 1
    /\ dirty' = TRUE /\ passOk' = FALSE /\ wrote' = FALSE
    /\ UNCHANGED status

Reconcile ==
    /\ dirty
    /\ \E pvbOk, duOk, queueOk \in BOOLEAN :
        LET errs == (IF pvbOk THEN 0 ELSE 1) + (IF duOk THEN 0 ELSE 1)
            pl   == IF pvbOk THEN ListOf(cpvb) ELSE <<>>
            dl   == IF duOk THEN ListOf(cdu) ELSE <<>>
            np   == UpdatePodVolumeBackupStatus(status.pvb, pl)
            nd   == UpdateDataUploadStatus(status.du, dl)
            nm   == UpdateVeleroBackupSpecStatus(status.mirror, cbphase)
            new  == [pvb |-> np.value, du |-> nd.value, mirror |-> nm.value,
                     queueInfo |-> status.queueInfo \/ queueOk]
            updated == nm.updated \/ np.updated \/ nd.updated \/ queueOk
        IN  /\ listErrors + errs <= MaxListErrors
            /\ listErrors' = listErrors + errs
            /\ \/ /\ ~updated
                  /\ dirty' = FALSE /\ passOk' = TRUE /\ wrote' = FALSE
                  /\ UNCHANGED <<status, writeErrors>>
               \/ /\ updated
                  /\ status' = new
                  /\ dirty' = FALSE /\ passOk' = TRUE /\ wrote' = TRUE
                  /\ UNCHANGED writeErrors
               \/ updated /\ StatusWriteError
    /\ UNCHANGED <<cluster, cache>>

Init ==
    /\ pvb = [p \in Pvbs |-> Absent] /\ du = [d \in Dus |-> Absent]
    /\ bphase = "InProgress"
    /\ cpvb = pvb /\ cdu = du /\ cbphase = bphase
    /\ dirty = TRUE
    /\ status = [pvb |-> Zero(PvbCounted), du |-> Zero(DuCounted),
                 mirror |-> "none", queueInfo |-> FALSE]
    /\ passOk = TRUE /\ wrote = FALSE
    /\ listErrors = 0 /\ writeErrors = 0

Next ==
    \/ Reconcile
    \/ \E p \in Pvbs : VeleroPvb(p)
    \/ \E d \in Dus : VeleroDu(d)
    \/ VeleroCompleteBackup
    \/ SyncPvbCache \/ SyncDuCache \/ SyncBackupCache
    \/ Resync

Spec == Init /\ [][Next]_vars

\* Whether the last step wrote constrains no later step, so states that
\* differ only there are merged.
ConvergenceView == <<cluster, cache, dirty, status, listErrors, writeErrors>>

\* The work queue hands a dirty key to a worker, the informers keep up,
\* and Velero runs every Backup to its end (its node agents and data movers
\* time out a stuck child into Failed or Canceled).  The periodic resync
\* keeps firing while the key is not queued.
FairSpec == Spec /\ WF_vars(Reconcile) /\ WF_vars(Resync)
            /\ WF_vars(SyncPvbCache) /\ WF_vars(SyncDuCache) /\ WF_vars(SyncBackupCache)
            /\ \A p \in Pvbs : WF_vars(VeleroPvb(p))
            /\ \A d \in Dus : WF_vars(VeleroDu(d))
            /\ WF_vars(VeleroCompleteBackup)

(***************************************************************************)
(* Properties.                                                             *)
(***************************************************************************)

TypeOK ==
    /\ pvb \in [Pvbs -> PvbPhase] /\ cpvb \in [Pvbs -> PvbPhase]
    /\ du \in [Dus -> DuPhase] /\ cdu \in [Dus -> DuPhase]
    /\ {bphase, cbphase} \subseteq {"InProgress", "Completed"}
    /\ status \in [pvb : Counters(PvbCounted), du : Counters(DuCounted),
                   mirror : {"none", "InProgress", "Completed"}, queueInfo : BOOLEAN]
    /\ {dirty, passOk, wrote} \subseteq BOOLEAN
    /\ listErrors \in 0..MaxListErrors /\ writeErrors \in 0..MaxWriteErrors

\* Reference definition of the counters: Total is the number of objects
\* listed, and each counter the number of them in that phase.
RefCounters(items, counted) ==
    [f \in counted \cup {"Total"} |->
        IF f = "Total" THEN Len(items)
        ELSE Cardinality({i \in DOMAIN items : items[i] = f})]

\* After a pass that returned without error, and until the next event, the
\* persisted counters are the tally of the children in the cache.  A failed
\* r.List is logged as "not critical error" and the pass goes on (lines
\* 783-786, 792-795), and spec section 7 lets the status proceed with
\* best-effort fields; the pass then tallies the empty list it was left
\* with and writes zero counters over the correct ones.
CountersMatchTally ==
    passOk /\ ~dirty =>
        /\ status.pvb = RefCounters(ListOf(cpvb), PvbCounted)
        /\ status.du = RefCounters(ListOf(cdu), DuCounted)

\* The status mirrors the cluster.
Reflects ==
    /\ status.pvb = RefCounters(ListOf(pvb), PvbCounted)
    /\ status.du = RefCounters(ListOf(du), DuCounted)
    /\ status.mirror = bphase

\* Once Velero stops changing the Backup and its children, the NAB status
\* comes to reflect them and stays so: every change reaches the cache, the
\* handlers enqueue the NAB, a failed status write is retried, and the
\* zero counters a failed List leaves behind are replaced on the next pass
\* the resync brings.
EventuallyReflects == <>[]Reflects

\* P6: a status write by the projection pass always changes the status;
\* a repeated pass over unchanged objects writes nothing.
WritesOnlyOnChange == [][wrote' => status' # status]_vars
====
