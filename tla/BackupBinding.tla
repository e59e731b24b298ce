---------------------------- MODULE BackupBinding ----------------------------
(***************************************************************************)
(* What the NonAdminBackup reconciler promises about the binding between  *)
(* a tenant object and the Velero Backup it creates (spec sections 3 and  *)
(* 4.5), with the API calls, the cache and the passes abstracted away.     *)
(*                                                                         *)
(* A key's object is absent, live, being deleted, or gone.  Its NACUUID is *)
(* stamped at most once and never changes.  The finalizer guards it; the  *)
(* reconciler creates its Backup only while guarded, only under the       *)
(* stamped NACUUID and never while another is live; and the guard is only  *)
(* released, letting the object go, once that Backup is no longer live.   *)
(***************************************************************************)
CONSTANTS Keys, UUIDs, None

VARIABLES
    obj,      \* [Keys -> {"absent", "live", "deleting", "gone"}]
    uuid,     \* [Keys -> UUIDs \cup {None}]: the NACUUID in status
    guarded,  \* [Keys -> BOOLEAN]: the finalizer is on the object
    engine    \* [Keys -> {None} \cup [name: UUIDs, live: BOOLEAN]]

vars == <<obj, uuid, guarded, engine>>

Engines == {None} \cup [name : UUIDs, live : BOOLEAN]

TypeOK ==
    /\ obj \in [Keys -> {"absent", "live", "deleting", "gone"}]
    /\ uuid \in [Keys -> UUIDs \cup {None}]
    /\ guarded \in [Keys -> BOOLEAN]
    /\ engine \in [Keys -> Engines]

Init ==
    /\ obj = [k \in Keys |-> "absent"]
    /\ uuid = [k \in Keys |-> None]
    /\ guarded = [k \in Keys |-> FALSE]
    /\ engine = [k \in Keys |-> None]

Create(k) ==
    /\ obj[k] = "absent" /\ obj' = [obj EXCEPT ![k] = "live"]
    /\ UNCHANGED <<uuid, guarded, engine>>

Stamp(k) ==
    /\ obj[k] \in {"live", "deleting"} /\ uuid[k] = None
    /\ \E u \in UUIDs : uuid' = [uuid EXCEPT ![k] = u]
    /\ UNCHANGED <<obj, guarded, engine>>

Guard(k) ==
    /\ obj[k] = "live" /\ ~guarded[k]
    /\ guarded' = [guarded EXCEPT ![k] = TRUE]
    /\ UNCHANGED <<obj, uuid, engine>>

\* The Backup is (re)created under the stamped NACUUID, never while one is
\* live (spec I1, I2, I4).
Provision(k) ==
    /\ obj[k] \in {"live", "deleting"} /\ guarded[k]
    /\ uuid[k] # None
    /\ engine[k] = None \/ (engine[k] # None /\ ~engine[k].live)
    /\ engine' = [engine EXCEPT ![k] = [name |-> uuid[k], live |-> TRUE]]
    /\ UNCHANGED <<obj, uuid, guarded>>

\* Velero, an admin or the reconciler removes the Backup.
EngineGone(k) ==
    /\ engine[k] # None /\ engine[k].live
    /\ engine' = [engine EXCEPT ![k].live = FALSE]
    /\ UNCHANGED <<obj, uuid, guarded>>

StartDeletion(k) ==
    /\ obj[k] = "live" /\ guarded[k]
    /\ obj' = [obj EXCEPT ![k] = "deleting"]
    /\ UNCHANGED <<uuid, guarded, engine>>

DeleteUnguarded(k) ==
    /\ obj[k] = "live" /\ ~guarded[k]
    /\ obj' = [obj EXCEPT ![k] = "gone"]
    /\ UNCHANGED <<uuid, guarded, engine>>

Release(k) ==
    /\ obj[k] = "deleting" /\ guarded[k]
    /\ engine[k] = None \/ (engine[k] # None /\ ~engine[k].live)
    /\ obj' = [obj EXCEPT ![k] = "gone"]
    /\ guarded' = [guarded EXCEPT ![k] = FALSE]
    /\ UNCHANGED <<uuid, engine>>

Next ==
    \E k \in Keys :
        \/ Create(k) \/ Stamp(k) \/ Guard(k) \/ Provision(k) \/ EngineGone(k)
        \/ StartDeletion(k) \/ DeleteUnguarded(k) \/ Release(k)

Spec == Init /\ [][Next]_vars
====
