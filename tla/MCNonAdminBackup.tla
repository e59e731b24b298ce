------------------------- MODULE MCNonAdminBackup --------------------------
(***************************************************************************)
(* Model-checking instance: two NonAdminBackups in two tenant namespaces,  *)
(* three UUIDs, one of which names a Velero Backup that survives from an  *)
(* earlier NonAdminBackup of namespace nsA (the object a sync label        *)
(* adopts).                                                                *)
(***************************************************************************)
EXTENDS NonAdminBackup, TLC

CONSTANTS n1, n2, nsA, nsB, u1, u2, u3, u4

MCNabs       == {n1, n2}
OneNab       == {n1}
MCNamespaces == {nsA, nsB}
MCNsOf       == (n1 :> nsA @@ n2 :> nsB)
MCNsOf1      == (n1 :> nsA)
MCUUIDs      == {u1, u2, u3}
\* A stale cached read may show NACUUID unset after it was written, and
\* the pass then mints a second UUID (its write conflicts): one more.
MCUUIDs4     == {u1, u2, u3, u4}

\* u3 is a Backup left by an earlier NonAdminBackup n1 of nsA.
\* u1 is free for minting; u2 was made for a namespace outside the model;
\* u3 was left by an earlier NonAdminBackup of n1.
MCPreExisting == (u1 :> None @@ u2 :> Foreign @@ u3 :> n1)
MCPreExisting4 == (u4 :> None) @@ MCPreExisting
\* No Backup exists at start (runs where no sync label is set).
MCNoPreExisting4 == [u \in MCUUIDs4 |-> None]
MCNoPreExisting == [u \in MCUUIDs |-> None]

\* Tenants label only with a Backup of their own namespace (what the
\* backup-sync controller does).
SyncLabelsOwn == (n1 :> {u3} @@ n2 :> {})
SyncLabelsOwn1 == (n1 :> {u3})
\* n1 may also adopt the foreign Backup's UUID.
SyncLabelsMixed1 == (n1 :> {u2, u3})
SyncLabelsForeign1 == (n1 :> {u2})
SyncLabelsInvalid1 == (n1 :> {Invalid})
SyncLabelsNone1 == (n1 :> {})
\* A tenant of nsB labels with the UUID of nsA's Backup.
SyncLabelsForeign == (n1 :> {} @@ n2 :> {u3})
\* A tenant sets the sync label to a value that is not a valid UUID ("").
SyncLabelsInvalid == (n1 :> {Invalid} @@ n2 :> {})
=============================================================================
