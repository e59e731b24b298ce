\* A Backup the reconciler created outlives its NonAdminBackup when the
\* delete paths read a Backup cache that has not yet seen the Backup.
CONSTANTS
  n1 = n1  n2 = n2  nsA = nsA  nsB = nsB  u1 = u1  u2 = u2  u3 = u3  u4 = u4
  None = None  Invalid = Invalid
  Nabs <- OneNab
  Namespaces <- MCNamespaces
  NsOf <- MCNsOf1
  UUIDs <- MCUUIDs4
  PreExisting <- MCPreExisting4
  SyncLabels <- SyncLabelsNone1
  CachedReads = TRUE
  MaxEdits = 0
  MaxFaults = 0
  MaxDeleteRequests = 2
SPECIFICATION Spec
VIEW View
INVARIANT NoOrphanBackup
\* The controller idles with an empty work queue once every object is settled.
CHECK_DEADLOCK FALSE
