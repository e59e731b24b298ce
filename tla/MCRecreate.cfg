\* No removed Velero Backup is ever created again (reads from the API server).
CONSTANTS
  n1 = n1  n2 = n2  nsA = nsA  nsB = nsB  u1 = u1  u2 = u2  u3 = u3  u4 = u4
  None = None  Invalid = Invalid
  Nabs <- OneNab
  Namespaces <- MCNamespaces
  NsOf <- MCNsOf1
  UUIDs <- MCUUIDs4
  PreExisting <- MCPreExisting4
  SyncLabels <- SyncLabelsMixed1
  CachedReads = FALSE
  MaxEdits = 1
  MaxFaults = 1
  MaxDeleteRequests = 2
SPECIFICATION Spec
VIEW View
PROPERTY NoRecreatedBackup
\* The controller idles with an empty work queue once every object is settled.
CHECK_DEADLOCK FALSE
