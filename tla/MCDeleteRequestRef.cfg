\* Is the DeleteBackupRequest a graceful delete creates recorded in status?
CONSTANTS
  n1 = n1  n2 = n2  nsA = nsA  nsB = nsB  u1 = u1  u2 = u2  u3 = u3  u4 = u4
  None = None  Invalid = Invalid
  Nabs <- OneNab
  Namespaces <- MCNamespaces
  NsOf <- MCNsOf1
  UUIDs <- MCUUIDs
  PreExisting <- MCPreExisting
  SyncLabels <- SyncLabelsOwn1
  CachedReads = FALSE
  MaxEdits = 0
  MaxFaults = 0
  MaxDeleteRequests = 2
SPECIFICATION Spec
VIEW View
INVARIANT DeleteRequestRecorded
\* The controller idles with an empty work queue once every object is settled.
CHECK_DEADLOCK FALSE
