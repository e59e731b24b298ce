\* Single binding, deletion progress and the status mirror of the
\* reconciler for one NonAdminBackup
\* when every Get and List is served by the informer cache, whose three
\* kinds lag independently (the manager's default client).
CONSTANTS
  n1 = n1  n2 = n2  nsA = nsA  nsB = nsB  u1 = u1  u2 = u2  u3 = u3  u4 = u4
  None = None  Invalid = Invalid
  Nabs <- OneNab
  Namespaces <- MCNamespaces
  NsOf <- MCNsOf1
  UUIDs <- MCUUIDs
  PreExisting <- MCNoPreExisting
  SyncLabels <- SyncLabelsNone1
  CachedReads = TRUE
  MaxEdits = 0
  MaxFaults = 0
  MaxDeleteRequests = 2
SPECIFICATION FairSpec
VIEW View
INVARIANT SingleBackupPerNab
PROPERTY DeletionCompletes
PROPERTY MirrorCurrentUnlessReborn
\* The controller idles with an empty work queue once every object is settled.
CHECK_DEADLOCK FALSE
