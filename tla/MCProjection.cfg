\* The projection pass with one PodVolumeBackup, no DataUpload, one failed
\* List and one failed status write: the status converges once Velero
\* finishes.
CONSTANTS
    p1 = p1
    p2 = p2
    d1 = d1
    Pvbs <- OnePvb
    Dus <- MCDus
    MaxListErrors = 1
    MaxWriteErrors = 1
SPECIFICATION FairSpec
VIEW ConvergenceView
INVARIANT TypeOK
PROPERTY EventuallyReflects
