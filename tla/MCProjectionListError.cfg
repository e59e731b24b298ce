\* One failed List in a pass that returns without error leaves zero
\* counters in the status while the children are in the cache.
CONSTANTS
    p1 = p1
    p2 = p2
    d1 = d1
    Pvbs <- OnePvb
    Dus <- MCDus
    MaxListErrors = 1
    MaxWriteErrors = 0
SPECIFICATION Spec
INVARIANT CountersMatchTally
