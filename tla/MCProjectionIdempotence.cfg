\* P6: a repeated pass over unchanged objects issues no status write.
CONSTANTS
    p1 = p1
    p2 = p2
    d1 = d1
    Pvbs <- MCPvbs
    Dus <- MCDus
    MaxListErrors = 0
    MaxWriteErrors = 0
SPECIFICATION Spec
PROPERTY WritesOnlyOnChange
