SPECIFICATION Spec
CONSTANTS
    t1 = t1
    t2 = t2
    t3 = t3
    m1 = m1
    m2 = m2
    a1 = a1
    a2 = a2
    Nobody = Nobody
    Task <- MCTask
    Mem = {m1, m2}
    Addr = {a1, a2}
    Unmapped = {a2}
    Val = {0, 1}
    Zero = 0
    MemOf <- MCMemOfTwo
    ClearTid <- MCClearTid
    MaxCount = 1
PROPERTIES
    WokenReturns
