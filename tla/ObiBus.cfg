SPECIFICATION Spec
CONSTANTS
    HostCount = 2
    DeviceCount = 2
    BufferMax = 4
    a0 = a0
    a1 = a1
    aBoth = aBoth
    aNone = aNone
    t1 = t1
    t2 = t2
    Addr <- MCAddr
    Claims <- MCClaims
    Tag = {t1, t2}
    ErrTag = {t2}
    Request <- MCRequest
    None = None
    Zero = Zero
INVARIANTS
    TypeOK
    FreeSlotsClean
    WaitersMatchDevices
PROPERTIES
    ResponsesInOrder
VIEW LiveData
