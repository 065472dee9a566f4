SPECIFICATION Spec
CONSTANTS
    m1 = m1
    m2 = m2
    a1 = a1
    b1 = b1
    a2 = a2
    r1 = r1
    r2 = r2
    None = None
    Members <- MCMembers
    Addresses <- MCAddresses
    DeviceOf <- MCDeviceOf
    Wallets <- MCLinked
    Requests <- MCRequests
    Caps = {1}
    GlobalCap = 1
    Day = 9
    TTL = 1
    HasTreasury = TRUE
    MaxRows = 3
    MaxBalance = 1
    MaxTime = 1
INVARIANTS
    SubmittedOnce
    OneAccountEach
    NearlyWithinCap
    HandedBackIsForgotten
CHECK_DEADLOCK FALSE
