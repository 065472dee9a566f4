SPECIFICATION Spec
CONSTANTS
    m1 = m1
    m2 = m2
    Members = {m1, m2}
    RoleOf <- MCRole
    Wallet <- MCWallet
    Contracts = {c1}
    Histories <- MCHistories
    Actions <- MCActions
    Notes = {n0, n1}
    NoNote = n0
    Relay = Relay
    None = None
    Requests = {r1, r2}
    Quorum = 50
    Approval = 60
    Voting = 1
    Lifetime = 2
    SorobanTimeout = 1
    KeepFloor = 2
    KeepTarget = 4
    KeepLeast = 1
    KeepCeiling = 2
    RentPerLedger = 1
    MaxCalls = 1
    MaxProposals = 2
    MaxSeq = 2
    Busy = {m2}
    Purses <- MCPurses
    MaxTime = 2
SYMMETRY Symmetry
CHECK_DEADLOCK FALSE
INVARIANTS
    TypeOK
    UnclaimedNothingSent
    LandedIsTrue
    
    
