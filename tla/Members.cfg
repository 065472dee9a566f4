CONSTANTS
    p1 = p1
    p2 = p2
    s1 = s1
    s2 = s2
    w1 = w1
    w2 = w2
    People = {p1, p2}
    Spaces = {s1, s2}
    Administers <- MCAdministers
    Orgs = {o1, o2}
    Wallets = {w1, w2}
    Holder <- MCHolder
    Accounts = {t1}
    SignerSets <- MCSignerSets
    Stories <- MCStories
    Medium = 1
    Grantable = {4}
    Requests = {r1, r2}
    None = None
    MaxMembers = 3
    MaxChallenges = 2
    MaxCodes = 1
    MaxSpaceCodes = 1

SPECIFICATION Spec
SYMMETRY MCSymmetry
PROPERTIES
    AdminsRemain
    
    
    NothingMoves
CHECK_DEADLOCK FALSE
