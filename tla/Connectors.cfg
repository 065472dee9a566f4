SPECIFICATION Spec
CONSTANTS
    Requests = {q1, q2}
    Ends = {e1, e2}
    Surfaces = {s1, s2}
    Threshold = 2
    CoolDown = 1
    TokenLife = 1
    MaxTime = 3
    MaxClients = 3
    MaxFlights = 3
    Hour = 2
    Stories <- MCStories
    MaxRows = 2
    MaxRevs = 2
    MaxGrants = 2
    Answers <- MCAnswers
    Documents <- MCDocuments
    Lists <- MCLists
    Names <- MCNames
    Figures <- MCFigures
    Addresses <- MCAddresses
    MaxSeen = 4
    MaxColumns = 3
    MaxPlaces = 2
    MaxPaid = 3
    MaxDrafts = 2
    MaxProposals = 2
    MaxTokens = 1
SYMMETRY Interchangeable
INVARIANTS GrantsDescribe CallsAsSigned RateHeld BreakerAgrees WaitersAreServed PaysWhatWasRead
CHECK_DEADLOCK FALSE
