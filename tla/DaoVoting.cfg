SPECIFICATION Spec
CONSTANTS
  ann = ann
  bob = bob
  cid = cid
  r = r
  tok = tok
  Accounts <- MCAccounts
  Recipients <- None
  Tokens <- MCTokens
  Actions <- VoteActions
  Foundings <- VoteFoundings
  Policies <- VotePolicies
  Amounts = {1}
  U32Max = 4
  MaxProposals = 2
  MaxTime = 2
  MaxBalance = 0
INVARIANTS ListsAgree NeverLockedOut TalliesExact ClosedMajority
PROPERTIES EarlyVerdictIsLast
CHECK_DEADLOCK FALSE
