SPECIFICATION Spec
CONSTANTS
  ann = ann
  bob = bob
  cid = cid
  r = r
  tok = tok
  Accounts <- MCAccounts
  Recipients <- MCRecipients
  Tokens <- MCTokens
  Actions <- StopActions
  Foundings <- StopFoundings
  Policies <- StopPolicies
  Amounts = {1}
  U32Max = 4
  MaxProposals = 2
  MaxTime = 3
  MaxBalance = 1
INVARIANTS  StoppingNeverWaits
PROPERTIES KeepsPromise VerdictsStand
CHECK_DEADLOCK FALSE
