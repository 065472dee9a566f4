SPECIFICATION Spec
CONSTANTS
  ann = ann
  bob = bob
  cid = cid
  r = r
  tok = tok
  Accounts <- MCAccounts
  Recipients <- MCRecipients
  Tokens <- MCTokens
  Actions <- SpendActions
  Foundings <- SpendFoundings
  Policies <- SpendPolicies
  Amounts = {1, 3}
  U32Max = 4
  MaxProposals = 1
  MaxTime = 5
  MaxBalance = 3
INVARIANTS SpendsAtMostTwice
PROPERTIES KeepsPromise
CHECK_DEADLOCK FALSE
