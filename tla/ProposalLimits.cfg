SPECIFICATION FairSpec
CONSTANTS
  ann = ann
  bob = bob
  mia = mia
  adm = adm
  acme = acme
  t1 = t1
  t2 = t2
  t3 = t3
  v1 = v1
  q1 = q1
  q2 = q2
  c1 = c1
  usd = usd
  none = none
  xlm = xlm
  None = none
  Native = xlm
  Asset <- USD
  BaseReserve = 1
  Orgs = {acme}
  Callees = {}
  ContractCalls = TRUE
  Members = {mia, adm}
  Home <- AtAcme
  RoleOf <- Roles
  Holdings <- Accounts
  Markets <- Books
  Keys = {ann, bob}
  Requests = {q1, q2}
  TTL = 1
  Codes = {1}
  Treasuries <- ManyTreasuries
  Vaults = {v1}
  OrgOf <- ManyOrg
  Policy <- Limited
  MaxPayment = 2
  MaxDaily = 2
  Asks <- LimitAsks
  Handovers <- NoHandovers
  SignerSets <- Sole
  Day = 2
  MaxProposals = 3
  MaxSeq = 0
  MaxTime = 2
INVARIANTS CeilingsHold
PROPERTIES EveryProposalCloses
