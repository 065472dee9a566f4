SPECIFICATION FairSpec
CONSTANTS
  none = none
  acme = acme
  zeta = zeta
  xlm = xlm
  usd = usd
  vault = vault
  safe = safe
  wallet = wallet
  other = other
  vaultAcc = vaultAcc
  safeAcc = safeAcc
  walletAcc = walletAcc
  ext1 = ext1
  ext2 = ext2
  Orgs = {acme, zeta}
  Accounts <- MCAccounts
  OrgOf <- Apart
  External <- MCExternal
  Addresses <- MCAddresses
  Nobody = none
  Home <- MCHome
  Links <- MCLinks
  Assets = {xlm, usd}
  Streams = {"operations", "transfers"}
  Initial <- MCInitial
  Histories <- BooksHistories
  PageSize = 2
  MaxCrashes = 1
INVARIANTS TypeOK NothingLost NothingInvented
 
CHECK_DEADLOCK FALSE
