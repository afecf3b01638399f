SPECIFICATION FairSpec
CONSTANTS
  ICP = ICP
  CKBTC = CKBTC
  NoAccount = NoAccount
  Tokens = {ICP}
  c1 = c1
  c2 = c2
  Cycles = {c1, c2}
  BlockKinds <- LateDeposits
  BatchLen = 2
  InitialNonce = 1
  MaxNonce = 2
  MaxLog = 2
  MaxArchived = 0
  MaxRejects = 1
  MaxOps = 1
INVARIANTS
  TypeOK
  NoDepositLost
  RecordsAreLedgerTransfers
  KeyIsBlockIndex
PROPERTIES
  NotifiedOnce
  DepositsEventuallyIndexed
