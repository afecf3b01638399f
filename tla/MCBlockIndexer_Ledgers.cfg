SPECIFICATION Spec
CONSTANTS
  ICP = ICP
  CKBTC = CKBTC
  NoAccount = NoAccount
  Tokens = {ICP, CKBTC}
  Cycles = {c1}
  BlockKinds <- TwoTrapLedgers
  BatchLen = 2
  InitialNonce = 2
  MaxNonce = 2
  MaxLog = 2
  MaxArchived = 1
  MaxRejects = 0
  MaxOps = 0
INVARIANTS
  NoDepositLost
  RecordsAreLedgerTransfers
PROPERTIES
  RecordsAreStable
  BookKept
