SPECIFICATION FairSpec
CONSTANTS
  ICP = ICP
  CKBTC = CKBTC
  NoAccount = NoAccount
  Tokens = {ICP}
  Cycles = {c1}
  BlockKinds <- MintLedger
  BatchLen = 2
  InitialNonce = 1
  MaxNonce = 1
  MaxLog = 2
  MaxArchived = 0
  MaxRejects = 0
  MaxOps = 0
PROPERTIES
  DepositsEventuallyIndexed
