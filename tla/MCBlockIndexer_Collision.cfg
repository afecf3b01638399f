SPECIFICATION Spec
CONSTANTS
  ICP = ICP
  CKBTC = CKBTC
  NoAccount = NoAccount
  Tokens = {ICP, CKBTC}
  Cycles = {c1}
  BlockKinds <- TwoLedgers
  BatchLen = 1
  InitialNonce = 2
  MaxNonce = 2
  MaxLog = 2
  MaxArchived = 0
  MaxRejects = 0
  MaxOps = 0
INVARIANTS
  EveryDepositIndexed
