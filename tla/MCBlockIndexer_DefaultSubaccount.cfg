SPECIFICATION Spec
CONSTANTS
  ICP = ICP
  CKBTC = CKBTC
  NoAccount = NoAccount
  Tokens = {ICP, CKBTC}
  Cycles = {c1}
  BlockKinds <- DefaultSubaccount
  BatchLen = 1
  InitialNonce = 1
  MaxNonce = 1
  MaxLog = 2
  MaxArchived = 0
  MaxRejects = 0
  MaxOps = 0
INVARIANTS
  EveryDepositIndexed
