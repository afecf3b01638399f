SPECIFICATION Spec
CONSTANTS
  ICP = ICP
  CKBTC = CKBTC
  icp = icp
  local = local
  btc = btc
  test = test
  Tokens = {ICP, CKBTC}
  Ledgers = {icp, local, btc, test}
  ICPLedgers = {icp, local}
  InitLedger = local
  BuiltIn <- LedgersInCode
  Registrable <- Moves
  BatchLen = 2
  Cycles = {c1}
  Deposits <- DepositBlocks
  MaxHeight = 2
  Size <- Sizes
INVARIANTS
  TypeOK
  RecordsNameTheirLedger
  PaidWhereFound
  MissedOnlyByMove
