SPECIFICATION SweptSpec
CONSTANTS
  ICP = ICP
  CKBTC = CKBTC
  NoAccount = NoAccount
  c1 = c1
  c2 = c2
  Tokens <- BothTokens
  Filings <- Mixed
  Fee <- ICPFeeLarger
  Modulus = 16
  BatchMax = 2
  Calls = {c1}
  Commands <- SweepsAndClear
  MaxAmount = 0
INVARIANTS
  PaidOnce
  FundsMatchRecords
  SweepsAreFunded
PROPERTIES
  PayoutKept
  CallsReturn
  SweepsDrain
