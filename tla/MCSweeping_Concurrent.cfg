SPECIFICATION Spec
CONSTANTS
  ICP = ICP
  CKBTC = CKBTC
  NoAccount = NoAccount
  c1 = c1
  c2 = c2
  Tokens <- BothTokens
  Filings <- SharedKey
  Fee <- FeeOne
  Modulus = 16
  BatchMax = 2
  Calls = {c1, c2}
  Commands <- AllCommands
  MaxAmount = 1
SYMMETRY CallSymmetry
INVARIANTS
  TypeOK
  SweptWasPaid
  UnsweptUnpaid
PROPERTIES
  RecordsStay
