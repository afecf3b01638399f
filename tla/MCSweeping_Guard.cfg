SPECIFICATION Spec
CONSTANTS
  ICP = ICP
  CKBTC = CKBTC
  NoAccount = NoAccount
  c1 = c1
  c2 = c2
  Tokens <- OneToken
  Filings <- Shared
  Fee <- FeeOne
  Modulus = 16
  BatchMax = 2
  Calls = {c1, c2}
  Commands <- Sweeps
  MaxAmount = 0
INVARIANTS
  OneRequestPerPrincipal
