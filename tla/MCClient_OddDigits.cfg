SPECIFICATION Spec
CONSTANTS
  ICP = ICP
  CKBTC = CKBTC
  None = None
  vault = vault
  other = other
  ledger = ledger
  alice = alice
  bob = bob
  Owners = {vault, other, ledger}
  Converted = {}
  SubDigits = 6
  IndexDigits = 4
  Crc <- CrcLike
  Clients = {alice}
  Registered <- Tokens
  Canister = vault
  AccountId <- Ids
  FirstNonces = {5}
  Usize = 4
  DefaultCount = 2
  TypedDigits = {0, 1, 15}
  MaxNonce = 7
  MaxTxs = 1
INVARIANT ShownAddressesRead
CHECK_DEADLOCK FALSE
