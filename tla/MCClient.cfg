SPECIFICATION Spec
CONSTANTS
  ICP = ICP
  CKBTC = CKBTC
  None = None
  vault = vault
  other = other
  ledger = ledger
  alice = alice
  bob = bob
  Owners = {vault, other, ledger}
  Converted = {ledger}
  SubDigits = 6
  IndexDigits = 4
  Crc <- CrcLike
  Clients = {alice, bob}
  Registered <- Tokens
  Canister = vault
  AccountId <- Ids
  FirstNonces = {0, 15}
  Usize = 4
  DefaultCount = 2
  TypedDigits = {0, 1, 15}
  MaxNonce = 19
  MaxTxs = 3
INVARIANTS
  TypeOK
  OwnUnlessOvertaken
  NamesAgree
  SlipsAreCaught
  ReadsBackInBytes
  ListsNewest
CHECK_DEADLOCK FALSE
