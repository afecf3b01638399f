SPECIFICATION Spec
CONSTANTS
  ICP = ICP
  CKBTC = CKBTC
  NoPrincipal = NoPrincipal
  controller = controller
  operator = operator
  c1 = c1
  c2 = c2
  Principals = {controller, operator}
  Controllers = {controller}
  Tokens = {ICP, CKBTC}
  Hash <- HashScattered
  UpgradeInterval = 500
  Intervals = {5, 60}
  Calls = {c1, c2}
  InitialNonces = {0, 1}
  MaxNonce = 3
  MaxBlock = 2
INVARIANTS
  TypeOK
  OneTimer
  AddressesStayKnown
  CursorsKept
  CustodianCanOperate
