SPECIFICATION BuilderSpec
CONSTANTS
  m1 = m1  m2 = m2
  system1 = system1  init1 = init1  eth1 = eth1  system2 = system2
  a1 = a1
  NoActor = NoActor  None = None
  Ids = {0, 1, 2, 3}
  SystemId = 0
  InitId = 1
  FirstId = 2
  Addresses = {a1}
  TypeIds = {1, 2, 16, 17}
  Codes = {system1, init1, eth1, system2}
  Manifests = {m1, m2}
  CodeById <- MCCodeById
  Bundles <- MCBundles
  PlainStates <- MCPlainStates
  Singletons <- MCSingletons
  Accounts <- MCAccounts
  Balances = {0}
  MaxRoots = 2
  MaxBenches = 2
INVARIANT BuilderTypeOK
INVARIANT ManifestNamed
INVARIANT AddressesHaveActors
INVARIANT NewIdsFree
INVARIANT BenchesComplete
INVARIANT CodesReported
CHECK_DEADLOCK FALSE
