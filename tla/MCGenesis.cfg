SPECIFICATION GenesisSpec
CONSTANTS
  m1 = m1  m2 = m2
  key_signer = key_signer  key_root = key_root  key_faucet = key_faucet  key_other = key_other
  NoActor = NoActor  None = None
  Ids = {0, 1, 2, 3, 4, 5, 6, 7, 10, 99, 100, 101, 102, 103}
  SystemId = 0
  InitId = 1
  FirstId = 100
  Addresses = {key_signer, key_root, key_faucet, key_other}
  CallerAddresses = {key_other}
  RootAddress = key_root
  TypeIds = {1, 2, 3, 4, 5, 7, 9, 10, 11, 12, 15}
  Codes = {1, 2, 3, 4, 5, 7, 9, 10, 11, 12, 15}
  Manifests = {m1, m2}
  CodeById <- MCCodeById
  Bundles <- MCBundles
  PlainStates <- MCPlainStates
  Singletons <- MCSingletons
  Accounts <- MCAccounts
  Specs <- MCSpecs
  Balances = {0, 9}
  CallerBalances = {9}
  MaxCalls = 2
  MaxRoots = 1
  MaxBenches = 1
INVARIANT GenesisIds
INVARIANT GenesisLinked
INVARIANT SupplyAgrees
INVARIANT GenesisBuildable
CHECK_DEADLOCK FALSE
