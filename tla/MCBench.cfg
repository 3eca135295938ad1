SPECIFICATION BenchSpec
CONSTANTS
  i1 = i1  i2 = i2
  id1 = id1  key1 = key1  key2 = key2
  s1 = s1  s2 = s2
  NoActor = NoActor
  ActorIds = {i1, i2}
  Addresses <- MCAddresses
  IdOf <- MCIdOf
  IdAddresses = {id1}
  States = {s1}
  Values = {0, 1}
  MaxSequence = 2
INVARIANT BenchTypeOK
INVARIANT StatesStored
INVARIANT RootStored
PROPERTY ImplementsAbstractBench
