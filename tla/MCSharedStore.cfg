SPECIFICATION SharedSpec
CONSTANTS
  i1 = i1  key1 = key1
  s1 = s1
  NoActor = NoActor
  ActorIds = {i1}
  Addresses = {key1}
  IdOf <- MCIdOf
  IdAddresses = {key1}
  States = {s1}
  Values = {0}
  MaxSequence = 0
PROPERTY EachIsABench
