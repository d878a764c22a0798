CONSTANTS
  k1 = k1
  k2 = k2
  v1 = v1
  v2 = v2
  Key = {k1, k2}
  Value = {v1, v2}
  Batch <- Batches
  Nothing = Nothing
  TornName = TornName
  MaxCommits = 2
  MaxFaults = 2
SYMMETRY StoreSymmetry
SPECIFICATION Spec
INVARIANTS IndexedKeysHaveFiles SavedClientCanLoad
PROPERTY ImplementsDataSet
