CONSTANTS
  Requests = {1, 2, 3}
  Asks <- PoolAsks
  Policies <- PoolPolicies
  Supplies <- PoolSupplies
  Obligations = {1}
  Amounts = {2}
  Generations = {1}
  MaxRounds = 1
  MaxPublished = 1
SPECIFICATION Spec
INVARIANTS TypeOK MinimaFirst StrictPriority WorkConserving
