CONSTANTS
  Requests = {1, 2}
  Asks <- BookAsks
  Policies <- BookPolicies
  Supplies <- BookSupplies
  Obligations = {1}
  Amounts = {2}
  Generations = {1, 2}
  MaxRounds = 2
  MaxPublished = 2
SPECIFICATION Spec
INVARIANTS NoOversubscription RetirementRestores
PROPERTY NeverShrunkInPlace
