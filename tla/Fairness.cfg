\* Three leaves in up to two branches; shares meet every rounding case.
CONSTANTS
  MaxLeaves = 3
  Weights = {1, 3}
  Demands = {0, 1, 3, 4}
  MaxOffer = 8
  Quanta = {1, 2}
SPECIFICATION Spec
CHECK_DEADLOCK FALSE
INVARIANTS
  TypeOK
  DemandSafety
  WorkConserving
  
