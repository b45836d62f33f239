\* Appends succeed; the process may die at any point.
CONSTANTS
  b1 = b1
  b2 = b2
  Target = {t1}
  Boot = {b1}
  MaxKey = 2
  MaxGrants = 2
  MaxGeneration = 2
  MaxEpoch = 2
  MaxCapacityGeneration = 2
  MaxPolicyGeneration = 1
  MaxIdempotency = 2
  MaxFences = 1
  Published = {"Known"}
  Graces = {FALSE}
  MaxFaults = 0
  NoGrant = NoGrant
  NoRequest = NoRequest
SPECIFICATION Spec
INVARIANTS
  AuthorityIsCurrent
  OneLiveGrantPerRequest
  FencedNeverAuthorises
  ReleasedStaysReleased
PROPERTIES
  GrantHistoryIsKept
  OldGenerationNeverAuthorises
