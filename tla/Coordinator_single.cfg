\* Appends succeed; the process may die at any point.
CONSTANTS
  b1 = b1
  b2 = b2
  Target = {t1}
  Boot = {b1, b2}
  MaxKey = 1
  MaxGrants = 1
  MaxGeneration = 4
  MaxEpoch = 3
  MaxCapacityGeneration = 2
  MaxPolicyGeneration = 2
  MaxIdempotency = 1
  MaxFences = 1
  Published = {"Known", "Unknown", "Stale"}
  Graces = {FALSE, TRUE}
  MaxFaults = 0
  NoGrant = NoGrant
  NoRequest = NoRequest
SPECIFICATION Spec
SYMMETRY BootSymmetry
INVARIANTS
  FencedNeverAuthorises
  ReleasedStaysReleased
PROPERTIES
  GrantHistoryIsKept
  OldGenerationNeverAuthorises
