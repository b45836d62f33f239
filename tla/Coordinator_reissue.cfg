\* Two requests and one failed append in a round.
CONSTANTS
  b1 = b1
  b2 = b2
  Target = {t1}
  Boot = {b1}
  MaxKey = 2
  MaxGrants = 2
  MaxGeneration = 2
  MaxEpoch = 1
  MaxCapacityGeneration = 1
  MaxPolicyGeneration = 1
  MaxIdempotency = 2
  MaxFences = 0
  Published = {"Known"}
  Graces = {FALSE}
  MaxFaults = 1
  NoGrant = NoGrant
  NoRequest = NoRequest

SPECIFICATION Spec

PROPERTY GenerationNeverReused
