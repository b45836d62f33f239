\* One append, or the check after it, may fail; two targets.
CONSTANTS
  b1 = b1
  b2 = b2
  Target = {t1, t2}
  Boot = {b1}
  MaxKey = 1
  MaxGrants = 1
  MaxGeneration = 3
  MaxEpoch = 2
  MaxCapacityGeneration = 2
  MaxPolicyGeneration = 1
  MaxIdempotency = 1
  MaxFences = 1
  Published = {"Known"}
  Graces = {FALSE}
  MaxFaults = 1
  NoGrant = NoGrant
  NoRequest = NoRequest
SPECIFICATION Spec
INVARIANTS
  TypeOK
  AuthorityIsCurrent
  SubmissionIsDurable
