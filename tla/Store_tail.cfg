SPECIFICATION Spec
CONSTANTS
  MaxWrites = 4
  CompactAt = 2
  MaxJournal = 3
  MaxSnapshots = 2
  Faults = {"tail"}
  MaxFaults = 4
INVARIANT NothingLost
