SPECIFICATION Spec
CONSTANTS
  MaxWrites = 6
  CompactAt = 2
  MaxJournal = 3
  MaxSnapshots = 2
  Faults = {"unsynced", "torn", "tail", "header", "io", "rot"}
  MaxFaults = 3
INVARIANTS ReplayedInOrder
CHECK_DEADLOCK FALSE
