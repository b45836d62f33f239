SPECIFICATION Spec
CONSTANTS
  MaxWrites = 7
  CompactAt = 2
  MaxJournal = 3
  MaxSnapshots = 2
  Faults = {"unsynced", "io"}
  MaxFaults = 3
INVARIANTS  NothingLost  
PROPERTY ImplementsLog
