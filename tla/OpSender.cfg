SPECIFICATION FairSpec
CONSTANTS
  Funds = 2
  MaxAttempts = 2
  MaxFaults = 1
  MaxPushFaults = 2
INVARIANTS
  NoDoubleSpend
  DoneIsRecoverable
PROPERTIES
  DoneIsMined
