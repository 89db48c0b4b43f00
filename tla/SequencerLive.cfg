SPECIFICATION FairSpec
CONSTANTS
  o1 = o1
  o2 = o2
  o3 = o3
  Ops <- MCTwoOps
  NoOp = NoOp
  CommitPerSize = 2
  SnapshotPerSize = 1
  VerifyCommit = TRUE
  VerifyCommitFatalNum = 2
  MaxFailures = 3
  MaxCrashes = 0
  LateFailures = FALSE
INVARIANTS
  LinearChain
  FreshRebuildIsExact
PROPERTIES
  AcceptedIsInscribed
  AlwaysOpensAgain
