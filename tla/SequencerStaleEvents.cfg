SPECIFICATION Spec
CONSTANTS
  o1 = o1
  o2 = o2
  o3 = o3
  Ops <- MCOps
  NoOp = NoOp
  CommitPerSize = 2
  SnapshotPerSize = 1
  VerifyCommit = FALSE
  VerifyCommitFatalNum = 2
  MaxFailures = 0
  MaxCrashes = 0
  LateFailures = FALSE
SYMMETRY OpSymmetry
INVARIANTS
  NothingAppliedTwice
