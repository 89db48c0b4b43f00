SPECIFICATION Spec
CONSTANTS
  o1 = o1
  o2 = o2
  o3 = o3
  Ops <- MCOps
  NoOp = NoOp
  CommitPerSize = 2
  SnapshotPerSize = 1
  VerifyCommit = TRUE
  VerifyCommitFatalNum = 2
  MaxFailures = 1
  MaxCrashes = 2
  LateFailures = TRUE
SYMMETRY OpSymmetry
INVARIANTS
  ForkedOnlyIfLost
  SavedIsPrefix
  ParentSentBefore
  InscribedIsClosed
  AcceptedIsKept
PROPERTIES
  CommitOnlyGrows
