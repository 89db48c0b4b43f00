SPECIFICATION Spec
CONSTANTS
  Levels = 4
  Keys <- MCKeys
  Leaves <- MCLeaves
  MaxSum = 6
  Backends = {"memory", "sql"}
INVARIANTS RootIsCanonical ProofsBind RowsAreExact
