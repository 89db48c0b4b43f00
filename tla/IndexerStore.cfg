CONSTANTS
  Users = {"alice", "bob", "module"}
  Module = "module"
  NoParent = NoParent
  Items <- MCItems
  Histories <- MCHistories
  MaxSupply = 4
  Minters = {"alice"}
  Dests = {"bob", "module"}
  MaxHeight = 4
  MaxEvents = 2
  MaxBoots = 3
SPECIFICATION Spec
CHECK_DEADLOCK FALSE
INVARIANTS
  BalancesSurvive
  ModuleSurvives
