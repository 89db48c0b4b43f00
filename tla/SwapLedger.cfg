SPECIFICATION Spec
CONSTANTS
  Users = {"alice", "bob", "zero", "module", "burn"}
  Active = {"alice", "bob"}
  Ticks = {"a"}
  SelfMint = {}
  Zero = "zero"
  Sequencer = "bob"
  GasTo = "alice"
  LpFeeTo = "bob"
  GasTick = "a"
  FeeRate = 3
  MinLp = 1
  Module = "module"
  Burn = "burn"
  MaxSupply <- LedgerSupply
  Limit <- LedgerLimit
  Amounts = {1, 2}
  Dests = {"alice", "bob", "module", "burn"}
  Inscribers = {"alice", "bob"}
  Commits <- LedgerCommits
  Quota <- LedgerQuota
  Starts <- LedgerStarts
  MaxIns = 3
  MaxMoves = 3
  Names <- LedgerNames
  HeightPasses = TRUE
CHECK_DEADLOCK FALSE
INVARIANTS SupplyIsHeld ModuleBacked PendingIsBacked MatchedAtMostOnce
PROPERTIES VerifiedStaysGood
