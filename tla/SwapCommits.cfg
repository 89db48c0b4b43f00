SPECIFICATION Spec
CONSTANTS
  Users = {"alice", "bob", "zero", "module", "burn"}
  Active = {"alice", "bob"}
  Ticks = {"a", "b"}
  SelfMint = {}
  Zero = "zero"
  Sequencer = "bob"
  GasTo = "alice"
  LpFeeTo = "alice"
  GasTick = "a"
  FeeRate = 500
  MinLp = 1
  Module = "module"
  Burn = "burn"
  MaxSupply <- CommitSupply
  Limit <- CommitLimit
  Amounts = {40}
  Dests = {"module"}
  Inscribers = {"bob"}
  Commits <- CommitCommits
  Quota <- CommitQuota
  Starts <- CommitStarts
  MaxIns = 4
  MaxMoves = 2
  Names = {}
  HeightPasses = FALSE
CHECK_DEADLOCK FALSE
INVARIANTS PoolKeepsValue LpMapsAgree
PROPERTIES CommitIsAtomic CommitsFormOneChain
