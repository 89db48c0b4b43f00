\* The deployed fee rate, and one so high that few swaps grow a pool enough for
\* the protocol's LP fee to be minted.
SPECIFICATION MCSpec
CONSTANTS
  u1 = u1
  u2 = u2
  FeeTo = feeTo
  Zero = zero
  Users <- MCUsers
  Ticks <- MCTicks
  Deposit <- MCDeposit
  Amounts = {3, 12}
  Expects = {1, 3}
  Slippages = {0, 500}
  MinLiquidity = 2
  SwapFeeRates1000 = {7, 900}
  MaxCalls = 6
INVARIANTS
  NoRoundTripProfit
  QuoteHonoured
PROPERTIES
  ShareValueNeverFalls
