------------------------------ MODULE SwapPool ------------------------------
(***************************************************************************)
(* The life of the pools: users call the contract's functions in any order *)
(* and with any amounts, as Space.aggregate does for every function the    *)
(* operator accepts (gas and decreaseApproval belong to module Space).     *)
(* The quotes of domain/operator.ts, which a client asks for before it     *)
(* signs, are operators on the same contract state.                        *)
(***************************************************************************)
EXTENDS Contract, FiniteSetsExt, Functions

CONSTANTS Amounts,     \* the amounts users ask for
          Expects,     \* the results they expect
          Slippages,   \* the slippages they accept, in 1/1000
          Deposit      \* what every user holds of every tick at first

ASSUME InputsAssumption == /\ Amounts \subseteq Nat \ {0}
                           /\ Expects \subseteq Nat
                           /\ Slippages \subseteq 0..1000
                           /\ Deposit \in [Users -> [Ticks -> Nat]]

\* Nobody owns the address "0", and no address is the name of a pair.
ASSUME AddressAssumption == /\ IsFiniteSet(Users) /\ IsFiniteSet(Ticks)
                            /\ Zero \notin Users \cup {FeeTo}
                            /\ (Users \cup {FeeTo, Zero}) \cap Pairs = {}

VARIABLE contract

Deposited(t) ==
  LET held == [u \in Users |-> Deposit[u][t]]
  IN  [balance |-> [a \in Addrs |-> IF a \in Users THEN held[a] ELSE 0],
       supply  |-> SumFunction(held)]

Init ==
  \E rate \in SwapFeeRates1000 :
    contract = [assets |-> [t \in Ticks |-> Deposited(t)],
                lps    |-> [p \in Pairs |-> EmptyBrc20],
                pools  |-> {},
                kLast  |-> [p \in Pairs |-> 0],
                swapFeeRate1000 |-> rate]

DeployPool(tickA, tickB) ==
  /\ CanDeployPool(contract, tickA, tickB)
  /\ contract' = deployPool(contract, tickA, tickB)

AddLiq(user, p, amount0, amount1, expect, slippage1000) ==
  /\ CanAddLiq(contract, user, p, amount0, amount1, expect, slippage1000)
  /\ contract' = addLiq(contract, user, p, amount0, amount1)

RemoveLiq(user, p, lp, amount0, amount1, slippage1000) ==
  /\ CanRemoveLiq(contract, user, p, lp, amount0, amount1, slippage1000)
  /\ contract' = removeLiq(contract, user, p, lp)

Swap(user, tickIn, tickOut, exactIn, amount, expect, slippage1000) ==
  /\ CanSwap(contract, user, tickIn, tickOut, exactIn, amount, expect, slippage1000)
  /\ contract' = swap(contract, user, tickIn, tickOut, exactIn, amount)

Send(tick, from, to, amount) ==
  /\ CanSend(contract, tick, from, amount)
  /\ contract' = send(contract, tick, from, to, amount)

Next ==
  \/ \E tickA, tickB \in Ticks : DeployPool(tickA, tickB)
  \/ \E user \in Users, p \in Pairs, amount0, amount1 \in Amounts,
        expect \in Expects, slippage1000 \in Slippages :
        AddLiq(user, p, amount0, amount1, expect, slippage1000)
  \/ \E user \in Users \cup {FeeTo}, p \in Pairs, lp \in Amounts,
        amount0, amount1 \in Expects, slippage1000 \in Slippages :
        RemoveLiq(user, p, lp, amount0, amount1, slippage1000)
  \/ \E user \in Users, tickIn, tickOut \in Ticks, exactIn \in BOOLEAN,
        amount \in Amounts, expect \in Expects, slippage1000 \in Slippages :
        /\ tickIn # tickOut
        /\ Swap(user, tickIn, tickOut, exactIn, amount, expect, slippage1000)
  \/ \E tick \in Ticks, from, to \in Users, amount \in Amounts :
        Send(tick, from, to, amount)

Spec == Init /\ [][Next]_contract

(***************************************************************************)
(* The quotes of domain/operator.ts.                                       *)
(***************************************************************************)

\* isProportional: one amount divides the other.  The pool's reserves play
\* no part in it.
isProportional(amount0, amount1) ==
  amount0 > 0 /\ amount1 > 0 /\ (amount0 % amount1 = 0 \/ amount1 % amount0 = 0)

\* quoteAddLiq for a pool with liquidity, when the client gives the amount of
\* side i (1 or 2): the amounts to sign and the LP to expect.
quoteAddLiq(c, p, i, amount) ==
  LET poolLp == c.lps[p].supply + getFeeLp(c, p)
      other  == (amount * Reserve(c, p, 3 - i)) \div Reserve(c, p, i)
      amt(j) == IF j = i THEN amount ELSE other
      lp(j)  == (amt(j) * poolLp) \div Reserve(c, p, j)
      padded == IF isProportional(amount, other) THEN other ELSE other + 1
  IN  [amount0 |-> IF i = 1 THEN amount ELSE padded,
       amount1 |-> IF i = 2 THEN amount ELSE padded,
       lp      |-> IF lp(1) < lp(2) THEN lp(1) ELSE lp(2)]

\* The quote fails when the amount computed for the other side is zero
\* (isProportional divides by it) or when the LP is (checkAmount).
CanQuoteAddLiq(c, p, i, amount) ==
  /\ c.lps[p].supply > 0
  /\ (amount * Reserve(c, p, 3 - i)) \div Reserve(c, p, i) > 0
  /\ quoteAddLiq(c, p, i, amount).lp > 0

\* Mutant: the quote is rounded up.
quoteRemoveLiqRoundedUp(c, p, lp) ==
  LET poolLp == c.lps[p].supply + getFeeLp(c, p)
  IN  [i \in {1, 2} |-> (lp * Reserve(c, p, i)) \div poolLp + 1]

quoteRemoveLiq(c, p, lp) ==
  LET poolLp == c.lps[p].supply + getFeeLp(c, p)
  IN  [i \in {1, 2} |-> (lp * Reserve(c, p, i)) \div poolLp]

\* quoteSwap answers with the contract's own pricing functions.
CanQuoteSwap(c, tickIn, tickOut, exactIn, amount) ==
  LET p == getPairStr(tickIn, tickOut)
  IN  /\ p \in c.pools
      /\ HasReserves(ReserveOf(c, tickIn, p), ReserveOf(c, tickOut, p))
      /\ exactIn \/ amount < ReserveOf(c, tickOut, p)

quoteSwap(c, tickIn, tickOut, exactIn, amount) ==
  LET amt == SwapAmounts(c, tickIn, tickOut, exactIn, amount)
  IN  IF exactIn THEN amt.out ELSE amt.in

(***************************************************************************)
(* Properties                                                              *)
(***************************************************************************)

\* The contract state keeps its shape and no balance is ever negative.
TypeOK == contract \in ContractState

HasLiquidity(p) == contract.lps[p].supply > 0

\* Brc20 maintains its supply by increments (brc20.ts:42,54) while balances
\* move: whatever users do, the supply is the sum of the balances, for the
\* LP tokens and for the ticks, and no tick is created or destroyed.
SupplyIsSumOfBalances ==
  /\ \A p \in Pairs :
       contract.lps[p].supply = SumFunction(contract.lps[p].balance)
  /\ \A t \in Ticks :
       /\ contract.assets[t].supply = Deposited(t).supply
       /\ contract.assets[t].supply = SumFunction(contract.assets[t].balance)

\* Once a pool has liquidity it always has some: neither swaps nor the
\* withdrawal of every withdrawable LP empty a side (the LP locked at "0",
\* contract.ts:83, and the rounding down of getAmountOut and removeLiq).
PoolNeverDrained ==
  \A p \in Pairs : HasLiquidity(p) =>
    /\ contract.lps[p].supply >= MinLiquidity
    /\ contract.lps[p].balance[Zero] = MinLiquidity
    /\ Reserve(contract, p, 1) > 0
    /\ Reserve(contract, p, 2) > 0

\* A swap there and back never pays out more than was put in.
NoRoundTripProfit ==
  \A p \in Pairs, i \in {1, 2}, amount \in Amounts : HasLiquidity(p) =>
    LET in  == Reserve(contract, p, i)
        out == Reserve(contract, p, 3 - i)
        got == getAmountOut(contract, amount, in, out)
    IN  got > 0 => getAmountOut(contract, got, out - got, in + amount) <= amount

\* A quote of operator.ts is honoured: executed in the state it was given in,
\* with the quoted result as expectation and no slippage, the contract
\* function accepts (balances permitting).  For addLiq this holds when the
\* client gives the amount of the pair's first tick, or when the computed
\* side was padded: otherwise the execution may compute the other side and
\* use less than the amount asked for, though operator.ts:377 pads to
\* prevent that (isProportional does not look at the pool).
QuoteHonoured ==
  \A p \in Pairs, user \in Users, amount \in Amounts :
    /\ \A i \in {1, 2} : CanQuoteAddLiq(contract, p, i, amount) =>
         LET q == quoteAddLiq(contract, p, i, amount)
         IN  /\ i = 1 \/ ~isProportional(amount, q.amount0)
             /\ CanTransfer(contract.assets[p[1]], user, q.amount0)
             /\ CanTransfer(contract.assets[p[2]], user, q.amount1)
             => CanAddLiq(contract, user, p, q.amount0, q.amount1, q.lp, 0)
    /\ HasLiquidity(p) /\ CanBurn(contract.lps[p], user, amount) =>
         LET q == quoteRemoveLiq(contract, p, amount)
         IN  q[1] > 0 /\ q[2] > 0 =>
               CanRemoveLiq(contract, user, p, amount, q[1], q[2], 0)
    /\ \A i \in {1, 2}, exactIn \in BOOLEAN :
         CanQuoteSwap(contract, p[i], p[3 - i], exactIn, amount) =>
         LET q == quoteSwap(contract, p[i], p[3 - i], exactIn, amount)
         IN  /\ q > 0
             /\ CanTransfer(contract.assets[p[i]], user, IF exactIn THEN amount ELSE q)
             => CanSwap(contract, user, p[i], p[3 - i], exactIn, amount, q, 0)

\* The value behind a share never falls: what kLast records per LP (as a
\* product, so sqrt(k) per LP squared) never decreases from one liquidity
\* event to the next, whatever was minted to the protocol, added and removed
\* in between (contract.ts:74,141,196,387).
ShareValueNeverFalls ==
  [][\A p \in Pairs :
       LET s == contract.lps[p].supply
           t == contract'.lps[p].supply
       IN  s > 0 => contract.kLast[p] * t * t <= contract'.kLast[p] * s * s]_contract

\* No step lowers a pool's LP backing on either side: a liquidity provider
\* who neither adds nor removes is never diluted by someone who does, beyond
\* the LP minted for the protocol.
NobodyIsDiluted ==
  [][\A p \in Pairs : HasLiquidity(p) /\ contract'.kLast[p] # contract.kLast[p] =>
       \A i \in {1, 2} :
         Reserve(contract, p, i) * contract'.lps[p].supply
           <= Reserve(contract', p, i) * (contract.lps[p].supply + getFeeLp(contract, p))]_contract

=============================================================================
