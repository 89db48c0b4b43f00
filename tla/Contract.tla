------------------------------ MODULE Contract ------------------------------
(***************************************************************************)
(* The swap contract of the sequencer: the functions of                    *)
(* src/contract/contract.ts on the BRC-20 balances of assets.ts and        *)
(* brc20.ts, as operators on a contract state.  A function that throws is  *)
(* one whose Can... guard is FALSE; the caller (domain/operator.ts) always *)
(* runs a function on a clone first, so a throw leaves no trace.           *)
(*                                                                         *)
(* Amounts are the integers the contract computes with; decimals and the   *)
(* string forms of amounts are not modelled.  A tick is a number, so that  *)
(* sortTickParams is <, and a pair is the ordered pair of its ticks: it is *)
(* the name of the pool's LP token and the address that holds its reserves.*)
(***************************************************************************)
EXTENDS Integers

CONSTANTS Ticks,            \* the BRC-20 ticks deposited in the module
          Users,            \* the users' addresses
          FeeTo,            \* config.feeTo: receives the protocol's LP fee
          Zero,             \* the address "0" that locks the first liquidity
          MinLiquidity,     \* LP locked in a new pool ("1000" in the code)
          SwapFeeRates1000  \* what config.swapFeeRate1000 may be set to

Pairs == {p \in Ticks \X Ticks : p[1] < p[2]}
Addrs == Users \cup {FeeTo, Zero} \cup Pairs

ASSUME TicksAssumption == Ticks \subseteq Nat
ASSUME MinLiquidityAssumption == MinLiquidity \in Nat \ {0}
ASSUME SwapFeeAssumption == SwapFeeRates1000 \subseteq 0..999

getPairStr(tickA, tickB) ==
  IF tickA < tickB THEN <<tickA, tickB>> ELSE <<tickB, tickA>>

(***************************************************************************)
(* Brc20: balances and a supply that is maintained incrementally.          *)
(***************************************************************************)
Brc20 == [balance : [Addrs -> Nat], supply : Nat]

EmptyBrc20 == [balance |-> [a \in Addrs |-> 0], supply |-> 0]

CanTransfer(b, from, amount) == amount > 0 /\ b.balance[from] >= amount

\* The sender is debited before the receiver's balance is read: a transfer
\* to oneself leaves the balance as it was.
Transfer(b, from, to, amount) ==
  LET debited == [b.balance EXCEPT ![from] = @ - amount]
  IN  [b EXCEPT !.balance = [debited EXCEPT ![to] = @ + amount]]

Mint(b, addr, amount) ==
  [balance |-> [b.balance EXCEPT ![addr] = @ + amount],
   supply  |-> b.supply + amount]

CanBurn(b, addr, amount) == amount > 0 /\ b.balance[addr] >= amount

Burn(b, addr, amount) ==
  [balance |-> [b.balance EXCEPT ![addr] = @ - amount],
   supply  |-> b.supply - amount]

(***************************************************************************)
(* uintCal's integer arithmetic: division and square root round down.      *)
(***************************************************************************)
Sqrt(n) == CHOOSE r \in 0..n : r * r <= n /\ n < (r + 1) * (r + 1)

(***************************************************************************)
(* The pool's pricing functions.                                           *)
(***************************************************************************)
HasReserves(reserveIn, reserveOut) == reserveIn > 0 /\ reserveOut > 0

\* Mutant: the output is rounded up.
getAmountOutRoundedUp(c, amountIn, reserveIn, reserveOut) ==
  LET amountInWithFee == amountIn * (1000 - c.swapFeeRate1000)
  IN  (amountInWithFee * reserveOut) \div (reserveIn * 1000 + amountInWithFee) + 1

getAmountOut(c, amountIn, reserveIn, reserveOut) ==
  LET amountInWithFee == amountIn * (1000 - c.swapFeeRate1000)
  IN  (amountInWithFee * reserveOut) \div (reserveIn * 1000 + amountInWithFee)

\* uintCal subtracts first and rejects a zero divisor: amountOut must stay
\* below the reserve.
CanGetAmountIn(amountOut, reserveIn, reserveOut) ==
  HasReserves(reserveIn, reserveOut) /\ amountOut < reserveOut

getAmountIn(c, amountOut, reserveIn, reserveOut) ==
  (reserveIn * amountOut * 1000)
      \div ((reserveOut - amountOut) * (1000 - c.swapFeeRate1000)) + 1

\* The LP the protocol is owed for the growth of the pool since kLast: one
\* sixth (feeRate = 6) of the growth of sqrt(k).
feeLp(supply, k, last) ==
  LET rootK     == Sqrt(k)
      rootKLast == Sqrt(last)
  IN  IF last > 0 /\ rootK > rootKLast
      THEN (supply * (rootK - rootKLast)) \div (rootK * 5 + rootKLast)
      ELSE 0

(***************************************************************************)
(* The contract state c: the Brc20 of every tick, the Brc20 of every       *)
(* pool's LP token, which pools are deployed, and kLast, 0 when unset.     *)
(***************************************************************************)
ContractState == [assets : [Ticks -> Brc20], lps : [Pairs -> Brc20],
                  pools : SUBSET Pairs, kLast : [Pairs -> Nat],
                  swapFeeRate1000 : SwapFeeRates1000]

Reserve(c, p, i) == c.assets[p[i]].balance[p]
K(c, p) == Reserve(c, p, 1) * Reserve(c, p, 2)

getFeeLp(c, p) == feeLp(c.lps[p].supply, K(c, p), c.kLast[p])

mintFee(c, p) ==
  LET liquidity == getFeeLp(c, p)
  IN  IF liquidity > 0
      THEN [c EXCEPT !.lps[p] = Mint(@, FeeTo, liquidity)]
      ELSE c

UpdateKLast(c, p) == [c EXCEPT !.kLast[p] = K(c, p)]

\* The end of a liquidity event: the pool's LP token and the Brc20 of its two
\* ticks are stored, then kLast.
Settle(c, p, lp, asset0, asset1) ==
  UpdateKLast([c EXCEPT !.lps = [@ EXCEPT ![p] = lp],
                        !.assets = [@ EXCEPT ![p[1]] = asset0, ![p[2]] = asset1]], p)

WithinSlippage(got, expect, slippage1000) ==
  got >= (expect * (1000 - slippage1000)) \div 1000

(***************************************************************************)
(* deployPool                                                              *)
(***************************************************************************)
CanDeployPool(c, tickA, tickB) ==
  tickA # tickB /\ getPairStr(tickA, tickB) \notin c.pools

deployPool(c, tickA, tickB) ==
  [c EXCEPT !.pools = @ \cup {getPairStr(tickA, tickB)}]

(***************************************************************************)
(* addLiq.  FirstLiq and NextLiq are the amounts and the LP of its two     *)
(* branches; c is the state after mintFee.                                 *)
(***************************************************************************)
FirstLiq(amount0, amount1) ==
  [amount0 |-> amount0, amount1 |-> amount1,
   lp |-> Sqrt(amount0 * amount1) - MinLiquidity]

LpFor(c, p, i, amount) == (amount * c.lps[p].supply) \div Reserve(c, p, i)

NextLiq(c, p, amount0, amount1) ==
  LET r0 == Reserve(c, p, 1)
      r1 == Reserve(c, p, 2)
      wanted1 == (amount0 * r1) \div r0
      adj0 == IF wanted1 <= amount1 THEN amount0 ELSE (amount1 * r0) \div r1
      adj1 == IF wanted1 <= amount1 THEN wanted1 ELSE amount1
      lp0 == LpFor(c, p, 1, adj0)
      lp1 == LpFor(c, p, 2, adj1)
  IN  [amount0 |-> adj0, amount1 |-> adj1, lp |-> IF lp0 < lp1 THEN lp0 ELSE lp1]

Liq(c, p, amount0, amount1) ==
  LET fed == mintFee(c, p)
  IN  IF fed.lps[p].supply = 0 THEN FirstLiq(amount0, amount1)
                               ELSE NextLiq(fed, p, amount0, amount1)

CanAddLiq(c, user, p, amount0, amount1, expect, slippage1000) ==
  /\ amount0 > 0 /\ amount1 > 0
  /\ p \in c.pools
  /\ LET liq == Liq(c, p, amount0, amount1)
     IN  /\ liq.lp > 0
         /\ CanTransfer(c.assets[p[1]], user, liq.amount0)
         /\ CanTransfer(c.assets[p[2]], user, liq.amount1)
         /\ WithinSlippage(liq.lp, expect, slippage1000)
         /\ liq.amount1 = amount1 \/ liq.amount0 = amount0

addLiq(c, user, p, amount0, amount1) ==
  LET fed    == mintFee(c, p)
      liq    == Liq(c, p, amount0, amount1)
      minted == Mint(fed.lps[p], user, liq.lp)
      locked == IF fed.lps[p].supply = 0 THEN Mint(minted, Zero, MinLiquidity)
                                         ELSE minted
  IN  Settle(fed, p, locked, Transfer(fed.assets[p[1]], user, p, liq.amount0),
                             Transfer(fed.assets[p[2]], user, p, liq.amount1))

(***************************************************************************)
(* removeLiq                                                               *)
(***************************************************************************)
\* Mutant: what a removal pays is rounded up.
AcquireRoundedUp(c, p, i, lp) == (lp * Reserve(c, p, i)) \div c.lps[p].supply + 1

Acquire(c, p, i, lp) == (lp * Reserve(c, p, i)) \div c.lps[p].supply

CanRemoveLiq(c, user, p, lp, amount0, amount1, slippage1000) ==
  /\ lp > 0
  /\ p \in c.pools
  /\ LET fed == mintFee(c, p)
     IN  /\ fed.lps[p].supply > 0
         /\ CanBurn(fed.lps[p], user, lp)
         /\ CanTransfer(fed.assets[p[1]], p, Acquire(fed, p, 1, lp))
         /\ CanTransfer(fed.assets[p[2]], p, Acquire(fed, p, 2, lp))
         /\ WithinSlippage(Acquire(fed, p, 1, lp), amount0, slippage1000)
         /\ WithinSlippage(Acquire(fed, p, 2, lp), amount1, slippage1000)

removeLiq(c, user, p, lp) ==
  LET fed == mintFee(c, p)
  IN  Settle(fed, p, Burn(fed.lps[p], user, lp),
             Transfer(fed.assets[p[1]], p, user, Acquire(fed, p, 1, lp)),
             Transfer(fed.assets[p[2]], p, user, Acquire(fed, p, 2, lp)))

(***************************************************************************)
(* swap.  The pool pays its side even when it is empty of LP: only the     *)
(* reserves are looked at.  kLast is left alone.                           *)
(***************************************************************************)
ReserveOf(c, tick, p) == c.assets[tick].balance[p]

SwapAmounts(c, tickIn, tickOut, exactIn, amount) ==
  LET p == getPairStr(tickIn, tickOut)
      reserveIn  == ReserveOf(c, tickIn, p)
      reserveOut == ReserveOf(c, tickOut, p)
  IN  IF exactIn
      THEN [in |-> amount, out |-> getAmountOut(c, amount, reserveIn, reserveOut)]
      ELSE [in |-> getAmountIn(c, amount, reserveIn, reserveOut), out |-> amount]

CanSwap(c, user, tickIn, tickOut, exactIn, amount, expect, slippage1000) ==
  LET p == getPairStr(tickIn, tickOut)
      reserveIn  == ReserveOf(c, tickIn, p)
      reserveOut == ReserveOf(c, tickOut, p)
  IN  /\ amount > 0
      /\ HasReserves(reserveIn, reserveOut)
      /\ exactIn \/ CanGetAmountIn(amount, reserveIn, reserveOut)
      /\ LET amt == SwapAmounts(c, tickIn, tickOut, exactIn, amount)
         IN  /\ IF exactIn
                THEN amt.out >= (expect * 1000) \div (1000 + slippage1000)
                ELSE amt.in <= (expect * (1000 + slippage1000)) \div 1000
             /\ CanTransfer(c.assets[tickIn], user, amt.in)
             /\ CanTransfer(c.assets[tickOut], p, amt.out)

Exchange(c, tickIn, assetIn, tickOut, assetOut) ==
  [c EXCEPT !.assets = [@ EXCEPT ![tickIn] = assetIn, ![tickOut] = assetOut]]

swap(c, user, tickIn, tickOut, exactIn, amount) ==
  LET p   == getPairStr(tickIn, tickOut)
      amt == SwapAmounts(c, tickIn, tickOut, exactIn, amount)
  IN  Exchange(c, tickIn,  Transfer(c.assets[tickIn], user, p, amt.in),
                  tickOut, Transfer(c.assets[tickOut], p, user, amt.out))

(***************************************************************************)
(* send                                                                    *)
(***************************************************************************)
CanSend(c, tick, from, amount) == CanTransfer(c.assets[tick], from, amount)

send(c, tick, from, to, amount) ==
  [c EXCEPT !.assets[tick] = Transfer(@, from, to, amount)]
=============================================================================
