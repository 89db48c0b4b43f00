----------------------------- MODULE SwapCommit -----------------------------
(***************************************************************************)
(* How the Go indexer (brc20_swap_index) executes a commit on a module:    *)
(* the functions of module_commit_*.go as operators on a module record.    *)
(* A function returns [st, m]: st is "ok", "err" (the Go function returned *)
(* an error) or "panic", and m holds whatever was written before that, for *)
(* the Go functions write in place and undo nothing.                       *)
(*                                                                         *)
(* Amounts are the integers of decimal.Decimal; a nil Decimal is 0.  A     *)
(* pair is the set of its two ticks, as GetLowerInnerPairNameByToken sorts *)
(* them; m.tick0 is the tick the deployer of the pool wrote first.         *)
(***************************************************************************)
EXTENDS Integers, Sequences, FiniteSets

CONSTANTS Users,        \* pkScripts of users
          Ticks,        \* lower-case ticks
          Zero,         \* ZERO_ADDRESS_PKSCRIPT
          Sequencer, GasTo, LpFeeTo,      \* Init of the module inscription
          GasTick, FeeRate,
          MinLp         \* LP locked by the first liquidity (1000 in the code)

ASSUME AddressesAssumption ==
  {Zero, Sequencer, GasTo, LpFeeTo} \subseteq Users /\ GasTick \in Ticks
ASSUME FeeRateAssumption == FeeRate \in 0..999
ASSUME MinLpAssumption == MinLp \in Nat \ {0}

NoParent == "none"      \* a commit without the field parent

Pairs == {p \in SUBSET Ticks : \E t, u \in p : t # u /\ p = {t, u}}

\* The empty module that ProcessCreateModule stores.
NewModule ==
  LET zero == [u \in Users |-> [t \in Ticks |-> 0]]
      none == [p \in Pairs |-> 0]
  IN  [swap |-> zero, avail |-> zero, appr |-> zero, cond |-> zero, ready |-> zero,
       dep |-> [t \in Ticks |-> 0], newAppr |-> [t \in Ticks |-> 0],
       okAppr |-> [t \in Ticks |-> 0], cancel |-> [t \in Ticks |-> 0],
       pools |-> {}, tick0 |-> [p \in Pairs |-> CHOOSE t \in p : TRUE],
       res |-> [p \in Pairs |-> [t \in Ticks |-> 0]], lp |-> none, lastK |-> none,
       lpOfPool |-> [p \in Pairs |-> [u \in Users |-> 0]],
       lpOfUser |-> [u \in Users |-> none], lpUsers |-> {},
       ids |-> {}, chain |-> {}, invalid |-> {}]

Ok(m) == [st |-> "ok", m |-> m]
Err(m) == [st |-> "err", m |-> m]
Panic(m) == [st |-> "panic", m |-> m]

\* A function of a commit as it is read from its JSON: who signed it, ticks,
\* amounts, how many parameters it has (fmt), whether its ticks are written as
\* the pool's deployer wrote them, and its length.
SwapFunctions ==
  [fn : {"deployPool", "addLiq", "removeLiq", "swap", "decreaseApproval", "send", "sendLp"},
   by : Users, to : Users, t0 : Ticks, t1 : Ticks, a0 : Nat, a1 : Nat, lp : Nat,
   amt : Nat, quote : Nat, slip : Nat, dir : {"exactIn", "exactOut"},
   fmt : {"old", "new"}, same : BOOLEAN, size : Nat]

Pair(f) == {f.t0, f.t1}
Other(p, t) == CHOOSE u \in p : u # t
Sqrt(n) == CHOOSE r \in 0..n : r * r <= n /\ (r + 1) * (r + 1) > n

\* Mutant: both balances are read before either is written.
MoveSwapStale(m, from, to, t, amt) ==
  [m EXCEPT !.swap[from][t] = @ - amt, !.swap[to][t] = m.swap[to][t] + amt]

\* The two records may be the same one: the second addition reads what the
\* first subtraction wrote.
MoveSwap(m, from, to, t, amt) ==
  LET less == [m.swap EXCEPT ![from][t] = @ - amt]
  IN  [m EXCEPT !.swap = [less EXCEPT ![to][t] = @ + amt]]

\* User u pays x0 of t0 and x1 of t1 into the pool of p (what is negative is
\* paid out); x0 is booked on the reserve of s0, x1 on the other one.
Trade(m, u, p, t0, x0, t1, x1, s0) ==
  LET balances == [m.swap EXCEPT ![u][t0] = @ - x0, ![u][t1] = @ - x1]
      reserves == [m.res EXCEPT ![p][s0] = @ + x0, ![p][Other(p, s0)] = @ + x1]
  IN  [m EXCEPT !.swap = balances, !.res = reserves]

\* Mutant: the user's list is set to the amount, not to the new balance.
CreditLpOverwritten(m, p, u, amt) ==
  [m EXCEPT !.lpOfPool[p][u] = @ + amt, !.lpOfUser[u][p] = amt, !.lpUsers = @ \cup {u}]

\* LP balances are kept twice; the user's list is set from the pool's.
CreditLp(m, p, u, amt) ==
  LET bal == m.lpOfPool[p][u] + amt
  IN  [m EXCEPT !.lpOfPool[p][u] = bal, !.lpOfUser[u][p] = bal, !.lpUsers = @ \cup {u}]

(***************************************************************************)
(* The service fee, paid in new LP when liquidity moves: the only update   *)
(* that precedes the checks of addLiq and removeLiq.                       *)
(***************************************************************************)
RootK(m, p) == LET t == m.tick0[p] IN Sqrt(m.res[p][t] * m.res[p][Other(p, t)])

FeeOf(lp, k, last) ==
  IF FeeRate = 0 \/ lp = 0 THEN 0 ELSE (lp * (k - last)) \div (5 * k + last)

FeeLp(m, p) == FeeOf(m.lp[p], RootK(m, p), m.lastK[p])

FeePanics(m, p) == FeeRate > 0 /\ m.lp[p] > 0 /\ 5 * RootK(m, p) + m.lastK[p] = 0

IssueLp(m, p, u, amt) ==
  IF amt <= 0 THEN m ELSE CreditLp([m EXCEPT !.lp[p] = @ + amt], p, u, amt)

IssueFee(m, p) == IssueLp(m, p, LpFeeTo, FeeLp(m, p))

\* Mutant: the mark is only raised.
SetLastKOnGrowth(m, p) ==
  IF RootK(m, p) > m.lastK[p] THEN [m EXCEPT !.lastK[p] = RootK(m, p)] ELSE m

SetLastK(m, p) == [m EXCEPT !.lastK[p] = RootK(m, p)]

\* The reserve that token0 is booked on: the first one exactly when token0 is
\* written as the deployer of the pool wrote it (f.same).
Side0(m, f) == LET p == Pair(f) IN
  IF f.same /\ f.t0 = m.tick0[p] THEN m.tick0[p] ELSE Other(p, m.tick0[p])

(***************************************************************************)
(* What a function reads of the indexer it runs on, e: whether BestHeight  *)
(* has reached ENABLE_SWAP_WITHDRAW_HEIGHT, and the ticks it knows.  An    *)
(* amount of an unknown tick is nil, and the errors of CheckTickVerify are *)
(* dropped.                                                                *)
(***************************************************************************)
CheckTickVerify(e, t, amt) == IF t \in e.known THEN amt ELSE 0

\* The parameters changed at ENABLE_SWAP_WITHDRAW_HEIGHT: with the other
\* number of parameters the pool is not found (or the pair does not decode).
PoolFound(m, f, e) ==
  /\ f.fmt = IF e.enabled THEN "new" ELSE "old"
  /\ Pair(f) \in m.pools

DeployPool(m, f) ==
  IF Pair(f) \in m.pools THEN Err(m)
  ELSE Ok([m EXCEPT !.pools = @ \cup {Pair(f)}, !.tick0[Pair(f)] = f.t0])

\* The amounts that addLiq takes and the LP it issues, after the fee.
FirstLiq(a0, a1) == [a0 |-> a0, a1 |-> a1, lp |-> Sqrt(a0 * a1)]

NextLiq(m, f, b0, b1) ==
  LET p == Pair(f)  s0 == Side0(m, f)
      r0 == m.res[p][s0]  r1 == m.res[p][Other(p, s0)]
      adj1 == (r1 * b0) \div r0
      a1 == IF b1 >= adj1 THEN adj1 ELSE b1
      a0 == IF b1 >= adj1 THEN b0 ELSE (r0 * b1) \div r1
      lp0 == (m.lp[p] * a0) \div r0
      lp1 == IF m.lp[p] = 0 THEN 0 ELSE (m.lp[p] * a1) \div r1
  IN  [a0 |-> a0, a1 |-> a1, lp |-> IF lp0 > lp1 THEN lp1 ELSE lp0]

\* A swap on a pool without liquidity leaves one reserve at 0: the adjusted
\* amount of the next addLiq then divides by 0.
AddLiqPanics(m, f) ==
  LET p == Pair(f)  s0 == Side0(m, f)
  IN  FeePanics(m, p) \/ m.res[p][s0] = 0 \/ (m.lp[p] > 0 /\ m.res[p][Other(p, s0)] = 0)

\* liq is taken from the user, who gets its LP but for what is locked.
TakeLiq(m, f, liq, locked) ==
  LET p == Pair(f)
      paid == Trade(m, f.by, p, f.t0, liq.a0, f.t1, liq.a1, Side0(m, f))
      held == CreditLp([paid EXCEPT !.lp[p] = @ + liq.lp], p, f.by, liq.lp - locked)
  IN  IF \/ liq.lp < locked
         \/ liq.lp - locked < (f.lp * (1000 - f.slip)) \div 1000
         \/ m.swap[f.by][f.t0] < liq.a0
         \/ m.swap[f.by][f.t1] < liq.a1
      THEN Err(m)
      ELSE Ok(SetLastK(IF locked > 0 THEN CreditLp(held, p, Zero, locked) ELSE held, p))

TakeNextLiq(m, f, b0, b1) == TakeLiq(m, f, NextLiq(m, f, b0, b1), 0)

AddLiquidity(m, f, e) ==
  LET p == Pair(f)
      b0 == CheckTickVerify(e, f.t0, f.a0)
      b1 == CheckTickVerify(e, f.t1, f.a1)
  IN  IF ~PoolFound(m, f, e) THEN Err(m)
      ELSE IF \A t \in p : m.res[p][t] = 0 THEN TakeLiq(m, f, FirstLiq(b0, b1), MinLp)
      ELSE IF AddLiqPanics(m, f) THEN Panic(m)
      ELSE TakeNextLiq(IssueFee(m, p), f, b0, b1)

\* The user's LP is taken for its share of the reserves, s0 booked as token0.
\* The slippage of removeLiq is multiplied in without being divided by 1000.
ReturnLiq(m, f, b0, b1, s0) ==
  LET p == Pair(f)
      s1 == Other(p, s0)
      Share(s) == IF m.lp[p] = 0 THEN 0 ELSE (m.res[p][s] * f.lp) \div m.lp[p]
      paid == Trade(m, f.by, p, f.t0, -Share(s0), f.t1, -Share(s1), s0)
      less == [paid EXCEPT !.lpOfPool[p][f.by] = @ - f.lp,
                           !.lpOfUser[f.by][p] = @ - f.lp, !.lp[p] = @ - f.lp]
  IN  IF \/ Share(s0) < b0 - b0 * f.slip
         \/ Share(s1) < b1 - b1 * f.slip
         \/ m.lp[p] < f.lp
         \/ m.res[p][s0] < Share(s0) \/ m.res[p][s1] < Share(s1)
         \/ m.lpOfPool[p][f.by] # m.lpOfUser[f.by][p]
         \/ m.lpOfPool[p][f.by] < f.lp
      THEN Err(m)
      ELSE Ok(SetLastK(less, p))

RemoveLiquidity(m, f, e) ==
  IF ~PoolFound(m, f, e) \/ f.by \notin m.lpUsers THEN Err(m)
  ELSE IF FeePanics(m, Pair(f)) THEN Panic(m)
  ELSE ReturnLiq(IssueFee(m, Pair(f)), f, CheckTickVerify(e, f.t0, f.a0),
                 CheckTickVerify(e, f.t1, f.a1), Side0(m, f))

\* A nil amount is not divided.
AmountOut(rIn, rOut, in) ==
  LET fee == in * (1000 - FeeRate)
  IN  IF in = 0 THEN 0 ELSE (rOut * fee) \div (rIn * 1000 + fee)

AmountIn(rIn, rOut, out) ==
  IF out = 0 THEN 1
  ELSE (rIn * out * 1000) \div ((rOut - out) * (1000 - FeeRate)) + 1

\* A division by 0, or the precision of a nil amount.
SwapPanics(m, f, e) ==
  LET r0 == m.res[Pair(f)][f.t0] IN
  IF f.dir = "exactIn" THEN f.t0 \in e.known /\ r0 = 0 /\ f.amt = 0
  ELSE f.t1 \notin e.known \/ (f.t0 \in e.known /\ r0 = f.amt)

\* The bound of exactOut is not divided by 1000, and the balance is compared
\* with the quoted amount where the computed one is taken.
Swap(m, f, e) ==
  LET p == Pair(f)
      amt == CheckTickVerify(e, f.t0, f.amt)
      quote == CheckTickVerify(e, f.t1, f.quote)
      tin == IF f.dir = "exactIn" THEN f.t0 ELSE f.t1
      tout == Other(p, tin)
      rIn == m.res[p][tin]  rOut == m.res[p][tout]
      in == IF f.dir = "exactIn" THEN amt ELSE AmountIn(rIn, rOut, amt)
      out == IF f.dir = "exactIn" THEN AmountOut(rIn, rOut, amt) ELSE amt
      shown == IF f.dir = "exactIn" THEN amt ELSE quote
  IN  IF ~PoolFound(m, f, e) \/ ~f.same THEN Err(m)
      ELSE IF SwapPanics(m, f, e) THEN Panic(m)
      ELSE IF f.dir = "exactOut" /\ rOut < amt THEN Err(m)
      ELSE IF \/ f.dir = "exactIn" /\ out < (quote * 1000) \div (1000 + f.slip)
              \/ f.dir = "exactOut" /\ quote * (1000 + f.slip) < in
              \/ m.swap[f.by][tin] < shown
      THEN Err(m)
      ELSE Ok(Trade(m, f.by, p, tin, in, tout, -out, tin))

Send(m, f, e) ==
  LET amt == CheckTickVerify(e, f.t0, f.amt) IN
  IF m.swap[f.by][f.t0] < amt THEN Err(m) ELSE Ok(MoveSwap(m, f.by, f.to, f.t0, amt))

SendLp(m, f) ==
  LET p == Pair(f) IN
  IF \/ p \notin m.pools \/ f.by \notin m.lpUsers
     \/ m.lpOfPool[p][f.by] # m.lpOfUser[f.by][p]
     \/ m.lpOfPool[p][f.by] < f.amt
  THEN Err(m)
  ELSE Ok(CreditLp(CreditLp(m, p, f.by, -f.amt), p, f.to, f.amt))

DecreaseApproval(m, f, e) ==
  LET amt == CheckTickVerify(e, f.t0, f.amt) IN
  IF m.swap[f.by][f.t0] < amt THEN Err(m)
  ELSE Ok([m EXCEPT !.swap[f.by][f.t0] = @ - amt, !.avail[f.by][f.t0] = @ + amt])

\* Gas is a price per byte of the function's JSON, and per function from the
\* height on.
GasFee(m, f, price, e) ==
  LET gas == price * (IF e.enabled THEN 1 ELSE f.size) IN
  IF price = 0 THEN Ok(m)
  ELSE IF m.swap[f.by][GasTick] < gas THEN Err(m)
  ELSE Ok(MoveSwap(m, f.by, GasTo, GasTick, gas))

ProcessFunction(m, f, e) ==
  CASE f.fn = "deployPool"       -> DeployPool(m, f)
    [] f.fn = "addLiq"           -> AddLiquidity(m, f, e)
    [] f.fn = "removeLiq"        -> RemoveLiquidity(m, f, e)
    [] f.fn = "swap"             -> Swap(m, f, e)
    [] f.fn = "decreaseApproval" -> DecreaseApproval(m, f, e)
    [] f.fn = "send"             -> Send(m, f, e)
    [] f.fn = "sendLp"           -> SendLp(m, f)

\* Mutant: a parent may be continued more than once.
ParentOkReused(m, c) ==
  IF c.parent = NoParent THEN m.ids = {} ELSE c.parent \in m.ids

ParentOk(m, c) ==
  IF c.parent = NoParent THEN m.ids = {}
  ELSE c.parent \notin m.chain /\ c.parent \in m.ids

\* A function runs after its gas is paid, and after functions that succeeded.
AfterGas(g, f, e) == IF g.st = "ok" THEN ProcessFunction(g.m, f, e) ELSE g

RunFunction(r, f, price, e) ==
  IF r.st = "ok" THEN AfterGas(GasFee(r.m, f, price, e), f, e) ELSE r

\* Run(m, c, e)[k] is the result of the first k functions of c.
Run(m, c, e) ==
  LET run[k \in 0..Len(c.data)] ==
        IF k = 0 THEN Ok(m) ELSE RunFunction(run[k - 1], c.data[k], c.gas, e)
  IN  run

ProcessCommitVerify(m, c, e) ==
  IF ParentOk(m, c) THEN Run(m, c, e)[Len(c.data)] ELSE Err(m)

\* A commit that was executed joins the chain.
Chained(r, c) ==
  IF r.st # "ok" THEN r
  ELSE Ok([r.m EXCEPT !.ids = @ \cup {c.id}, !.chain = @ \cup {c.parent},
                      !.invalid = @ \ {c.id}])

\* The ticks of the copy: InitCherryPickFilter gives up, unnoticed, at the
\* first function that has not the parameters of the height.
PickedTicks(c, enabled) ==
  LET Odd(i) == /\ c.data[i].fn \in {"addLiq", "removeLiq", "swap"}
                /\ c.data[i].fmt # (IF enabled THEN "new" ELSE "old")
      seen == {i \in DOMAIN c.data : \A j \in 1..i : ~Odd(j)}
  IN  {GasTick} \cup UNION {Pair(c.data[i]) : i \in seen}

\* Mutant: the commit is executed without a rehearsal on a copy.
VerifiedOnCopyNever(m, c, enabled) == Ok(m)

\* CherryPick copies balances, pools and chain but not BestHeight: on the copy
\* the height is never reached.
VerifiedOnCopy(m, c, enabled) ==
  ProcessCommitVerify(m, c, [enabled |-> FALSE, known |-> PickedTicks(c, enabled)])

(***************************************************************************)
(* ProcessCommit: the commit inscription c, owned by sender, was moved to  *)
(* the module.                                                             *)
(***************************************************************************)
ProcessCommit(m0, c, sender, enabled) ==
  LET m == [m0 EXCEPT !.invalid = @ \cup {c.id}]
      copy == VerifiedOnCopy(m, c, enabled)
  IN  IF sender # Sequencer THEN Err(m)
      ELSE IF copy.st # "ok" THEN [st |-> copy.st, m |-> m]
      ELSE Chained(ProcessCommitVerify(m, c, [enabled |-> enabled, known |-> Ticks]), c)
=============================================================================
