--------------------------- MODULE SwapPoolProofs ---------------------------
(***************************************************************************)
(* Proofs about module SwapPool.                                           *)
(***************************************************************************)
EXTENDS SwapPool, Arithmetic

\* The square root exists and rounds down.
LEMMA SqrtBounds ==
  ASSUME NEW n \in Nat
  PROVE  /\ Sqrt(n) \in Nat
         /\ Sqrt(n) * Sqrt(n) <= n
         /\ n < (Sqrt(n) + 1) * (Sqrt(n) + 1)
<1> DEFINE Root(x) == x * x <= n /\ n < (x + 1) * (x + 1)
           s == CHOOSE x \in 0..n : Root(x)
<1>1. \E x \in 0..n : Root(x)
  BY RootExists
<1>2. s \in 0..n /\ Root(s)
  <2> HIDE DEF Root
  <2> QED BY <1>1, Zenon
<1>3. Sqrt(n) = s
  BY DEF Sqrt
<1> HIDE DEF s
<1> QED BY <1>2, <1>3

-----------------------------------------------------------------------------
(***************************************************************************)
(* The pricing functions.  The fee is below 100%.                          *)
(***************************************************************************)

\* getAmountOut leaves some of the reserve, and takes out no more than the
\* share of what is left that the input is of the other reserve.
LEMMA AmountOutBounds ==
  ASSUME NEW c, c.swapFeeRate1000 \in 0..999,
         NEW a \in Nat \ {0}, NEW in \in Nat \ {0}, NEW out \in Nat \ {0}
  PROVE  LET got == getAmountOut(c, a, in, out)
         IN  got \in Nat /\ got < out /\ got * in <= a * (out - got)
<1> DEFINE g == 1000 - c.swapFeeRate1000
           got == OutFor(a, g, in, out)
<1>1. g \in 1..1000
  OBVIOUS
<1> HIDE DEF g
<1>2. in \in Nat /\ out \in Nat /\ in > 0 /\ out > 0 /\ a \in Nat
  OBVIOUS
<1>3. got \in Nat /\ got < out /\ got * in <= a * (out - got)
  BY ZenonT(60), <1>1, <1>2, PriceOut
<1>4. getAmountOut(c, a, in, out) = got
  BY DEF getAmountOut, OutFor, g
<1> HIDE DEF got
<1> QED BY <1>3, <1>4

\* getAmountIn asks for at least that share.
LEMMA AmountInBounds ==
  ASSUME NEW c, c.swapFeeRate1000 \in 0..999,
         NEW o \in Nat \ {0}, NEW in \in Nat \ {0}, NEW out \in Nat \ {0}, o < out
  PROVE  LET got == getAmountIn(c, o, in, out)
         IN  got \in Nat \ {0} /\ o * in <= got * (out - o)
<1> DEFINE g == 1000 - c.swapFeeRate1000
           paid == InFor(o, g, in, out)
<1>1. g \in 1..1000
  OBVIOUS
<1> HIDE DEF g
<1>2. paid \in Nat \ {0} /\ o * in <= paid * (out - o)
  BY ZenonT(60), <1>1, PriceIn
<1>3. getAmountIn(c, o, in, out) = paid
  BY DEF getAmountIn, InFor, g
<1> HIDE DEF paid
<1> QED BY <1>2, <1>3

\* The protocol's share of the growth from l to k, when a share is worth at
\* least one (s * s <= l): it is not more than the growth.
LEMMA FeeLpBounds ==
  ASSUME NEW s \in Nat, NEW k \in Nat, NEW l \in Nat, l <= k, s * s <= l
  PROVE  LET fee == feeLp(s, k, l)
         IN  fee \in Nat /\ l * ((s + fee) * (s + fee)) <= k * (s * s)
<1> DEFINE fee == feeLp(s, k, l)
           a == Sqrt(k)
           b == Sqrt(l)
           num == s * (a - b)
           den == a * 5 + b
<1>1. /\ a \in Nat /\ a * a <= k
      /\ b \in Nat /\ b * b <= l /\ l < (b + 1) * (b + 1)
  BY SqrtBounds
<1>2. fee = IF l > 0 /\ a > b THEN num \div den ELSE 0
  BY DEF feeLp
<1> HIDE DEF fee, a, b
<1>3. CASE fee = 0
  <2>1. l * (s * s) <= k * (s * s)
    BY MulNat, MulMono
  <2> QED BY <1>3, <2>1 DEF fee
<1>4. CASE fee # 0
  <2>1. l > 0 /\ a > b
    BY <1>2, <1>4
  <2>2. num \in Nat /\ den \in Nat \ {0}
    BY <1>1, <2>1
  <2>3. fee \in Nat \ {0} /\ fee * den <= num
    <3> HIDE DEF num, den
    <3> QED BY <1>2, <1>4, <2>1, <2>2, DivBounds
  <2>4. s <= b
    <3>1. ASSUME b + 1 <= s PROVE FALSE
      <4>1. (b + 1) * (b + 1) <= s * s
        BY <1>1, <3>1, MulMono2
      <4>2. (b + 1) * (b + 1) \in Nat /\ s * s \in Nat
        BY <1>1
      <4> QED BY <1>1, <4>1, <4>2
    <3> QED BY <1>1, <3>1
  <2>5. a >= b + 2
    <3>1. ASSUME a = b + 1 PROVE FALSE
      <4>1. num = s
        BY <1>1, <3>1
      <4>2. den <= fee * den
        BY <2>2, <2>3
      <4>3. den > b
        BY <1>1, <3>1
      <4> HIDE DEF num, den
      <4>4. fee * den \in Nat
        BY <2>2, <2>3
      <4> QED BY <1>1, <2>2, <2>3, <2>4, <4>1, <4>2, <4>3, <4>4
    <3> QED BY <1>1, <2>1, <3>1
  <2>6. (b + 1) * 6 <= den
    BY <1>1, <2>5
  <2> DEFINE u == s + fee
  <2>7. u \in Nat /\ u * den <= (s * a) * 6
    <3>1. u * den = s * den + fee * den
      <4> HIDE DEF den
      <4> QED BY <2>2, <2>3
    <3>2. s * den + num = (s * a) * 6
      BY <1>1
    <3>3. s * den \in Nat /\ fee * den \in Nat
      <4> HIDE DEF den
      <4> QED BY <2>2, <2>3
    <3> HIDE DEF num, den
    <3> QED BY <2>2, <2>3, <3>1, <3>2, <3>3
  <2> HIDE DEF u, num, den
  <2>8. (u * den) * (u * den) <= ((s * a) * 6) * ((s * a) * 6)
    BY <1>1, <2>2, <2>7, MulMono2, MulNat
  <2>9. ((b + 1) * 6) * ((b + 1) * 6) <= den * den
    BY <1>1, <2>2, <2>6, MulMono2
  <2> DEFINE U == u * u
             DD == den * den
             A == a * a
             B == (b + 1) * (b + 1)
             S == s * s
  <2>10. U \in Nat /\ DD \in Nat /\ A \in Nat /\ B \in Nat /\ S \in Nat
    BY <1>1, <2>2, <2>7, MulNat
  <2>11. U * DD <= (S * A) * 36
    <3>1. (u * den) * (u * den) = U * DD
      BY <2>2, <2>7
    <3>2. ((s * a) * 6) * ((s * a) * 6) = (S * A) * 36
      BY <1>1
    <3> QED BY <2>8, <3>1, <3>2
  <2>12. B * 36 <= DD
    <3>1. ((b + 1) * 6) * ((b + 1) * 6) = B * 36
      BY <1>1
    <3> QED BY <2>9, <3>1
  <2>13. l <= B /\ A <= k
    BY <1>1, <2>10
  <2> HIDE DEF U, DD, A, B, S
  <2>14. l * 36 <= DD
    BY <2>10, <2>12, <2>13
  <2>15. (l * 36) * U <= DD * U
    BY <2>10, <2>14, MulMono
  <2>16. A * S <= k * S
    BY <2>10, <2>13, MulMono
  <2>17. (l * U) * 36 <= (k * S) * 36
    <3>1. (l * 36) * U = (l * U) * 36 /\ DD * U = U * DD /\ S * A = A * S
      BY <2>10
    <3>2. l * U \in Nat /\ k * S \in Nat /\ A * S \in Nat /\ U * DD \in Nat
      BY <2>10, MulNat
    <3> QED BY <2>11, <2>15, <2>16, <3>1, <3>2
  <2>18. l * U <= k * S
    BY <2>10, <2>17, MulNat, MulCancel
  <2> QED BY <2>3, <2>18 DEF U, S, u, fee
<1> QED BY <1>3, <1>4

\* Reserves r become q and the supply, s1 after the fee, becomes t, so that no
\* share loses on either side: then the value behind a share does not fall.
LEMMA ShareStep ==
  ASSUME NEW l \in Nat, NEW s \in Nat, NEW s1 \in Nat, NEW t \in Nat,
         NEW r1 \in Nat \ {0}, NEW r2 \in Nat \ {0}, NEW q1 \in Nat, NEW q2 \in Nat,
         l * (s1 * s1) <= (r1 * r2) * (s * s),
         t * r1 <= s1 * q1, t * r2 <= s1 * q2
  PROVE  l * (t * t) <= (q1 * q2) * (s * s)
<1> DEFINE T == t * t
           R == r1 * r2
           S1 == s1 * s1
           Q == q1 * q2
           S == s * s
<1>1. T \in Nat /\ R \in Nat \ {0} /\ S1 \in Nat /\ Q \in Nat /\ S \in Nat
  BY MulNat
<1>2. T * R <= S1 * Q
  <2>1. (t * r1) * (t * r2) <= (s1 * q1) * (s1 * q2)
    BY MulNat, MulMono2
  <2>2. (t * r1) * (t * r2) = T * R
    OBVIOUS
  <2>3. (s1 * q1) * (s1 * q2) = S1 * Q
    OBVIOUS
  <2> QED BY <2>1, <2>2, <2>3
<1>3. l * S1 <= R * S
  OBVIOUS
<1> HIDE DEF T, R, S1, Q, S
<1>4. (T * R) * l <= (S1 * Q) * l
  BY <1>1, <1>2, MulNat, MulMono
<1>5. (l * S1) * Q <= (R * S) * Q
  BY <1>1, <1>3, MulNat, MulMono
<1>6. (l * T) * R <= (Q * S) * R
  <2>1. (T * R) * l = (l * T) * R /\ (S1 * Q) * l = (l * S1) * Q /\ (R * S) * Q = (Q * S) * R
    BY <1>1
  <2>2. (l * T) * R \in Nat /\ (l * S1) * Q \in Nat /\ (Q * S) * R \in Nat
    BY <1>1, MulNat
  <2> QED BY <1>4, <1>5, <2>1, <2>2
<1>7. l * T <= Q * S
  BY <1>1, <1>6, MulNat, MulCancel
<1> QED BY <1>7 DEF T, Q, S

-----------------------------------------------------------------------------
(***************************************************************************)
(* Brc20.  A token is sound when its supply is the sum of its balances.    *)
(***************************************************************************)
Token(b) == b \in Brc20 /\ b.supply = SumFunctionOnSet(b.balance, Addrs)

\* There are finitely many addresses.
LEMMA AddrsFinite == IsFiniteSet(Addrs)
<1>1. IsFiniteSet(Ticks \X Ticks)
  BY AddressAssumption, FS_Product
<1>2. IsFiniteSet(Pairs)
  BY <1>1, FS_Subset DEF Pairs
<1>3. IsFiniteSet({FeeTo, Zero})
  <2>1. IsFiniteSet({FeeTo}) /\ IsFiniteSet({Zero})
    BY FS_Singleton
  <2>2. {FeeTo, Zero} = {FeeTo} \cup {Zero}
    OBVIOUS
  <2> QED BY <2>1, <2>2, FS_Union
<1>4. IsFiniteSet(Users \cup {FeeTo, Zero})
  BY <1>3, AddressAssumption, FS_Union
<1> QED BY <1>2, <1>4, FS_Union DEF Addrs

\* A pair is made of two different ticks, and is an address.
LEMMA PairTicks ==
  ASSUME NEW p \in Pairs
  PROVE  /\ p[1] \in Ticks /\ p[2] \in Ticks /\ p[1] # p[2]
         /\ p = <<p[1], p[2]>> /\ p \in Addrs
<1>1. p \in Ticks \X Ticks /\ p[1] < p[2] /\ p \in Addrs
  BY DEF Pairs, Addrs
<1>2. p[1] \in Ticks /\ p[2] \in Ticks /\ p = <<p[1], p[2]>>
  BY <1>1
<1>3. p[1] # p[2]
  <2> DEFINE a == p[1]
             b == p[2]
  <2>1. a \in Nat /\ b \in Nat /\ a < b
    BY <1>1, <1>2, TicksAssumption
  <2> HIDE DEF a, b
  <2>2. a # b
    BY <2>1
  <2> QED BY <2>2 DEF a, b
<1> QED BY <1>1, <1>2, <1>3

\* A change of one balance changes the sum by as much.
LEMMA SumAddr ==
  ASSUME NEW f \in [Addrs -> Int], NEW a \in Addrs, NEW v \in Int
  PROVE  /\ SumFunctionOnSet([f EXCEPT ![a] = @ + v], Addrs)
              = SumFunctionOnSet(f, Addrs) + v
         /\ SumFunctionOnSet([f EXCEPT ![a] = @ - v], Addrs)
              = SumFunctionOnSet(f, Addrs) - v
         /\ SumFunctionOnSet(f, Addrs) \in Int
<1> DEFINE w == 0 - v
<1>1. [f EXCEPT ![a] = @ - v] = [f EXCEPT ![a] = @ + w]
  <2>1. f[a] - v = f[a] + w
    OBVIOUS
  <2> QED BY <2>1, Zenon
<1>2. w \in Int
  OBVIOUS
<1>3. SumFunctionOnSet([f EXCEPT ![a] = @ + v], Addrs) = SumFunctionOnSet(f, Addrs) + v
  BY AddrsFinite, SumAdd
<1>4. SumFunctionOnSet([f EXCEPT ![a] = @ + w], Addrs) = SumFunctionOnSet(f, Addrs) + w
  <2> HIDE DEF w
  <2> QED BY <1>2, AddrsFinite, SumAdd
<1>5. SumFunctionOnSet(f, Addrs) \in Int
  BY AddrsFinite, SumInt
<1>6. SumFunctionOnSet(f, Addrs) + w = SumFunctionOnSet(f, Addrs) - v
  BY <1>5
<1> QED BY <1>1, <1>3, <1>4, <1>5, <1>6

\* The supply covers any two balances.
LEMMA TokenCovers ==
  ASSUME NEW b, Token(b), NEW x \in Addrs, NEW y \in Addrs
  PROVE  /\ b.balance[x] \in Nat /\ b.supply \in Nat
         /\ b.balance[x] <= b.supply
         /\ x # y => b.balance[x] + b.balance[y] <= b.supply
<1>1. \A a \in Addrs : b.balance[a] \in Nat
  BY DEF Token, Brc20
<1> QED BY <1>1, AddrsFinite, SumBounds DEF Token, Brc20

\* n is the sound token b after m moved.
Moved(b, n, from, to, m) ==
  /\ Token(n) /\ n.supply = b.supply
  /\ \A a \in Addrs : n.balance[a] = b.balance[a] - (IF a = from THEN m ELSE 0)
                                                  + (IF a = to THEN m ELSE 0)

\* transfer keeps a sound token sound, and its supply.
LEMMA TransferToken ==
  ASSUME NEW b, Token(b), NEW from \in Addrs, NEW to \in Addrs, NEW amount,
         amount \in Nat, amount <= b.balance[from]
  PROVE  Moved(b, Transfer(b, from, to, amount), from, to, amount)
<1> DEFINE f == b.balance
           d == [f EXCEPT ![from] = @ - amount]
           g == [d EXCEPT ![to] = @ + amount]
           n == Transfer(b, from, to, amount)
<1>1. f \in [Addrs -> Nat] /\ f \in [Addrs -> Int] /\ b.supply \in Nat /\ amount \in Int /\ b = [balance |-> f, supply |-> b.supply]
  BY DEF Token, Brc20
<1>2. n = [balance |-> g, supply |-> b.supply]
  BY <1>1 DEF Transfer
<1>3. d \in [Addrs -> Nat] /\ d \in [Addrs -> Int]
  BY <1>1
<1>4. g \in [Addrs -> Nat]
  BY <1>3
<1>5. SumFunctionOnSet(d, Addrs) = SumFunctionOnSet(f, Addrs) - amount
  <2> HIDE DEF f
  <2> QED BY <1>1, SumAddr
<1>6. SumFunctionOnSet(g, Addrs) = SumFunctionOnSet(d, Addrs) + amount
  <2> HIDE DEF d
  <2> QED BY <1>1, <1>3, SumAddr
<1>7. SumFunctionOnSet(g, Addrs) = b.supply
  <2>1. b.supply = SumFunctionOnSet(f, Addrs)
    BY DEF Token
  <2> HIDE DEF f, d, g
  <2> QED BY <1>1, <1>5, <1>6, <2>1
<1>8. Token(n) /\ n.supply = b.supply
  <2> HIDE DEF g, n
  <2> QED BY <1>1, <1>2, <1>4, <1>7 DEF Token, Brc20
<1>9. \A a \in Addrs : g[a] = f[a] - (IF a = from THEN amount ELSE 0)
                                   + (IF a = to THEN amount ELSE 0)
  BY <1>1
<1> HIDE DEF g, n
<1> QED BY <1>2, <1>8, <1>9 DEF n, Moved

\* n is the sound token b after m was minted.
Minted(b, n, addr, m) ==
  /\ Token(n) /\ n.supply = b.supply + m
  /\ \A a \in Addrs : n.balance[a] = b.balance[a] + (IF a = addr THEN m ELSE 0)

\* mint keeps a sound token sound.
LEMMA MintToken ==
  ASSUME NEW b, Token(b), NEW addr \in Addrs, NEW amount \in Nat
  PROVE  Minted(b, Mint(b, addr, amount), addr, amount)
<1> DEFINE f == b.balance
           g == [f EXCEPT ![addr] = @ + amount]
           n == Mint(b, addr, amount)
<1>1. f \in [Addrs -> Nat] /\ f \in [Addrs -> Int] /\ b.supply \in Nat /\ amount \in Int
  BY DEF Token, Brc20
<1>2. n = [balance |-> g, supply |-> b.supply + amount]
  BY DEF Mint
<1>3. g \in [Addrs -> Nat]
  BY <1>1
<1>4. SumFunctionOnSet(g, Addrs) = b.supply + amount
  <2>1. b.supply = SumFunctionOnSet(f, Addrs)
    BY DEF Token
  <2> HIDE DEF f
  <2> QED BY ZenonT(60), <1>1, <2>1, SumAddr
<1>5. \A a \in Addrs : g[a] = f[a] + (IF a = addr THEN amount ELSE 0)
  BY <1>1
<1>6. Token(n) /\ n.supply = b.supply + amount
  <2> HIDE DEF g, n
  <2> QED BY <1>1, <1>2, <1>3, <1>4 DEF Token, Brc20
<1> HIDE DEF g, n
<1> QED BY <1>2, <1>5, <1>6 DEF n, Minted

\* burn keeps a sound token sound.
LEMMA BurnToken ==
  ASSUME NEW b, Token(b), NEW addr \in Addrs, NEW amount \in Nat,
         amount <= b.balance[addr]
  PROVE  LET n == Burn(b, addr, amount)
         IN  /\ Token(n) /\ n.supply = b.supply - amount
             /\ \A a \in Addrs :
                  n.balance[a] = b.balance[a] - (IF a = addr THEN amount ELSE 0)
<1> DEFINE f == b.balance
           g == [f EXCEPT ![addr] = @ - amount]
           n == Burn(b, addr, amount)
<1>1. f \in [Addrs -> Nat] /\ f \in [Addrs -> Int] /\ b.supply \in Nat /\ amount \in Int
  BY DEF Token, Brc20
<1>2. n = [balance |-> g, supply |-> b.supply - amount]
  BY DEF Burn
<1>3. g \in [Addrs -> Nat]
  BY <1>1
<1>4. SumFunctionOnSet(g, Addrs) = b.supply - amount
  <2>1. b.supply = SumFunctionOnSet(f, Addrs)
    BY DEF Token
  <2> HIDE DEF f
  <2> QED BY ZenonT(60), <1>1, <2>1, SumAddr
<1>5. \A a \in Addrs : g[a] = f[a] - (IF a = addr THEN amount ELSE 0)
  BY <1>1
<1>6. Token(n) /\ n.supply = b.supply - amount
  <2>1. b.supply - amount \in Nat
    BY <1>1, TokenCovers
  <2> HIDE DEF g, n
  <2> QED BY <1>1, <1>2, <1>3, <1>4, <2>1 DEF Token, Brc20
<1> HIDE DEF g, n
<1> QED BY <1>2, <1>5, <1>6 DEF n

-----------------------------------------------------------------------------
(***************************************************************************)
(* The inductive invariant: every token is sound, no tick was made or      *)
(* lost, and a pool with liquidity is deployed, keeps the locked LP and    *)
(* both reserves, has not lost since kLast was recorded, and a share is    *)
(* worth at least one.                                                     *)
(***************************************************************************)
TokensSound(c) ==
  /\ c \in ContractState
  /\ \A p \in Pairs : Token(c.lps[p])
  /\ \A t \in Ticks : Token(c.assets[t]) /\ c.assets[t].supply = Deposited(t).supply

PoolSound(c, p) ==
  c.lps[p].supply > 0 =>
    /\ p \in c.pools
    /\ c.lps[p].balance[Zero] = MinLiquidity
    /\ Reserve(c, p, 1) > 0 /\ Reserve(c, p, 2) > 0
    /\ c.kLast[p] <= K(c, p)
    /\ c.lps[p].supply * c.lps[p].supply <= c.kLast[p]

PoolInv == TokensSound(contract) /\ \A p \in Pairs : PoolSound(contract, p)

\* The fields of a contract state have their types.
LEMMA StateFields ==
  ASSUME NEW c, c \in ContractState
  PROVE  /\ c.assets \in [Ticks -> Brc20] /\ c.lps \in [Pairs -> Brc20]
         /\ c.pools \subseteq Pairs /\ c.kLast \in [Pairs -> Nat]
         /\ c.swapFeeRate1000 \in SwapFeeRates1000
         /\ c = [assets |-> c.assets, lps |-> c.lps, pools |-> c.pools,
                 kLast |-> c.kLast, swapFeeRate1000 |-> c.swapFeeRate1000]
BY DEF ContractState

\* A pool's numbers are natural numbers.
LEMMA ReserveNat ==
  ASSUME NEW c, c \in ContractState, NEW p \in Pairs
  PROVE  /\ Reserve(c, p, 1) \in Nat /\ Reserve(c, p, 2) \in Nat
         /\ K(c, p) \in Nat /\ c.kLast[p] \in Nat
         /\ c.lps[p].supply \in Nat
<1>1. /\ c.assets \in [Ticks -> Brc20] /\ c.lps \in [Pairs -> Brc20]
      /\ c.kLast \in [Pairs -> Nat]
  BY StateFields
<1>2. p[1] \in Ticks /\ p[2] \in Ticks /\ p \in Addrs
  BY PairTicks
<1>3. Reserve(c, p, 1) \in Nat /\ Reserve(c, p, 2) \in Nat
  BY <1>1, <1>2 DEF Reserve, Brc20
<1>4. K(c, p) \in Nat
  BY <1>3, MulNat DEF K
<1> QED BY <1>1, <1>3, <1>4 DEF Brc20

-----------------------------------------------------------------------------
(***************************************************************************)
(* What an operation does to one pool.                                     *)
(***************************************************************************)

\* Nothing.
Untouched(c, n, p) ==
  /\ n.lps[p] = c.lps[p] /\ n.kLast[p] = c.kLast[p] /\ c.pools \subseteq n.pools
  /\ Reserve(n, p, 1) = Reserve(c, p, 1) /\ Reserve(n, p, 2) = Reserve(c, p, 2)

\* A swap: only the reserves change, and their product does not fall.
Swapped(c, n, p) ==
  /\ n.lps[p] = c.lps[p] /\ n.kLast[p] = c.kLast[p] /\ c.pools \subseteq n.pools
  /\ Reserve(n, p, 1) > 0 /\ Reserve(n, p, 2) > 0
  /\ K(c, p) <= K(n, p)

\* The first liquidity.
Founded(c, n, p) ==
  /\ c.lps[p].supply = 0 /\ n.lps[p].supply > 0
  /\ p \in n.pools /\ n.kLast[p] = K(n, p)
  /\ n.lps[p].balance[Zero] = MinLiquidity
  /\ Reserve(n, p, 1) > 0 /\ Reserve(n, p, 2) > 0
  /\ n.lps[p].supply * n.lps[p].supply <= K(n, p)

\* Liquidity is added to or taken from a pool that has some: no share loses on
\* either side, once the protocol's LP is counted.
Rebalanced(c, n, p) ==
  /\ c.lps[p].supply > 0 /\ n.lps[p].supply > 0
  /\ p \in n.pools /\ n.kLast[p] = K(n, p)
  /\ n.lps[p].balance[Zero] = c.lps[p].balance[Zero]
  /\ Reserve(n, p, 1) > 0 /\ Reserve(n, p, 2) > 0
  /\ n.lps[p].supply * Reserve(c, p, 1)
       <= (c.lps[p].supply + getFeeLp(c, p)) * Reserve(n, p, 1)
  /\ n.lps[p].supply * Reserve(c, p, 2)
       <= (c.lps[p].supply + getFeeLp(c, p)) * Reserve(n, p, 2)

\* The value behind a share, as kLast records it, does not fall from c to n.
ShareHolds(c, n, p) ==
  LET s == c.lps[p].supply
      t == n.lps[p].supply
  IN  s > 0 => c.kLast[p] * t * t <= n.kLast[p] * s * s

\* The protocol's LP for a sound pool.
LEMMA FeeOfSound ==
  ASSUME NEW c, c \in ContractState, NEW p \in Pairs, PoolSound(c, p)
  PROVE  LET s  == c.lps[p].supply
             s1 == s + getFeeLp(c, p)
         IN  /\ getFeeLp(c, p) \in Nat
             /\ s = 0 => getFeeLp(c, p) = 0
             /\ s > 0 => c.kLast[p] * (s1 * s1) <= K(c, p) * (s * s)
<1> DEFINE s == c.lps[p].supply
           k == K(c, p)
           l == c.kLast[p]
<1>1. s \in Nat /\ k \in Nat /\ l \in Nat
  BY ReserveNat
<1>2. getFeeLp(c, p) = feeLp(s, k, l)
  BY DEF getFeeLp
<1>3. CASE s = 0
  <2> DEFINE a == Sqrt(k)
             b == Sqrt(l)
  <2>1. a \in Nat /\ b \in Nat
    BY <1>1, SqrtBounds
  <2>2. feeLp(s, k, l) = IF l > 0 /\ a > b THEN (s * (a - b)) \div (a * 5 + b) ELSE 0
    BY DEF feeLp
  <2> HIDE DEF a, b, s, k, l
  <2>3. ASSUME a > b PROVE (s * (a - b)) \div (a * 5 + b) = 0
    <3>1. s * (a - b) = 0
      BY <1>3, <2>1
    <3>2. a * 5 + b \in Nat \ {0}
      BY <2>1, <2>3
    <3> QED BY <3>1, <3>2
  <2>4. feeLp(s, k, l) = 0
    BY <2>2, <2>3
  <2> QED BY <1>2, <1>3, <2>4 DEF s, k, l
<1>4. CASE s > 0
  <2>1. l <= k /\ s * s <= l
    BY <1>4 DEF PoolSound
  <2> HIDE DEF s, k, l
  <2>2. LET fee == feeLp(s, k, l)
        IN  fee \in Nat /\ l * ((s + fee) * (s + fee)) <= k * (s * s)
    BY <1>1, <2>1, FeeLpBounds
  <2> QED BY <1>1, <1>2, <1>4, <2>2 DEF s, k, l
<1> QED BY <1>1, <1>3, <1>4

\* A pool that is left alone stays sound.
LEMMA UntouchedSound ==
  ASSUME NEW c, NEW n, NEW p \in Pairs, PoolSound(c, p), Untouched(c, n, p)
  PROVE  PoolSound(n, p)
BY DEF PoolSound, Untouched, K

\* A pool stays sound when its product does not fall.
LEMMA SwappedSound ==
  ASSUME NEW c, c \in ContractState, NEW n, n \in ContractState, NEW p \in Pairs,
         PoolSound(c, p), Swapped(c, n, p)
  PROVE  PoolSound(n, p)
<1>1. K(c, p) \in Nat /\ K(n, p) \in Nat /\ c.kLast[p] \in Nat
  BY ReserveNat
<1> QED BY <1>1 DEF PoolSound, Swapped

\* A new pool is sound.
LEMMA FoundedSound ==
  ASSUME NEW c, NEW n, n \in ContractState, NEW p \in Pairs, Founded(c, n, p)
  PROVE  PoolSound(n, p)
<1>1. K(n, p) \in Nat
  BY ReserveNat
<1> QED BY <1>1 DEF PoolSound, Founded

\* A pool stays sound, and the value behind a share does not fall, when no share
\* loses on either side.
LEMMA RebalancedHolds ==
  ASSUME NEW c, c \in ContractState, NEW n, n \in ContractState, NEW p \in Pairs,
         PoolSound(c, p), Rebalanced(c, n, p)
  PROVE  PoolSound(n, p) /\ ShareHolds(c, n, p)
<1> DEFINE s  == c.lps[p].supply
           s1 == s + getFeeLp(c, p)
           t  == n.lps[p].supply
           l  == c.kLast[p]
           r1 == Reserve(c, p, 1)
           r2 == Reserve(c, p, 2)
           q1 == Reserve(n, p, 1)
           q2 == Reserve(n, p, 2)
<1>1. /\ s \in Nat /\ s > 0 /\ t \in Nat /\ t > 0 /\ l \in Nat
      /\ r1 \in Nat \ {0} /\ r2 \in Nat \ {0} /\ q1 \in Nat /\ q2 \in Nat
  BY ReserveNat DEF PoolSound, Rebalanced
<1>2. s1 \in Nat /\ l * (s1 * s1) <= (r1 * r2) * (s * s)
  BY <1>1, FeeOfSound DEF K
<1>3. t * r1 <= s1 * q1 /\ t * r2 <= s1 * q2
  BY DEF Rebalanced
<1>4. s * s <= l
  BY <1>1 DEF PoolSound
<1>5. n.kLast[p] = q1 * q2
  BY DEF Rebalanced, K
<1> HIDE DEF s, s1, t, l, r1, r2, q1, q2
<1>6. l * (t * t) <= (q1 * q2) * (s * s)
  BY <1>1, <1>2, <1>3, ShareStep
<1>7. l \in Nat \ {0}
  <2>1. s * s > 0
    BY <1>1
  <2>2. s * s \in Nat
    BY <1>1
  <2> QED BY <1>1, <1>4, <2>1, <2>2
<1>8. t * t <= q1 * q2
  <2>1. (q1 * q2) * (s * s) <= (q1 * q2) * l
    BY <1>1, <1>4, MulNat, MulMono2
  <2>2. (t * t) * l <= (q1 * q2) * l
    <3>1. (t * t) * l = l * (t * t)
      BY <1>1
    <3>2. (t * t) * l \in Nat /\ (q1 * q2) * (s * s) \in Nat /\ (q1 * q2) * l \in Nat
      BY <1>1, MulNat
    <3> QED BY <1>6, <2>1, <3>1, <3>2
  <2>3. t * t \in Nat /\ q1 * q2 \in Nat
    BY <1>1, MulNat
  <2> QED BY <1>7, <2>2, <2>3, MulCancel
<1>9. PoolSound(n, p)
  <2>1. K(n, p) = q1 * q2 /\ q1 * q2 \in Nat
    BY <1>1, MulNat DEF K, q1, q2
  <2> QED BY <1>1, <1>5, <1>8, <2>1 DEF PoolSound, Rebalanced, s, t, q1, q2
<1>10. (l * t) * t <= ((q1 * q2) * s) * s
  <2>1. (l * t) * t = l * (t * t)
    BY <1>1
  <2>2. ((q1 * q2) * s) * s = (q1 * q2) * (s * s)
    BY <1>1
  <2> QED BY <1>6, <2>1, <2>2
<1>11. ShareHolds(c, n, p)
  BY <1>5, <1>10 DEF ShareHolds, s, t, l
<1> QED BY <1>9, <1>11

-----------------------------------------------------------------------------
(***************************************************************************)
(* The contract's functions.                                               *)
(***************************************************************************)
\* mintFee only mints the protocol's LP.
LEMMA MintFeeFacts ==
  ASSUME NEW c, TokensSound(c), NEW p \in Pairs, PoolSound(c, p)
  PROVE  LET fed == mintFee(c, p)
             fee == getFeeLp(c, p)
         IN  /\ fed \in ContractState
             /\ fed.assets = c.assets /\ fed.pools = c.pools /\ fed.kLast = c.kLast
             /\ fed.swapFeeRate1000 = c.swapFeeRate1000
             /\ fed.lps = [c.lps EXCEPT ![p] = fed.lps[p]]
             /\ Minted(c.lps[p], fed.lps[p], FeeTo, fee)
<1> DEFINE fee == getFeeLp(c, p)
           M == Mint(c.lps[p], FeeTo, fee)
           fed == mintFee(c, p)
<1>1. fee \in Nat
  BY FeeOfSound DEF TokensSound
<1>2. FeeTo \in Addrs /\ Token(c.lps[p])
  BY DEF Addrs, TokensSound
<1>3. Minted(c.lps[p], M, FeeTo, fee)
  <2> HIDE DEF fee
  <2> QED BY <1>1, <1>2, MintToken
<1>4. /\ c.assets \in [Ticks -> Brc20] /\ c.lps \in [Pairs -> Brc20]
      /\ c.pools \subseteq Pairs /\ c.kLast \in [Pairs -> Nat]
      /\ c.swapFeeRate1000 \in SwapFeeRates1000
      /\ c = [assets |-> c.assets, lps |-> c.lps, pools |-> c.pools,
              kLast |-> c.kLast, swapFeeRate1000 |-> c.swapFeeRate1000]
  BY StateFields DEF TokensSound
<1>5. fed = IF fee > 0 THEN [c EXCEPT !.lps[p] = M] ELSE c
  BY DEF mintFee
<1> HIDE DEF M, fee
<1>6. CASE fee > 0
  <2>1. M \in Brc20
    BY <1>3 DEF Minted, Token
  <2>2. fed = [assets |-> c.assets, lps |-> [c.lps EXCEPT ![p] = M], pools |-> c.pools,
               kLast |-> c.kLast, swapFeeRate1000 |-> c.swapFeeRate1000]
    BY <1>4, <1>5, <1>6
  <2> HIDE DEF fed
  <2>3. fed \in ContractState
    BY <1>4, <2>1, <2>2 DEF ContractState
  <2>4. fed.lps[p] = M /\ fed.lps = [c.lps EXCEPT ![p] = fed.lps[p]]
    BY <1>4, <2>2
  <2> QED BY <1>3, <2>2, <2>3, <2>4 DEF fed, fee
<1>7. CASE ~(fee > 0)
  <2>1. fed = c /\ fee = 0
    BY <1>1, <1>5, <1>7
  <2>2. c \in ContractState
    BY DEF TokensSound
  <2>3. c.lps = [c.lps EXCEPT ![p] = c.lps[p]]
    BY <1>4
  <2>4. c.lps[p].supply \in Nat /\ \A a \in Addrs : c.lps[p].balance[a] \in Nat
    BY <1>4 DEF Brc20
  <2>5. Minted(c.lps[p], fed.lps[p], FeeTo, fee)
    BY <1>2, <2>1, <2>4 DEF Minted
  <2> HIDE DEF fed
  <2> QED BY <2>1, <2>2, <2>3, <2>5 DEF fed, fee
<1> QED BY <1>6, <1>7

\* A liquidity event of pool p: its LP token becomes L, and user and pool
\* exchange m1 and m2 of its ticks.
LEMMA Settled ==
  ASSUME NEW c, TokensSound(c), NEW p \in Pairs, PoolSound(c, p),
         NEW user \in Users \cup {FeeTo}, NEW L, Token(L),
         NEW from \in {user, p}, NEW to \in {user, p},
         NEW m1 \in Nat, NEW m2 \in Nat,
         m1 <= c.assets[p[1]].balance[from], m2 <= c.assets[p[2]].balance[from],
         NEW n, n = Settle(mintFee(c, p), p, L,
                           Transfer(c.assets[p[1]], from, to, m1),
                           Transfer(c.assets[p[2]], from, to, m2))
  PROVE  /\ TokensSound(n)
         /\ n.lps[p] = L /\ n.pools = c.pools /\ n.kLast[p] = K(n, p)
         /\ Reserve(n, p, 1) = Reserve(c, p, 1) - (IF p = from THEN m1 ELSE 0)
                                                + (IF p = to THEN m1 ELSE 0)
         /\ Reserve(n, p, 2) = Reserve(c, p, 2) - (IF p = from THEN m2 ELSE 0)
                                                + (IF p = to THEN m2 ELSE 0)
         /\ \A q \in Pairs \ {p} : Untouched(c, n, q)
<1> DEFINE fed == mintFee(c, p)
           A == c.assets
           t1 == p[1]
           t2 == p[2]
           X == Transfer(A[t1], from, to, m1)
           Y == Transfer(A[t2], from, to, m2)
           B == [A EXCEPT ![t1] = X, ![t2] = Y]
           LL == [c.lps EXCEPT ![p] = L]
           paid == [fed EXCEPT !.lps = LL, !.assets = B]
           k == K(paid, p)
<1>1. /\ A \in [Ticks -> Brc20] /\ c.lps \in [Pairs -> Brc20]
      /\ c.pools \subseteq Pairs /\ c.kLast \in [Pairs -> Nat]
      /\ c.swapFeeRate1000 \in SwapFeeRates1000
  BY StateFields DEF TokensSound
<1>2. /\ fed \in ContractState
      /\ fed.assets = A /\ fed.pools = c.pools /\ fed.kLast = c.kLast
      /\ fed.lps = [c.lps EXCEPT ![p] = fed.lps[p]]
  BY MintFeeFacts
<1>3. t1 \in Ticks /\ t2 \in Ticks /\ t1 # t2 /\ p \in Addrs
  BY PairTicks
<1>4. [fed.lps EXCEPT ![p] = L] = LL
  BY <1>1, <1>2
<1>5. [fed.assets EXCEPT ![t1] = X, ![t2] = Y] = B
  <2> HIDE DEF fed, A, t1, t2, X, Y
  <2> QED BY <1>1, <1>2, <1>3
<1>6. n = UpdateKLast(paid, p)
  <2>1. n = UpdateKLast([fed EXCEPT !.lps = [fed.lps EXCEPT ![p] = L],
                            !.assets = [fed.assets EXCEPT ![t1] = X, ![t2] = Y]], p)
    BY DEF Settle
  <2> HIDE DEF fed, LL, B, X, Y, t1, t2
  <2> QED BY <1>4, <1>5, <2>1
<1>7. from \in Addrs /\ to \in Addrs
  BY <1>3 DEF Addrs
<1>8. /\ B \in [Ticks -> Brc20]
      /\ \A t \in Ticks : Token(B[t]) /\ B[t].supply = A[t].supply
      /\ \A a \in Addrs :
           /\ B[t1].balance[a] = A[t1].balance[a] - (IF a = from THEN m1 ELSE 0)
                                                  + (IF a = to THEN m1 ELSE 0)
           /\ B[t2].balance[a] = A[t2].balance[a] - (IF a = from THEN m2 ELSE 0)
                                                  + (IF a = to THEN m2 ELSE 0)
      /\ \A t \in Ticks \ {t1, t2} : B[t] = A[t]
  <2>1. \A t \in Ticks : Token(A[t])
    BY DEF TokensSound
  <2>2. m1 <= A[t1].balance[from] /\ m2 <= A[t2].balance[from]
    OBVIOUS
  <2>3. Moved(A[t1], X, from, to, m1) /\ Moved(A[t2], Y, from, to, m2)
    BY <1>3, <1>7, <2>1, <2>2, TransferToken
  <2>4. B = [A EXCEPT ![t1] = X, ![t2] = Y]
    OBVIOUS
  <2> HIDE DEF A, B, X, Y, t1, t2
  <2>5. B[t1] = X /\ B[t2] = Y /\ \A t \in Ticks \ {t1, t2} : B[t] = A[t]
    BY <1>1, <1>3, <2>4
  <2>6. /\ \A t \in Ticks : Token(B[t]) /\ B[t].supply = A[t].supply
        /\ \A a \in Addrs :
             /\ B[t1].balance[a] = A[t1].balance[a] - (IF a = from THEN m1 ELSE 0)
                                                    + (IF a = to THEN m1 ELSE 0)
             /\ B[t2].balance[a] = A[t2].balance[a] - (IF a = from THEN m2 ELSE 0)
                                                    + (IF a = to THEN m2 ELSE 0)
    BY <2>1, <2>3, <2>5 DEF Moved
  <2>7. X \in Brc20 /\ Y \in Brc20
    BY <1>3, <2>5, <2>6 DEF Token
  <2>8. B \in [Ticks -> Brc20]
    BY <1>1, <2>4, <2>7
  <2> QED BY <2>5, <2>6, <2>8
<1>9. LL \in [Pairs -> Brc20] /\ LL[p] = L /\ \A q \in Pairs \ {p} : LL[q] = c.lps[q]
  BY <1>1 DEF Token
<1> HIDE DEF B, LL, fed
<1>10. /\ paid \in ContractState
       /\ paid.assets = B /\ paid.lps = LL /\ paid.pools = c.pools /\ paid.kLast = c.kLast
  BY <1>2, <1>8, <1>9 DEF ContractState
<1>11. k \in Nat
  BY <1>10, ReserveNat
<1> HIDE DEF paid
<1>12. /\ n \in ContractState
       /\ n.assets = B /\ n.lps = LL /\ n.pools = c.pools /\ n.kLast = [c.kLast EXCEPT ![p] = k]
  <2>1. n = [paid EXCEPT !.kLast[p] = k]
    BY <1>6 DEF UpdateKLast
  <2> HIDE DEF k
  <2> QED BY <1>1, <1>10, <1>11, <2>1 DEF ContractState
<1>13. /\ n.kLast[p] = K(n, p)
       /\ \A q \in Pairs \ {p} : n.kLast[q] = c.kLast[q]
  <2>1. k = K(n, p)
    BY <1>10, <1>12 DEF K, Reserve
  <2> HIDE DEF k
  <2> QED BY <1>1, <1>12, <2>1
<1>14. TokensSound(n)
  <2>1. \A q \in Pairs : Token(LL[q])
    BY <1>9 DEF TokensSound
  <2>2. \A t \in Ticks : Token(B[t]) /\ B[t].supply = Deposited(t).supply
    BY <1>8 DEF TokensSound
  <2> QED BY <1>12, <2>1, <2>2 DEF TokensSound
<1>15. \A q \in Pairs \ {p} : Untouched(c, n, q)
  <2> SUFFICES ASSUME NEW q \in Pairs \ {p} PROVE Untouched(c, n, q)
    OBVIOUS
  <2>1. q # from /\ q # to
    BY AddressAssumption
  <2>2. q[1] \in Ticks /\ q[2] \in Ticks /\ q \in Addrs
    BY PairTicks
  <2>3. \A t \in Ticks : B[t].balance[q] = A[t].balance[q]
    <3> TAKE t \in Ticks
    <3>1. A[t].balance[q] \in Nat
      BY <1>1, <2>2 DEF Brc20
    <3> HIDE DEF A, t1, t2
    <3> QED BY <1>8, <2>1, <2>2, <3>1
  <2> QED BY <1>9, <1>12, <1>13, <2>2, <2>3 DEF Untouched, Reserve
<1> QED BY <1>3, <1>8, <1>9, <1>12, <1>13, <1>14, <1>15 DEF Reserve

\* What a removal pays, rounded down, leaves the other shares whole.
LEMMA RemoveSide ==
  ASSUME NEW s1 \in Nat, NEW lp \in Nat, lp < s1, NEW r \in Nat \ {0}
  PROVE  LET m == (lp * r) \div s1
         IN  /\ m \in Nat /\ m < r
             /\ (s1 - lp) * r <= s1 * (r - m)
<1> DEFINE m == (lp * r) \div s1
<1>1. s1 \in Nat \ {0} /\ lp * r \in Nat
  BY MulNat
<1>2. m \in Nat /\ m * s1 <= lp * r
  BY <1>1, DivBounds
<1> HIDE DEF m
<1>3. (s1 - lp) * r = s1 * r - lp * r /\ s1 * (r - m) = s1 * r - m * s1
  BY <1>2
<1>4. s1 * r \in Nat /\ m * s1 \in Nat
  BY <1>2, MulNat
<1>5. (s1 - lp) * r <= s1 * (r - m)
  BY <1>1, <1>2, <1>3, <1>4
<1>6. (s1 - lp) * r > 0
  OBVIOUS
<1>7. m < r
  <2>1. ASSUME r <= m PROVE FALSE
    <3>1. s1 * (m - r) \in Nat
      BY <1>2, <2>1, MulNat
    <3>2. s1 * (r - m) = 0 - s1 * (m - r)
      BY <1>2
    <3>3. (s1 - lp) * r \in Nat
      BY MulNat
    <3> QED BY <1>5, <1>6, <3>1, <3>2, <3>3
  <2> QED BY <1>2, <2>1
<1> QED BY <1>2, <1>5, <1>7 DEF m

\* LP minted for an addition, rounded down, takes nothing from the others.
LEMMA AddSide ==
  ASSUME NEW s1 \in Nat, NEW lp \in Nat, NEW r \in Nat \ {0}, NEW m \in Nat,
         lp <= (m * s1) \div r
  PROVE  (s1 + lp) * r <= s1 * (r + m)
<1> DEFINE q == (m * s1) \div r
<1>1. m * s1 \in Nat
  BY MulNat
<1>2. q \in Nat /\ q * r <= m * s1
  BY <1>1, DivBounds
<1>3. lp * r <= q * r
  <2> HIDE DEF q
  <2>1. lp <= q
    BY DEF q
  <2> QED BY <1>2, <2>1, MulMono
<1> HIDE DEF q
<1>4. (s1 + lp) * r = s1 * r + lp * r /\ s1 * (r + m) = s1 * r + m * s1
  OBVIOUS
<1>5. s1 * r \in Nat /\ lp * r \in Nat /\ q * r \in Nat
  BY <1>2, MulNat
<1> QED BY <1>1, <1>2, <1>3, <1>4, <1>5

\* removeLiq.
LEMMA RemoveLiqFacts ==
  ASSUME NEW c, TokensSound(c), NEW p \in Pairs, PoolSound(c, p),
         NEW user \in Users \cup {FeeTo}, NEW lp \in Nat,
         NEW amount0, NEW amount1, NEW slippage1000,
         CanRemoveLiq(c, user, p, lp, amount0, amount1, slippage1000),
         NEW n, n = removeLiq(c, user, p, lp)
  PROVE  /\ TokensSound(n) /\ Rebalanced(c, n, p)
         /\ \A q \in Pairs \ {p} : Untouched(c, n, q)
<1> DEFINE fed == mintFee(c, p)
           s1 == fed.lps[p].supply
           r1 == Reserve(c, p, 1)
           r2 == Reserve(c, p, 2)
           m1 == (lp * r1) \div s1
           m2 == (lp * r2) \div s1
           L == Burn(fed.lps[p], user, lp)
<1>1. /\ fed.assets = c.assets /\ fed.pools = c.pools
      /\ Token(fed.lps[p]) /\ s1 = c.lps[p].supply + getFeeLp(c, p)
      /\ \A a \in Addrs : fed.lps[p].balance[a] =
           c.lps[p].balance[a] + (IF a = FeeTo THEN getFeeLp(c, p) ELSE 0)
  <2>1. fed.assets = c.assets /\ fed.pools = c.pools
    BY MintFeeFacts
  <2>2. Minted(c.lps[p], fed.lps[p], FeeTo, getFeeLp(c, p))
    BY MintFeeFacts
  <2> QED BY <2>1, <2>2 DEF Minted
<1>2. m1 = Acquire(fed, p, 1, lp) /\ m2 = Acquire(fed, p, 2, lp)
  BY <1>1 DEF Acquire, Reserve
<1>3. /\ lp > 0 /\ p \in c.pools /\ s1 > 0 /\ lp <= fed.lps[p].balance[user]
      /\ m1 <= c.assets[p[1]].balance[p] /\ m2 <= c.assets[p[2]].balance[p]
  <2>1. /\ lp > 0 /\ p \in c.pools /\ s1 > 0 /\ fed.lps[p].balance[user] >= lp
        /\ c.assets[p[1]].balance[p] >= m1 /\ c.assets[p[2]].balance[p] >= m2
    BY <1>1, <1>2 DEF CanRemoveLiq, CanBurn, CanTransfer
  <2>2. fed.lps[p].balance[user] \in Nat
    BY <1>1, TokenCovers DEF Addrs
  <2> HIDE DEF m1, m2, fed
  <2> QED BY <2>1, <2>2
<1>4. /\ c \in ContractState /\ c.lps[p].supply \in Nat /\ r1 \in Nat /\ r2 \in Nat
      /\ getFeeLp(c, p) \in Nat
      /\ c.lps[p].supply = 0 => getFeeLp(c, p) = 0
  BY ReserveNat, FeeOfSound DEF TokensSound
<1>5. c.lps[p].supply > 0 /\ s1 \in Nat
  BY <1>1, <1>3, <1>4
<1>6. /\ r1 > 0 /\ r2 > 0 /\ c.lps[p].balance[Zero] = MinLiquidity
  BY <1>5 DEF PoolSound
<1>7. user \in Addrs /\ Zero \in Addrs /\ user # Zero /\ FeeTo # Zero /\ p \in Addrs
  BY AddressAssumption DEF Addrs
<1>8. fed.lps[p].balance[Zero] = MinLiquidity
  BY <1>1, <1>6, <1>7, MinLiquidityAssumption
<1>9. lp < s1
  <2>1. fed.lps[p].balance[user] + fed.lps[p].balance[Zero] <= s1 /\ fed.lps[p].balance[user] \in Nat
    BY <1>1, <1>7, TokenCovers
  <2> HIDE DEF fed, s1
  <2> QED BY <1>3, <1>5, <1>8, <2>1, MinLiquidityAssumption
<1>10. /\ Token(L) /\ L.supply = s1 - lp
       /\ \A a \in Addrs : L.balance[a] = fed.lps[p].balance[a] - (IF a = user THEN lp ELSE 0)
  BY <1>1, <1>3, <1>7, BurnToken
<1>11. n = Settle(mintFee(c, p), p, L, Transfer(c.assets[p[1]], p, user, m1),
                                       Transfer(c.assets[p[2]], p, user, m2))
  <2>1. n = Settle(fed, p, L, Transfer(fed.assets[p[1]], p, user, Acquire(fed, p, 1, lp)),
                              Transfer(fed.assets[p[2]], p, user, Acquire(fed, p, 2, lp)))
    BY DEF removeLiq
  <2> HIDE DEF L, m1, m2
  <2> QED BY <1>1, <1>2, <2>1
<1> HIDE DEF fed, s1, L
<1>12. /\ m1 \in Nat /\ m1 < r1 /\ (s1 - lp) * r1 <= s1 * (r1 - m1)
       /\ m2 \in Nat /\ m2 < r2 /\ (s1 - lp) * r2 <= s1 * (r2 - m2)
  <2> HIDE DEF r1, r2
  <2> QED BY <1>4, <1>5, <1>6, <1>9, RemoveSide
<1> HIDE DEF m1, m2
<1>13. user # p
  BY AddressAssumption
<1>14. /\ TokensSound(n)
       /\ n.lps[p] = L /\ n.pools = c.pools /\ n.kLast[p] = K(n, p)
       /\ Reserve(n, p, 1) = r1 - m1 /\ Reserve(n, p, 2) = r2 - m2
       /\ \A q \in Pairs \ {p} : Untouched(c, n, q)
  <2>1. /\ TokensSound(n)
        /\ n.lps[p] = L /\ n.pools = c.pools /\ n.kLast[p] = K(n, p)
        /\ Reserve(n, p, 1) = r1 - (IF p = p THEN m1 ELSE 0) + (IF p = user THEN m1 ELSE 0)
        /\ Reserve(n, p, 2) = r2 - (IF p = p THEN m2 ELSE 0) + (IF p = user THEN m2 ELSE 0)
        /\ \A q \in Pairs \ {p} : Untouched(c, n, q)
    BY SMTT(60), <1>3, <1>10, <1>11, <1>12, Settled
  <2> QED BY <1>4, <1>12, <1>13, <2>1
<1>15. L.supply > 0 /\ L.balance[Zero] = c.lps[p].balance[Zero]
  BY <1>5, <1>6, <1>7, <1>8, <1>9, <1>10, MinLiquidityAssumption
<1>16. Rebalanced(c, n, p)
  <2>1. /\ n.lps[p].supply = s1 - lp /\ Reserve(n, p, 1) > 0 /\ Reserve(n, p, 2) > 0
    BY <1>4, <1>10, <1>12, <1>14
  <2>2. /\ n.lps[p].supply * Reserve(c, p, 1) <= s1 * Reserve(n, p, 1)
        /\ n.lps[p].supply * Reserve(c, p, 2) <= s1 * Reserve(n, p, 2)
    BY <1>10, <1>12, <1>14
  <2> QED BY <1>1, <1>3, <1>5, <1>14, <1>15, <2>1, <2>2 DEF Rebalanced
<1> QED BY <1>14, <1>16

\* The amounts and the LP of addLiq for a pool with liquidity.
LEMMA NextLiqFacts ==
  ASSUME NEW c, TokensSound(c), NEW p \in Pairs, PoolSound(c, p),
         c.lps[p].supply > 0, NEW a0 \in Nat, NEW a1 \in Nat
  PROVE  LET liq == Liq(c, p, a0, a1)
             s1  == c.lps[p].supply + getFeeLp(c, p)
             r1  == Reserve(c, p, 1)
             r2  == Reserve(c, p, 2)
             w   == (a0 * r2) \div r1
         IN  /\ liq.amount0 = IF w <= a1 THEN a0 ELSE (a1 * r1) \div r2
             /\ liq.amount1 = IF w <= a1 THEN w ELSE a1
             /\ liq.amount0 \in Nat /\ liq.amount1 \in Nat
             /\ liq.lp \in Nat
             /\ liq.lp <= (liq.amount0 * s1) \div r1
             /\ liq.lp <= (liq.amount1 * s1) \div r2
             /\ \/ liq.lp = (liq.amount0 * s1) \div r1
                \/ liq.lp = (liq.amount1 * s1) \div r2
<1> DEFINE fed == mintFee(c, p)
           liq == Liq(c, p, a0, a1)
           s1  == c.lps[p].supply + getFeeLp(c, p)
           r1  == Reserve(c, p, 1)
           r2  == Reserve(c, p, 2)
           w   == (a0 * r2) \div r1
           adj0 == IF w <= a1 THEN a0 ELSE (a1 * r1) \div r2
           adj1 == IF w <= a1 THEN w ELSE a1
           lp0 == (adj0 * s1) \div r1
           lp1 == (adj1 * s1) \div r2
<1>1. fed.assets = c.assets /\ fed.lps[p].supply = s1
  <2>1. fed.assets = c.assets /\ Minted(c.lps[p], fed.lps[p], FeeTo, getFeeLp(c, p))
    BY MintFeeFacts
  <2> QED BY <2>1 DEF Minted
<1>2. /\ r1 \in Nat \ {0} /\ r2 \in Nat \ {0} /\ s1 \in Nat /\ s1 > 0
  BY ReserveNat, FeeOfSound DEF PoolSound, TokensSound
<1>3. Reserve(fed, p, 1) = r1 /\ Reserve(fed, p, 2) = r2
  BY <1>1 DEF Reserve
<1>4. liq = NextLiq(fed, p, a0, a1)
  BY <1>1, <1>2 DEF Liq
<1>5. liq = [amount0 |-> adj0, amount1 |-> adj1, lp |-> IF lp0 < lp1 THEN lp0 ELSE lp1]
  <2> HIDE DEF fed, s1, r1, r2
  <2> QED BY <1>1, <1>3, <1>4 DEF NextLiq, LpFor
<1> HIDE DEF fed, liq, s1, r1, r2
<1>6. w \in Nat /\ (a1 * r1) \div r2 \in Nat
  BY <1>2, MulNat, DivBounds
<1> HIDE DEF w
<1>7. adj0 \in Nat /\ adj1 \in Nat
  BY <1>6
<1>8. lp0 \in Nat /\ lp1 \in Nat
  <2> HIDE DEF adj0, adj1
  <2> QED BY <1>2, <1>7, MulNat, DivBounds
<1>9. liq.amount0 = adj0 /\ liq.amount1 = adj1
  BY <1>5
<1>10. /\ liq.lp \in Nat /\ liq.lp <= lp0 /\ liq.lp <= lp1
       /\ liq.lp = lp0 \/ liq.lp = lp1
  <2> HIDE DEF lp0, lp1, adj0, adj1
  <2> QED BY <1>5, <1>8
<1> HIDE DEF adj0, adj1
<1>11. /\ liq.amount0 \in Nat /\ liq.amount1 \in Nat
       /\ liq.lp <= (liq.amount0 * s1) \div r1
       /\ liq.lp <= (liq.amount1 * s1) \div r2
       /\ \/ liq.lp = (liq.amount0 * s1) \div r1
          \/ liq.lp = (liq.amount1 * s1) \div r2
  BY <1>7, <1>9, <1>10
<1> QED BY <1>9, <1>10, <1>11 DEF liq, s1, r1, r2, w, adj0, adj1

\* addLiq.
LEMMA AddLiqFacts ==
  ASSUME NEW c, TokensSound(c), NEW p \in Pairs, PoolSound(c, p),
         NEW user \in Users, NEW a0 \in Nat, NEW a1 \in Nat,
         NEW expect, NEW slippage1000,
         CanAddLiq(c, user, p, a0, a1, expect, slippage1000),
         NEW n, n = addLiq(c, user, p, a0, a1)
  PROVE  /\ TokensSound(n)
         /\ Rebalanced(c, n, p) \/ Founded(c, n, p)
         /\ \A q \in Pairs \ {p} : Untouched(c, n, q)
<1> DEFINE fed == mintFee(c, p)
           b  == fed.lps[p]
           s1 == c.lps[p].supply + getFeeLp(c, p)
           r1 == Reserve(c, p, 1)
           r2 == Reserve(c, p, 2)
           liq == Liq(c, p, a0, a1)
           m1 == liq.amount0
           m2 == liq.amount1
           minted == Mint(b, user, liq.lp)
           L == IF b.supply = 0 THEN Mint(minted, Zero, MinLiquidity) ELSE minted
<1>1. fed.assets = c.assets /\ Minted(c.lps[p], b, FeeTo, getFeeLp(c, p))
  BY MintFeeFacts
<1>2. /\ Token(b) /\ b.supply = s1
      /\ \A a \in Addrs : b.balance[a] =
           c.lps[p].balance[a] + (IF a = FeeTo THEN getFeeLp(c, p) ELSE 0)
  <2> HIDE DEF fed
  <2> QED BY <1>1 DEF Minted
<1>3. /\ c \in ContractState /\ c.lps[p].supply \in Nat /\ r1 \in Nat /\ r2 \in Nat
      /\ getFeeLp(c, p) \in Nat
      /\ c.lps[p].supply = 0 => getFeeLp(c, p) = 0
  BY ReserveNat, FeeOfSound DEF TokensSound
<1>4. s1 \in Nat /\ (s1 = 0 <=> c.lps[p].supply = 0)
  BY <1>3
<1>5. /\ user \in Addrs /\ Zero \in Addrs /\ user # Zero /\ FeeTo # Zero
      /\ p \in Addrs /\ user # p
  BY AddressAssumption DEF Addrs
<1>6. /\ a0 > 0 /\ a1 > 0 /\ p \in c.pools /\ liq.lp > 0
      /\ c.assets[p[1]].balance[user] >= m1 /\ c.assets[p[2]].balance[user] >= m2
  BY DEF CanAddLiq, CanTransfer
<1>7. n = Settle(mintFee(c, p), p, L, Transfer(c.assets[p[1]], user, p, m1),
                                      Transfer(c.assets[p[2]], user, p, m2))
  <2>1. n = Settle(fed, p, L, Transfer(fed.assets[p[1]], user, p, m1),
                              Transfer(fed.assets[p[2]], user, p, m2))
    BY DEF addLiq
  <2> HIDE DEF L, m1, m2
  <2> QED BY <1>1, <2>1
<1>8. ASSUME m1 \in Nat, m2 \in Nat, Token(L)
      PROVE  /\ TokensSound(n)
             /\ n.lps[p] = L /\ n.pools = c.pools /\ n.kLast[p] = K(n, p)
             /\ Reserve(n, p, 1) = r1 + m1 /\ Reserve(n, p, 2) = r2 + m2
             /\ \A q \in Pairs \ {p} : Untouched(c, n, q)
  <2> HIDE DEF L, m1, m2
  <2>1. c.assets[p[1]].balance[user] \in Nat /\ c.assets[p[2]].balance[user] \in Nat
    BY <1>5, PairTicks, TokenCovers DEF TokensSound
  <2>2. m1 <= c.assets[p[1]].balance[user] /\ m2 <= c.assets[p[2]].balance[user]
    BY <1>6, <1>8, <2>1
  <2>3. /\ TokensSound(n)
        /\ n.lps[p] = L /\ n.pools = c.pools /\ n.kLast[p] = K(n, p)
        /\ Reserve(n, p, 1) = r1 - (IF p = user THEN m1 ELSE 0) + (IF p = p THEN m1 ELSE 0)
        /\ Reserve(n, p, 2) = r2 - (IF p = user THEN m2 ELSE 0) + (IF p = p THEN m2 ELSE 0)
        /\ \A q \in Pairs \ {p} : Untouched(c, n, q)
    BY <1>7, <1>8, <2>2, Settled
  <2> QED BY <1>3, <1>5, <1>8, <2>3
<1>9. CASE c.lps[p].supply = 0
  <2>1. s1 = 0 /\ b.supply = 0
    BY <1>2, <1>4, <1>9
  <2>2. liq = FirstLiq(a0, a1)
    <3>1. mintFee(c, p).lps[p].supply = 0
      BY <2>1
    <3> QED BY <3>1 DEF Liq
  <2> DEFINE root == Sqrt(a0 * a1)
  <2>3. root \in Nat /\ root * root <= a0 * a1 /\ a0 * a1 \in Nat
    BY MulNat, SqrtBounds
  <2>4. liq.amount0 = a0 /\ liq.amount1 = a1 /\ liq.lp = root - MinLiquidity
    BY <2>2 DEF FirstLiq
  <2> HIDE DEF root, liq, fed
  <2>5. liq.lp \in Nat
    BY <1>6, <2>3, <2>4, MinLiquidityAssumption
  <2>6. Minted(b, minted, user, liq.lp)
    BY <1>2, <1>5, <2>5, MintToken
  <2>7. L = Mint(minted, Zero, MinLiquidity)
    BY <2>1
  <2>8. Minted(minted, L, Zero, MinLiquidity)
    <3>1. Token(minted)
      BY <2>6 DEF Minted
    <3> HIDE DEF minted
    <3>2. Minted(minted, Mint(minted, Zero, MinLiquidity), Zero, MinLiquidity)
      BY <1>5, <3>1, MintToken, MinLiquidityAssumption
    <3> HIDE DEF L
    <3> QED BY <2>7, <3>2
  <2>9. Token(L) /\ L.supply = root
    BY <2>1, <2>3, <2>4, <2>6, <2>8, MinLiquidityAssumption DEF Minted
  <2>10. L.balance[Zero] = MinLiquidity
    <3>1. b.balance[Zero] = 0
      BY <1>2, <1>5, <2>1, TokenCovers
    <3>2. minted.balance[Zero] = b.balance[Zero] + 0
      BY <1>5, <2>6 DEF Minted
    <3>3. L.balance[Zero] = minted.balance[Zero] + MinLiquidity
      BY <1>5, <2>8 DEF Minted
    <3> HIDE DEF L, minted
    <3> QED BY <3>1, <3>2, <3>3, MinLiquidityAssumption
  <2>11. /\ TokensSound(n)
         /\ n.lps[p] = L /\ n.pools = c.pools /\ n.kLast[p] = K(n, p)
         /\ Reserve(n, p, 1) = r1 + a0 /\ Reserve(n, p, 2) = r2 + a1
         /\ \A q \in Pairs \ {p} : Untouched(c, n, q)
    <3> HIDE DEF L
    <3> QED BY <1>8, <2>4, <2>9
  <2>12. root * root <= K(n, p)
    <3>1. a0 * a1 <= (r1 + a0) * (r2 + a1)
      BY <1>3, MulMono2
    <3>2. (r1 + a0) * (r2 + a1) \in Nat /\ root * root \in Nat
      BY <1>3, <2>3, MulNat
    <3> QED BY <2>3, <2>11, <3>1, <3>2 DEF K
  <2>13. root > 0
    BY <1>6, <2>3, <2>4, MinLiquidityAssumption
  <2>14. Founded(c, n, p)
    <3> HIDE DEF L
    <3>1. Reserve(n, p, 1) > 0 /\ Reserve(n, p, 2) > 0
      BY <1>3, <1>6, <2>11
    <3> QED BY <1>6, <1>9, <2>9, <2>10, <2>11, <2>12, <2>13, <3>1 DEF Founded
  <2> QED BY <2>11, <2>14
<1>10. CASE c.lps[p].supply # 0
  <2>1. /\ c.lps[p].supply > 0 /\ s1 > 0 /\ b.supply # 0
        /\ r1 > 0 /\ r2 > 0 /\ c.lps[p].balance[Zero] = MinLiquidity
    BY <1>2, <1>3, <1>4, <1>10 DEF PoolSound
  <2>2. /\ m1 \in Nat /\ m2 \in Nat /\ liq.lp \in Nat
        /\ liq.lp <= (m1 * s1) \div r1
        /\ liq.lp <= (m2 * s1) \div r2
    BY <2>1, NextLiqFacts
  <2>3. L = minted
    BY <2>1
  <2> HIDE DEF liq, fed
  <2>4. Minted(b, L, user, liq.lp)
    BY <1>2, <1>5, <2>2, <2>3, MintToken
  <2>5. Token(L) /\ L.supply = s1 + liq.lp /\ L.balance[Zero] = c.lps[p].balance[Zero]
    <3>1. Token(L) /\ L.supply = s1 + liq.lp
      BY <1>2, <2>4 DEF Minted
    <3>2. L.balance[Zero] = b.balance[Zero] + 0
      BY <1>5, <2>4 DEF Minted
    <3>3. b.balance[Zero] = c.lps[p].balance[Zero] + 0
      BY <1>2, <1>5
    <3> HIDE DEF L
    <3> QED BY <2>1, <3>1, <3>2, <3>3, MinLiquidityAssumption
  <2> HIDE DEF L, m1, m2, r1, r2, s1
  <2>6. /\ TokensSound(n)
        /\ n.lps[p] = L /\ n.pools = c.pools /\ n.kLast[p] = K(n, p)
        /\ Reserve(n, p, 1) = r1 + m1 /\ Reserve(n, p, 2) = r2 + m2
        /\ \A q \in Pairs \ {p} : Untouched(c, n, q)
    BY <1>8, <2>2, <2>5
  <2>7. /\ (s1 + liq.lp) * r1 <= s1 * (r1 + m1)
        /\ (s1 + liq.lp) * r2 <= s1 * (r2 + m2)
    <3> DEFINE lp == liq.lp
    <3>1. lp \in Nat /\ lp <= (m1 * s1) \div r1 /\ lp <= (m2 * s1) \div r2
      BY <2>2
    <3>2. r1 \in Nat \ {0} /\ r2 \in Nat \ {0} /\ s1 \in Nat
      BY <1>3, <1>4, <2>1
    <3> HIDE DEF lp
    <3>3. (s1 + lp) * r1 <= s1 * (r1 + m1)
      BY <2>2, <3>1, <3>2, AddSide
    <3>4. (s1 + lp) * r2 <= s1 * (r2 + m2)
      BY <2>2, <3>1, <3>2, AddSide
    <3> QED BY <3>3, <3>4 DEF lp
  <2>8. L.supply > 0 /\ Reserve(n, p, 1) > 0 /\ Reserve(n, p, 2) > 0
    BY <1>3, <1>4, <2>1, <2>2, <2>5, <2>6
  <2>9. /\ n.lps[p].supply * Reserve(c, p, 1) <= s1 * Reserve(n, p, 1)
        /\ n.lps[p].supply * Reserve(c, p, 2) <= s1 * Reserve(n, p, 2)
    BY <2>5, <2>6, <2>7 DEF r1, r2
  <2>10. Rebalanced(c, n, p)
    BY <1>6, <2>1, <2>5, <2>6, <2>8, <2>9 DEF Rebalanced, s1
  <2> QED BY <2>6, <2>10
<1> QED BY <1>9, <1>10

\* The pair of two different ticks.
LEMMA PairOf ==
  ASSUME NEW tickA \in Ticks, NEW tickB \in Ticks, tickA # tickB
  PROVE  LET p == getPairStr(tickA, tickB)
         IN  /\ p \in Pairs
             /\ \/ p[1] = tickA /\ p[2] = tickB
                \/ p[1] = tickB /\ p[2] = tickA
<1>1. tickA \in Nat /\ tickB \in Nat
  BY TicksAssumption
<1>2. CASE tickA < tickB
  BY <1>2 DEF getPairStr, Pairs
<1>3. CASE tickB < tickA
  <2>1. ~(tickA < tickB)
    BY <1>1, <1>3
  <2>2. getPairStr(tickA, tickB) = <<tickB, tickA>>
    BY <2>1 DEF getPairStr
  <2> QED BY <1>3, <2>2 DEF Pairs
<1> QED BY <1>1, <1>2, <1>3

\* The amounts of a swap between positive reserves.
LEMMA SwapAmountsFacts ==
  ASSUME NEW c, c \in ContractState, NEW tickIn \in Ticks, NEW tickOut \in Ticks,
         tickIn # tickOut, NEW exactIn \in BOOLEAN, NEW amount \in Nat \ {0},
         LET p == getPairStr(tickIn, tickOut)
         IN  /\ HasReserves(ReserveOf(c, tickIn, p), ReserveOf(c, tickOut, p))
             /\ exactIn \/ amount < ReserveOf(c, tickOut, p)
  PROVE  LET p   == getPairStr(tickIn, tickOut)
             in  == ReserveOf(c, tickIn, p)
             out == ReserveOf(c, tickOut, p)
             amt == SwapAmounts(c, tickIn, tickOut, exactIn, amount)
         IN  /\ in \in Nat \ {0} /\ out \in Nat \ {0}
             /\ amt.in \in Nat /\ amt.out \in Nat /\ amt.out < out
             /\ amt.out * in <= amt.in * (out - amt.out)
<1> DEFINE p   == getPairStr(tickIn, tickOut)
           in  == ReserveOf(c, tickIn, p)
           out == ReserveOf(c, tickOut, p)
           amt == SwapAmounts(c, tickIn, tickOut, exactIn, amount)
<1>1. p \in Addrs
  BY PairOf DEF Addrs
<1>2. in \in Nat \ {0} /\ out \in Nat \ {0}
  <2>1. c.assets[tickIn] \in Brc20 /\ c.assets[tickOut] \in Brc20
    BY StateFields
  <2>2. in \in Nat /\ out \in Nat
    <3> HIDE DEF p
    <3> QED BY <1>1, <2>1 DEF ReserveOf, Brc20
  <2>3. in > 0 /\ out > 0
    BY DEF HasReserves
  <2> HIDE DEF in, out
  <2> QED BY <2>2, <2>3
<1>3. c.swapFeeRate1000 \in 0..999
  BY StateFields, SwapFeeAssumption
<1>4. exactIn \/ amount < out
  OBVIOUS
<1>5. amt = IF exactIn
            THEN [in |-> amount, out |-> getAmountOut(c, amount, in, out)]
            ELSE [in |-> getAmountIn(c, amount, in, out), out |-> amount]
  BY DEF SwapAmounts
<1> HIDE DEF in, out, amt
<1>6. CASE exactIn
  <2> DEFINE got == getAmountOut(c, amount, in, out)
  <2>1. got \in Nat /\ got < out /\ got * in <= amount * (out - got)
    BY <1>2, <1>3, AmountOutBounds
  <2>2. amt.in = amount /\ amt.out = got
    BY <1>5, <1>6
  <2> HIDE DEF got
  <2> QED BY <1>2, <2>1, <2>2 DEF in, out, amt
<1>7. CASE ~exactIn
  <2> DEFINE got == getAmountIn(c, amount, in, out)
  <2>1. got \in Nat /\ amount * in <= got * (out - amount)
    BY <1>2, <1>3, <1>4, <1>7, AmountInBounds
  <2>2. amt.in = got /\ amt.out = amount
    BY <1>5, <1>7
  <2> HIDE DEF got
  <2> QED BY <1>2, <1>4, <1>7, <2>1, <2>2 DEF in, out, amt
<1> QED BY <1>6, <1>7

\* swap.
LEMMA SwapFacts ==
  ASSUME NEW c, TokensSound(c),
         NEW user \in Users, NEW tickIn \in Ticks, NEW tickOut \in Ticks,
         tickIn # tickOut, NEW exactIn \in BOOLEAN, NEW amount \in Nat \ {0},
         NEW expect, NEW slippage1000,
         CanSwap(c, user, tickIn, tickOut, exactIn, amount, expect, slippage1000),
         NEW n, n = swap(c, user, tickIn, tickOut, exactIn, amount),
         NEW p, p = getPairStr(tickIn, tickOut)
  PROVE  /\ TokensSound(n) /\ p \in Pairs /\ Swapped(c, n, p)
         /\ \A q \in Pairs \ {p} : Untouched(c, n, q)
<1> DEFINE A == c.assets
           in  == ReserveOf(c, tickIn, p)
           out == ReserveOf(c, tickOut, p)
           amt == SwapAmounts(c, tickIn, tickOut, exactIn, amount)
           a == amt.in
           o == amt.out
           X == Transfer(A[tickIn], user, p, a)
           Y == Transfer(A[tickOut], p, user, o)
           B == [A EXCEPT ![tickIn] = X, ![tickOut] = Y]
<1>1. /\ p \in Pairs /\ p \in Addrs /\ user \in Addrs /\ user # p
      /\ \/ p[1] = tickIn /\ p[2] = tickOut
         \/ p[1] = tickOut /\ p[2] = tickIn
  BY PairOf, AddressAssumption DEF Addrs
<1>2. c \in ContractState /\ A \in [Ticks -> Brc20] /\ \A t \in Ticks : Token(A[t])
  BY StateFields DEF TokensSound
<1>3. /\ HasReserves(in, out)
      /\ exactIn \/ amount < out
      /\ A[tickIn].balance[user] >= a
  BY DEF CanSwap, CanGetAmountIn, CanTransfer
<1>4. /\ in \in Nat \ {0} /\ out \in Nat \ {0} /\ a \in Nat /\ o \in Nat /\ o < out
      /\ o * in <= a * (out - o)
  BY <1>2, <1>3, SwapAmountsFacts
<1>5. n = [c EXCEPT !.assets = B]
  <2>1. n = Exchange(c, tickIn, X, tickOut, Y)
    BY DEF swap
  <2> HIDE DEF X, Y
  <2> QED BY <2>1 DEF Exchange
<1> HIDE DEF amt, a, o
<1>6. Moved(A[tickIn], X, user, p, a)
  <2>1. Token(A[tickIn]) /\ A[tickIn].balance[user] \in Nat
    BY <1>1, <1>2, TokenCovers
  <2> QED BY <1>1, <1>3, <1>4, <2>1, TransferToken
<1>7. Moved(A[tickOut], Y, p, user, o)
  <2>1. Token(A[tickOut]) /\ o <= A[tickOut].balance[p]
    BY <1>2, <1>4 DEF ReserveOf
  <2> QED BY <1>1, <1>4, <2>1, TransferToken
<1> HIDE DEF A, X, Y
<1>8. B[tickIn] = X /\ B[tickOut] = Y /\ \A t \in Ticks \ {tickIn, tickOut} : B[t] = A[t]
  BY <1>2
<1>9. B \in [Ticks -> Brc20]
  <2>1. X \in Brc20 /\ Y \in Brc20
    BY <1>6, <1>7 DEF Moved, Token
  <2> QED BY <1>2, <2>1
<1> HIDE DEF B
<1>10. /\ n \in ContractState /\ n.assets = B /\ n.lps = c.lps
       /\ n.pools = c.pools /\ n.kLast = c.kLast
  BY <1>2, <1>5, <1>9 DEF ContractState
<1>11. TokensSound(n)
  <2>1. \A t \in Ticks : Token(B[t]) /\ B[t].supply = A[t].supply
    BY <1>2, <1>6, <1>7, <1>8 DEF Moved
  <2> QED BY <1>10, <2>1 DEF TokensSound, A
<1>12. ReserveOf(n, tickIn, p) = in + a /\ ReserveOf(n, tickOut, p) = out - o
  <2>1. X.balance[p] = A[tickIn].balance[p] - 0 + a
    BY <1>1, <1>6 DEF Moved
  <2>2. Y.balance[p] = A[tickOut].balance[p] - o + 0
    BY <1>1, <1>7 DEF Moved
  <2>3. in = A[tickIn].balance[p] /\ out = A[tickOut].balance[p]
    BY DEF ReserveOf, A
  <2>4. ReserveOf(n, tickIn, p) = X.balance[p] /\ ReserveOf(n, tickOut, p) = Y.balance[p]
    BY <1>8, <1>10 DEF ReserveOf
  <2> HIDE DEF in, out
  <2> QED BY <1>4, <2>1, <2>2, <2>3, <2>4
<1>13. Swapped(c, n, p)
  <2>1. /\ in * out <= (in + a) * (out - o)
        /\ in + a > 0 /\ out - o > 0 /\ in + a \in Nat /\ out - o \in Nat
    <3> HIDE DEF in, out
    <3> QED BY <1>4, ProductGrows
  <2>2. K(c, p) = in * out
    <3> DEFINE x == in
               y == out
    <3>1. \/ Reserve(c, p, 1) = x /\ Reserve(c, p, 2) = y
          \/ Reserve(c, p, 1) = y /\ Reserve(c, p, 2) = x
      BY <1>1 DEF Reserve, ReserveOf
    <3>2. x \in Nat /\ y \in Nat
      BY <1>4
    <3> HIDE DEF x, y
    <3>3. x * y = y * x
      BY <3>2
    <3> QED BY <3>1, <3>3 DEF K, x, y
  <2> DEFINE x == in + a
             y == out - o
  <2>3. \/ Reserve(n, p, 1) = x /\ Reserve(n, p, 2) = y
        \/ Reserve(n, p, 1) = y /\ Reserve(n, p, 2) = x
    <3>1. ReserveOf(n, tickIn, p) = x /\ ReserveOf(n, tickOut, p) = y
      BY <1>12
    <3> HIDE DEF x, y
    <3> QED BY <1>1, <3>1 DEF Reserve, ReserveOf
  <2>4. K(n, p) = x * y
    <3>1. x \in Nat /\ y \in Nat
      BY <2>1
    <3> HIDE DEF x, y
    <3>2. x * y = y * x
      BY <3>1
    <3> QED BY <2>3, <3>2 DEF K
  <2>5. Reserve(n, p, 1) > 0 /\ Reserve(n, p, 2) > 0
    BY <2>1, <2>3
  <2> HIDE DEF in, out
  <2> QED BY <1>10, <2>1, <2>2, <2>4, <2>5 DEF Swapped
<1>14. \A q \in Pairs \ {p} : Untouched(c, n, q)
  <2> SUFFICES ASSUME NEW q \in Pairs \ {p} PROVE Untouched(c, n, q)
    OBVIOUS
  <2>1. q # user
    BY AddressAssumption
  <2>2. q[1] \in Ticks /\ q[2] \in Ticks /\ q \in Addrs
    BY PairTicks
  <2>3. \A t \in Ticks : B[t].balance[q] = A[t].balance[q]
    <3> TAKE t \in Ticks
    <3>1. A[t].balance[q] \in Nat
      BY <1>2, <2>2 DEF Brc20
    <3>2. X.balance[q] = A[tickIn].balance[q] - 0 + 0
      BY <1>6, <2>1, <2>2 DEF Moved
    <3>3. Y.balance[q] = A[tickOut].balance[q] - 0 + 0
      BY <1>7, <2>1, <2>2 DEF Moved
    <3>4. A[tickIn].balance[q] \in Nat /\ A[tickOut].balance[q] \in Nat
      BY <1>2, <2>2 DEF Brc20
    <3> QED BY <1>8, <3>1, <3>2, <3>3, <3>4
  <2> QED BY <1>10, <2>2, <2>3 DEF Untouched, Reserve, A
<1> QED BY <1>1, <1>11, <1>13, <1>14

\* send.
LEMMA SendFacts ==
  ASSUME NEW c, TokensSound(c), NEW tick \in Ticks, NEW from \in Users,
         NEW to \in Users, NEW amount \in Nat, CanSend(c, tick, from, amount),
         NEW n, n = send(c, tick, from, to, amount)
  PROVE  TokensSound(n) /\ \A q \in Pairs : Untouched(c, n, q)
<1> DEFINE A == c.assets
           X == Transfer(A[tick], from, to, amount)
           B == [A EXCEPT ![tick] = X]
<1>1. c \in ContractState /\ A \in [Ticks -> Brc20] /\ \A t \in Ticks : Token(A[t])
  BY StateFields DEF TokensSound
<1>2. from \in Addrs /\ to \in Addrs
  BY DEF Addrs
<1>3. Moved(A[tick], X, from, to, amount)
  <2>1. A[tick].balance[from] \in Nat /\ A[tick].balance[from] >= amount /\ Token(A[tick])
    BY <1>1, <1>2, TokenCovers DEF CanSend, CanTransfer
  <2> QED BY <1>2, <2>1, TransferToken
<1>4. n = [c EXCEPT !.assets[tick] = X]
  BY DEF send
<1> HIDE DEF X
<1>5. X \in Brc20
  BY <1>3 DEF Moved, Token
<1>6. B \in [Ticks -> Brc20] /\ B[tick] = X /\ \A t \in Ticks \ {tick} : B[t] = A[t]
  BY <1>1, <1>5
<1>7. /\ n \in ContractState /\ n.assets = B /\ n.lps = c.lps
      /\ n.pools = c.pools /\ n.kLast = c.kLast
  BY <1>1, <1>4, <1>5 DEF ContractState
<1> HIDE DEF A, B
<1>8. TokensSound(n)
  <2>1. \A t \in Ticks : Token(B[t]) /\ B[t].supply = A[t].supply
    BY <1>1, <1>3, <1>6 DEF Moved
  <2> QED BY <1>7, <2>1 DEF TokensSound, A
<1>9. ASSUME NEW q \in Pairs PROVE Untouched(c, n, q)
  <2>1. q # from /\ q # to
    BY AddressAssumption
  <2>2. q[1] \in Ticks /\ q[2] \in Ticks /\ q \in Addrs
    BY PairTicks
  <2>3. \A t \in Ticks : B[t].balance[q] = A[t].balance[q]
    <3> TAKE t \in Ticks
    <3>1. X.balance[q] = A[tick].balance[q] - 0 + 0
      BY <1>3, <2>1, <2>2 DEF Moved
    <3>2. A[tick].balance[q] \in Nat
      BY <1>1, <2>2 DEF Brc20
    <3> QED BY <1>6, <3>1, <3>2
  <2> QED BY <1>7, <2>2, <2>3 DEF Untouched, Reserve, A
<1> QED BY <1>8, <1>9

\* deployPool.
LEMMA DeployFacts ==
  ASSUME NEW c, TokensSound(c), NEW tickA \in Ticks, NEW tickB \in Ticks,
         CanDeployPool(c, tickA, tickB), NEW n, n = deployPool(c, tickA, tickB)
  PROVE  TokensSound(n) /\ \A q \in Pairs : Untouched(c, n, q)
<1>1. getPairStr(tickA, tickB) \in Pairs
  BY PairOf DEF CanDeployPool
<1>2. /\ n \in ContractState /\ n.assets = c.assets /\ n.lps = c.lps
      /\ c.pools \subseteq n.pools /\ n.kLast = c.kLast
  BY <1>1 DEF deployPool, ContractState, TokensSound
<1> QED BY <1>2 DEF TokensSound, Untouched, Reserve

-----------------------------------------------------------------------------
(***************************************************************************)
(* The invariant is inductive.                                             *)
(***************************************************************************)

\* What a step does to a pool, whichever operation it is.
PoolStep(c, n, p) == \/ Untouched(c, n, p) \/ Swapped(c, n, p)
                     \/ Founded(c, n, p) \/ Rebalanced(c, n, p)

\* A tick starts with the users' deposits.
LEMMA DepositedToken ==
  ASSUME NEW t \in Ticks
  PROVE  Token(Deposited(t))
<1> DEFINE held == [u \in Users |-> Deposit[u][t]]
           bal == [a \in Addrs |-> IF a \in Users THEN held[a] ELSE 0]
<1>1. IsFiniteSet(Users) /\ Users \subseteq Addrs
  BY AddressAssumption DEF Addrs
<1>2. \A u \in Users : held[u] \in Nat
  BY InputsAssumption
<1>3. bal \in [Addrs -> Nat]
  BY <1>2
<1>4. SumFunction(held) = SumFunctionOnSet(held, Users)
  BY DEF SumFunction, FoldFunction, SumFunctionOnSet
<1>5. \A u \in Users : held[u] = bal[u]
  BY <1>1
<1>6. \A a \in Addrs \ Users : bal[a] = 0
  OBVIOUS
<1>7. Deposited(t) = [balance |-> bal, supply |-> SumFunction(held)]
  BY DEF Deposited
<1> HIDE DEF held, bal
<1>8. SumFunctionOnSet(held, Users) = SumFunctionOnSet(bal, Users)
  BY <1>1, <1>5, SumAgrees
<1>9. SumFunctionOnSet(bal, Addrs) = SumFunctionOnSet(bal, Users)
  BY <1>1, <1>3, <1>6, AddrsFinite, SumIgnoresZeros
<1>10. SumFunctionOnSet(held, Users) \in Nat
  BY <1>1, <1>2, SumNat
<1> QED BY <1>3, <1>4, <1>7, <1>8, <1>9, <1>10 DEF Token, Brc20

\* An LP token starts empty.
LEMMA EmptyToken == Token(EmptyBrc20)
<1> DEFINE bal == [a \in Addrs |-> 0]
<1>1. bal \in [Addrs -> Nat] /\ \A a \in Addrs \ {} : bal[a] = 0
  OBVIOUS
<1>2. EmptyBrc20 = [balance |-> bal, supply |-> 0]
  BY DEF EmptyBrc20
<1> HIDE DEF bal
<1>3. SumFunctionOnSet(bal, Addrs) = SumFunctionOnSet(bal, {})
  BY <1>1, AddrsFinite, SumIgnoresZeros
<1> QED BY <1>1, <1>2, <1>3, SumEmpty DEF Token, Brc20

\* The deposits satisfy the invariant.
LEMMA InitSound == Init => PoolInv
<1> SUFFICES ASSUME Init PROVE PoolInv
  OBVIOUS
<1> DEFINE A == [t \in Ticks |-> Deposited(t)]
           L == [p \in Pairs |-> EmptyBrc20]
           k == [p \in Pairs |-> 0]
<1>1. PICK rate \in SwapFeeRates1000 :
        contract = [assets |-> A, lps |-> L, pools |-> {}, kLast |-> k,
                    swapFeeRate1000 |-> rate]
  BY DEF Init
<1>2. \A t \in Ticks : A[t] = Deposited(t) /\ Token(A[t])
  BY DepositedToken
<1>3. \A p \in Pairs : L[p] = EmptyBrc20 /\ Token(L[p])
  BY EmptyToken
<1>4. A \in [Ticks -> Brc20] /\ L \in [Pairs -> Brc20] /\ k \in [Pairs -> Nat]
  BY <1>2, <1>3 DEF Token
<1>5. \A p \in Pairs : L[p].supply = 0
  BY <1>3 DEF EmptyBrc20
<1> HIDE DEF A, L, k
<1>6. contract \in ContractState /\ contract.assets = A /\ contract.lps = L
  BY <1>1, <1>4 DEF ContractState
<1> QED BY <1>2, <1>3, <1>5, <1>6 DEF PoolInv, TokensSound, PoolSound

\* What a step of the specification does to the tokens and to every pool.
LEMMA StepFacts ==
  ASSUME PoolInv, Next
  PROVE  TokensSound(contract') /\ \A p \in Pairs : PoolStep(contract, contract', p)
<1>1. TokensSound(contract) /\ \A p \in Pairs : PoolSound(contract, p)
  BY DEF PoolInv
<1>2. Amounts \subseteq Nat \ {0}
  BY InputsAssumption
<1>3. ASSUME NEW tickA \in Ticks, NEW tickB \in Ticks, DeployPool(tickA, tickB)
      PROVE  TokensSound(contract') /\ \A p \in Pairs : Untouched(contract, contract', p)
  BY <1>1, <1>3, DeployFacts DEF DeployPool
<1>4. ASSUME NEW user \in Users, NEW p \in Pairs, NEW amount0 \in Amounts,
             NEW amount1 \in Amounts, NEW expect \in Expects,
             NEW slippage1000 \in Slippages,
             AddLiq(user, p, amount0, amount1, expect, slippage1000)
      PROVE  /\ TokensSound(contract')
             /\ Rebalanced(contract, contract', p) \/ Founded(contract, contract', p)
             /\ \A q \in Pairs \ {p} : Untouched(contract, contract', q)
  <2>1. amount0 \in Nat /\ amount1 \in Nat /\ PoolSound(contract, p)
    BY <1>1, <1>2
  <2> QED BY <1>1, <1>4, <2>1, AddLiqFacts DEF AddLiq
<1>5. ASSUME NEW user \in Users \cup {FeeTo}, NEW p \in Pairs, NEW lp \in Amounts,
             NEW amount0 \in Expects, NEW amount1 \in Expects,
             NEW slippage1000 \in Slippages,
             RemoveLiq(user, p, lp, amount0, amount1, slippage1000)
      PROVE  /\ TokensSound(contract') /\ Rebalanced(contract, contract', p)
             /\ \A q \in Pairs \ {p} : Untouched(contract, contract', q)
  <2>1. lp \in Nat /\ PoolSound(contract, p)
    BY <1>1, <1>2
  <2> QED BY <1>1, <1>5, <2>1, RemoveLiqFacts DEF RemoveLiq
<1>6. ASSUME NEW user \in Users, NEW tickIn \in Ticks, NEW tickOut \in Ticks,
             NEW exactIn \in BOOLEAN, NEW amount \in Amounts, NEW expect \in Expects,
             NEW slippage1000 \in Slippages, tickIn # tickOut,
             Swap(user, tickIn, tickOut, exactIn, amount, expect, slippage1000)
      PROVE  LET p == getPairStr(tickIn, tickOut)
             IN  /\ TokensSound(contract') /\ p \in Pairs /\ Swapped(contract, contract', p)
                 /\ \A q \in Pairs \ {p} : Untouched(contract, contract', q)
  <2>1. amount \in Nat \ {0}
    BY <1>2
  <2> QED BY <1>1, <1>6, <2>1, SwapFacts DEF Swap
<1>7. ASSUME NEW tick \in Ticks, NEW from \in Users, NEW to \in Users,
             NEW amount \in Amounts, Send(tick, from, to, amount)
      PROVE  TokensSound(contract') /\ \A p \in Pairs : Untouched(contract, contract', p)
  <2>1. amount \in Nat
    BY <1>2
  <2> QED BY <1>1, <1>7, <2>1, SendFacts DEF Send
<1> QED BY <1>3, <1>4, <1>5, <1>6, <1>7 DEF Next, PoolStep

\* A step keeps a pool sound.
LEMMA PoolStepSound ==
  ASSUME NEW c, c \in ContractState, NEW n, n \in ContractState, NEW p \in Pairs,
         PoolSound(c, p), PoolStep(c, n, p)
  PROVE  PoolSound(n, p)
BY UntouchedSound, SwappedSound, FoundedSound, RebalancedHolds DEF PoolStep

\* A step keeps the value behind a share.
LEMMA PoolStepShare ==
  ASSUME NEW c, c \in ContractState, NEW n, n \in ContractState, NEW p \in Pairs,
         PoolSound(c, p), PoolStep(c, n, p)
  PROVE  ShareHolds(c, n, p)
<1>1. CASE Untouched(c, n, p) \/ Swapped(c, n, p)
  <2>1. n.lps[p] = c.lps[p] /\ n.kLast[p] = c.kLast[p]
    BY <1>1 DEF Untouched, Swapped
  <2>2. c.kLast[p] * c.lps[p].supply * c.lps[p].supply \in Nat
    BY ReserveNat, MulNat
  <2> QED BY <2>1, <2>2 DEF ShareHolds
<1>2. CASE Founded(c, n, p)
  BY <1>2 DEF Founded, ShareHolds
<1>3. CASE Rebalanced(c, n, p)
  BY <1>3, RebalancedHolds
<1> QED BY <1>1, <1>2, <1>3 DEF PoolStep

\* The invariant holds in every reachable state, for any fee below 100% and
\* any deposits.
LEMMA PoolAlwaysSound == Spec => []PoolInv
<1>1. ASSUME PoolInv, [Next]_contract PROVE PoolInv'
  <2>1. CASE Next
    <3>1. contract \in ContractState /\ \A p \in Pairs : PoolSound(contract, p)
      BY <1>1 DEF PoolInv, TokensSound
    <3>2. TokensSound(contract') /\ \A p \in Pairs : PoolStep(contract, contract', p)
      BY <1>1, <2>1, StepFacts
    <3>3. contract' \in ContractState
      BY <3>2 DEF TokensSound
    <3>4. \A p \in Pairs : PoolSound(contract', p)
      BY <3>1, <3>2, <3>3, PoolStepSound
    <3> QED BY <3>2, <3>4 DEF PoolInv, TokensSound, PoolSound, Reserve, K, Token, Deposited
  <2>2. CASE UNCHANGED contract
    BY <1>1, <2>2 DEF PoolInv, TokensSound, PoolSound, Reserve, K, Token, Deposited
  <2> QED BY <1>1, <2>1, <2>2
<1> QED BY <1>1, InitSound, PTL DEF Spec

\* Whatever users call, the contract state keeps its shape: no balance and no
\* supply goes below zero.
THEOREM SwapPoolTypes == Spec => []TypeOK
<1>1. PoolInv => TypeOK
  BY DEF PoolInv, TokensSound, TypeOK
<1> QED BY <1>1, PoolAlwaysSound, PTL

\* The supplies that Brc20 keeps by increments are the sums of the balances,
\* and no tick is made or lost.
THEOREM SuppliesAreSums == Spec => []SupplyIsSumOfBalances
<1>1. ASSUME NEW b, Token(b) PROVE b.supply = SumFunction(b.balance)
  <2>1. DOMAIN b.balance = Addrs
    BY <1>1 DEF Token, Brc20
  <2>2. SumFunction(b.balance) = SumFunctionOnSet(b.balance, Addrs)
    BY <2>1 DEF SumFunction, FoldFunction, SumFunctionOnSet
  <2> QED BY <1>1, <2>2 DEF Token
<1>2. PoolInv => SupplyIsSumOfBalances
  BY <1>1 DEF PoolInv, TokensSound, SupplyIsSumOfBalances
<1> QED BY <1>2, PoolAlwaysSound, PTL

\* A pool with liquidity keeps the LP locked at "0" and both reserves, whatever
\* is swapped and withdrawn.
THEOREM PoolsAreNeverDrained == Spec => []PoolNeverDrained
<1>1. ASSUME PoolInv PROVE PoolNeverDrained
  <2> SUFFICES ASSUME NEW p \in Pairs, HasLiquidity(p)
               PROVE  /\ contract.lps[p].supply >= MinLiquidity
                      /\ contract.lps[p].balance[Zero] = MinLiquidity
                      /\ Reserve(contract, p, 1) > 0
                      /\ Reserve(contract, p, 2) > 0
    BY DEF PoolNeverDrained
  <2>1. TokensSound(contract) /\ PoolSound(contract, p) /\ contract.lps[p].supply > 0
    BY <1>1 DEF PoolInv, HasLiquidity
  <2>2. Token(contract.lps[p]) /\ Zero \in Addrs
    BY <2>1 DEF TokensSound, Addrs
  <2>3. contract.lps[p].balance[Zero] <= contract.lps[p].supply
    BY <2>2, TokenCovers
  <2>4. contract.lps[p].supply \in Nat
    BY <2>2, TokenCovers
  <2> QED BY <2>1, <2>3, <2>4, MinLiquidityAssumption DEF PoolSound
<1> QED BY <1>1, PoolAlwaysSound, PTL

\* Whatever is minted to the protocol, added and removed, the value that kLast
\* records behind a share never falls, for every fee, every amount and all the
\* rounding of the integer divisions and square roots.
THEOREM SharesKeepTheirValue == Spec => ShareValueNeverFalls
<1>1. ASSUME PoolInv, [Next]_contract, NEW p \in Pairs
      PROVE  ShareHolds(contract, contract', p)
  <2>1. contract \in ContractState /\ PoolSound(contract, p)
    BY <1>1 DEF PoolInv, TokensSound
  <2>2. CASE Next
    <3>1. contract' \in ContractState /\ PoolStep(contract, contract', p)
      BY <1>1, <2>2, StepFacts DEF TokensSound
    <3> QED BY <2>1, <3>1, PoolStepShare
  <2>3. CASE UNCHANGED contract
    <3>1. Untouched(contract, contract', p)
      BY <2>3 DEF Untouched
    <3>2. contract' \in ContractState
      BY <2>1, <2>3
    <3> QED BY <2>1, <3>1, <3>2, PoolStepShare DEF PoolStep
  <2> QED BY <1>1, <2>2, <2>3
<1>2. PoolInv /\ [Next]_contract =>
        [\A p \in Pairs :
           LET s == contract.lps[p].supply
               t == contract'.lps[p].supply
           IN  s > 0 => contract.kLast[p] * t * t <= contract'.kLast[p] * s * s]_contract
  BY <1>1 DEF ShareHolds
<1> QED BY <1>2, PoolAlwaysSound, PTL DEF Spec, ShareValueNeverFalls

\* Who neither adds nor removes is not diluted by who does, on either side of
\* the pool, beyond the protocol's LP.
THEOREM ProvidersAreNotDiluted == Spec => NobodyIsDiluted
<1>1. ASSUME PoolInv, Next, NEW p \in Pairs, HasLiquidity(p),
             contract'.kLast[p] # contract.kLast[p], NEW i \in {1, 2}
      PROVE  Reserve(contract, p, i) * contract'.lps[p].supply
               <= Reserve(contract', p, i) * (contract.lps[p].supply + getFeeLp(contract, p))
  <2>1. TokensSound(contract') /\ PoolStep(contract, contract', p)
    BY <1>1, StepFacts
  <2>2. Rebalanced(contract, contract', p)
    BY <1>1, <2>1 DEF PoolStep, Untouched, Swapped, Founded, HasLiquidity
  <2> DEFINE r == Reserve(contract, p, i)
             q == Reserve(contract', p, i)
             t == contract'.lps[p].supply
             s == contract.lps[p].supply + getFeeLp(contract, p)
  <2>3. t * r <= s * q
    BY <2>2 DEF Rebalanced
  <2>4. contract \in ContractState /\ contract' \in ContractState /\ PoolSound(contract, p)
    BY <1>1, <2>1 DEF PoolInv, TokensSound
  <2>5. r \in Nat /\ q \in Nat /\ t \in Nat
    BY <2>4, ReserveNat
  <2>6. s \in Nat
    <3>1. getFeeLp(contract, p) \in Nat
      BY <2>4, FeeOfSound
    <3>2. contract.lps[p].supply \in Nat
      BY <2>4, ReserveNat
    <3> QED BY <3>1, <3>2
  <2> HIDE DEF r, q, s, t
  <2>7. r * t <= q * s
    BY <2>3, <2>5, <2>6
  <2> QED BY <2>7 DEF r, q, s, t
<1>2. PoolInv /\ [Next]_contract =>
        [\A p \in Pairs : HasLiquidity(p) /\ contract'.kLast[p] # contract.kLast[p] =>
           \A i \in {1, 2} :
             Reserve(contract, p, i) * contract'.lps[p].supply
               <= Reserve(contract', p, i)
                    * (contract.lps[p].supply + getFeeLp(contract, p))]_contract
  BY <1>1
<1> QED BY <1>2, PoolAlwaysSound, PTL DEF Spec, NobodyIsDiluted

\* Swapping what was just bought back pays out at most what was put in, however
\* the reserves and the fee are: the pool's roundings never add up for the user.
THEOREM RoundTripsDoNotProfit == Spec => []NoRoundTripProfit
<1>1. ASSUME NEW c, c.swapFeeRate1000 \in 0..999, NEW a \in Nat \ {0},
             NEW in \in Nat \ {0}, NEW out \in Nat \ {0},
             NEW got, got = getAmountOut(c, a, in, out), got > 0
      PROVE  getAmountOut(c, got, out - got, in + a) <= a
  <2> DEFINE g == 1000 - c.swapFeeRate1000
             o == out - got
             num == (got * g) * (in + a)
             den == o * 1000 + got * g
  <2>1. got \in Nat /\ got < out /\ got * in <= a * (out - got)
    BY <1>1, AmountOutBounds
  <2>2. g \in 1..1000 /\ o \in Nat \ {0} /\ got * in <= a * o
    BY SMTT(60), <1>1, <2>1
  <2>3. getAmountOut(c, got, o, in + a) = num \div den
    BY DEF getAmountOut
  <2> HIDE DEF g, o
  <2>4. (got * in) * g <= (a * o) * g
    BY <2>1, <2>2, MulMono, MulNat
  <2>5. (a * o) * g <= (a * o) * 1000
    <3> DEFINE y == a * o
    <3>1. y \in Nat
      BY <2>2, MulNat
    <3> HIDE DEF y
    <3>2. g * y <= 1000 * y
      BY <2>2, <3>1, MulMono
    <3>3. y * g = g * y
      BY <2>2, <3>1
    <3> QED BY <3>1, <3>2, <3>3 DEF y
  <2>6. num = (got * in) * g + (got * g) * a
    BY <2>1, <2>2
  <2>7. a * den = (a * o) * 1000 + (got * g) * a
    BY <2>1, <2>2
  <2>8. /\ (got * in) * g \in Nat /\ (a * o) * g \in Nat
        /\ (a * o) * 1000 \in Nat /\ (got * g) * a \in Nat
    BY <2>1, <2>2, MulNat
  <2>9. num <= a * den
    BY <2>4, <2>5, <2>6, <2>7, <2>8
  <2>10. num \in Nat /\ den \in Nat \ {0}
    <3>1. got * g \in Nat /\ in + a \in Nat
      BY <2>1, <2>2, MulNat
    <3>2. num \in Nat
      BY <3>1, MulNat
    <3> QED BY <2>2, <3>1, <3>2
  <2> HIDE DEF num, den
  <2>11. (a + 1) * den = a * den + den
    BY <2>10
  <2>12. a * den \in Nat
    BY <2>10, MulNat
  <2>13. num < (a + 1) * den
    BY <2>9, <2>10, <2>11, <2>12
  <2>14. num \div den <= a
    BY <2>10, <2>13, DivMax
  <2> QED BY <2>3, <2>14 DEF o
<1>2. ASSUME PoolInv PROVE NoRoundTripProfit
  <2> SUFFICES ASSUME NEW p \in Pairs, NEW i \in {1, 2}, NEW amount \in Amounts,
                      HasLiquidity(p)
               PROVE  LET in  == Reserve(contract, p, i)
                          out == Reserve(contract, p, 3 - i)
                          got == getAmountOut(contract, amount, in, out)
                      IN  got > 0 => getAmountOut(contract, got, out - got, in + amount) <= amount
    BY DEF NoRoundTripProfit
  <2>1. contract \in ContractState /\ PoolSound(contract, p) /\ contract.lps[p].supply > 0
    BY <1>2 DEF PoolInv, TokensSound, HasLiquidity
  <2>2. Reserve(contract, p, 1) \in Nat \ {0} /\ Reserve(contract, p, 2) \in Nat \ {0}
    BY <2>1, ReserveNat DEF PoolSound
  <2>3. Reserve(contract, p, i) \in Nat \ {0} /\ Reserve(contract, p, 3 - i) \in Nat \ {0}
    <3>1. 3 - i = 1 \/ 3 - i = 2
      OBVIOUS
    <3> QED BY <2>2, <3>1
  <2>4. contract.swapFeeRate1000 \in 0..999
    BY <2>1, StateFields, SwapFeeAssumption
  <2>5. amount \in Nat \ {0}
    BY InputsAssumption
  <2> DEFINE in  == Reserve(contract, p, i)
             out == Reserve(contract, p, 3 - i)
  <2>6. in \in Nat \ {0} /\ out \in Nat \ {0}
    BY <2>3
  <2> HIDE DEF in, out
  <2>7. LET got == getAmountOut(contract, amount, in, out)
        IN  got > 0 => getAmountOut(contract, got, out - got, in + amount) <= amount
    BY <1>1, <2>4, <2>5, <2>6
  <2> QED BY <2>7 DEF in, out
<1> QED BY <1>2, PoolAlwaysSound, PTL

-----------------------------------------------------------------------------
(***************************************************************************)
(* The quotes.                                                             *)
(***************************************************************************)

\* Without slippage the result must reach the expectation.
LEMMA NoSlippage ==
  ASSUME NEW e \in Nat
  PROVE  /\ (e * 1000) \div (1000 + 0) = e
         /\ (e * (1000 + 0)) \div 1000 = e
         /\ \A g \in Nat : WithinSlippage(g, e, 0) <=> g >= e
<1>1. 1000 + 0 = 1000 /\ 1000 - 0 = 1000
  OBVIOUS
<1>2. (e * 1000) \div 1000 = e
  OBVIOUS
<1> QED BY <1>1, <1>2 DEF WithinSlippage

\* A removal that was quoted is accepted.
LEMMA QuotedRemoval ==
  ASSUME NEW c, TokensSound(c), NEW p \in Pairs, PoolSound(c, p),
         c.lps[p].supply > 0, NEW user \in Users, NEW amount \in Nat,
         CanBurn(c.lps[p], user, amount),
         NEW q, q = quoteRemoveLiq(c, p, amount), q[1] > 0, q[2] > 0
  PROVE  CanRemoveLiq(c, user, p, amount, q[1], q[2], 0)
<1> DEFINE fed == mintFee(c, p)
           fee == getFeeLp(c, p)
           s1 == c.lps[p].supply + fee
           r1 == Reserve(c, p, 1)
           r2 == Reserve(c, p, 2)
           b == fed.lps[p]
           h == c.lps[p].balance[user]
<1>1. fee \in Nat /\ c.lps[p].supply \in Nat /\ c \in ContractState
  BY FeeOfSound, ReserveNat DEF TokensSound
<1>2. fed.assets = c.assets /\ fed.pools = c.pools /\ Minted(c.lps[p], b, FeeTo, fee)
  BY MintFeeFacts
<1>3. user \in Addrs /\ p \in Addrs
  BY PairTicks DEF Addrs
<1>4. /\ b.supply = s1 /\ h \in Nat /\ h <= c.lps[p].supply
      /\ b.balance[user] \in Nat /\ b.balance[user] >= h
  <2>1. Token(c.lps[p])
    BY DEF TokensSound
  <2>2. h \in Nat /\ h <= c.lps[p].supply
    BY <1>3, <2>1, TokenCovers
  <2> HIDE DEF h, b, fee
  <2> QED BY <1>1, <1>2, <1>3, <2>2 DEF Minted, h
<1>5. r1 \in Nat \ {0} /\ r2 \in Nat \ {0} /\ p \in c.pools
  BY <1>1, ReserveNat DEF PoolSound
<1>6. Reserve(fed, p, 1) = r1 /\ Reserve(fed, p, 2) = r2
  BY <1>2 DEF Reserve
<1>7. q[1] = (amount * r1) \div s1 /\ q[2] = (amount * r2) \div s1
  BY DEF quoteRemoveLiq
<1>8. Acquire(fed, p, 1, amount) = q[1] /\ Acquire(fed, p, 2, amount) = q[2]
  BY <1>4, <1>6, <1>7 DEF Acquire
<1>9. amount > 0 /\ h >= amount
  BY DEF CanBurn
<1>10. s1 \in Nat \ {0} /\ amount <= s1
  <2> HIDE DEF fee, h
  <2> QED BY <1>1, <1>4, <1>9
<1> HIDE DEF fee, s1, r1, r2, h, b
<1>11. ASSUME NEW r \in Nat \ {0}
       PROVE  (amount * r) \div s1 \in Nat /\ (amount * r) \div s1 <= r
  <2>1. amount * r <= s1 * r
    BY <1>10, MulMono
  <2>2. amount * r \in Nat /\ s1 * r \in Nat
    BY <1>10, MulNat
  <2>3. (r + 1) * s1 = s1 * r + s1
    BY <1>10
  <2>4. amount * r < (r + 1) * s1
    BY <1>10, <2>1, <2>2, <2>3
  <2> QED BY <1>10, <2>2, <2>4, DivBounds, DivMax
<1>12. q[1] \in Nat /\ q[1] <= r1 /\ q[2] \in Nat /\ q[2] <= r2
  BY <1>5, <1>7, <1>11
<1>13. fed.assets[p[1]].balance[p] = r1 /\ fed.assets[p[2]].balance[p] = r2
  BY <1>6 DEF Reserve
<1>14. CanTransfer(fed.assets[p[1]], p, q[1]) /\ CanTransfer(fed.assets[p[2]], p, q[2])
  BY <1>5, <1>12, <1>13 DEF CanTransfer
<1>15. WithinSlippage(q[1], q[1], 0) /\ WithinSlippage(q[2], q[2], 0)
  BY <1>12, NoSlippage
<1>16. CanBurn(b, user, amount) /\ b.supply > 0
  BY <1>4, <1>9, <1>10 DEF CanBurn
<1> HIDE DEF fed
<1> QED BY <1>5, <1>8, <1>9, <1>14, <1>15, <1>16 DEF CanRemoveLiq, fed, b

\* A swap that was quoted is accepted.
LEMMA QuotedSwap ==
  ASSUME NEW c, c \in ContractState, NEW tickIn \in Ticks, NEW tickOut \in Ticks,
         tickIn # tickOut, NEW user \in Users, NEW exactIn \in BOOLEAN,
         NEW amount \in Nat \ {0},
         CanQuoteSwap(c, tickIn, tickOut, exactIn, amount),
         NEW q, q = quoteSwap(c, tickIn, tickOut, exactIn, amount), q > 0,
         CanTransfer(c.assets[tickIn], user, IF exactIn THEN amount ELSE q)
  PROVE  CanSwap(c, user, tickIn, tickOut, exactIn, amount, q, 0)
<1> DEFINE p == getPairStr(tickIn, tickOut)
           in  == ReserveOf(c, tickIn, p)
           out == ReserveOf(c, tickOut, p)
           amt == SwapAmounts(c, tickIn, tickOut, exactIn, amount)
<1>1. HasReserves(in, out) /\ (exactIn \/ amount < out)
  BY DEF CanQuoteSwap
<1>2. /\ in \in Nat \ {0} /\ out \in Nat \ {0}
      /\ amt.in \in Nat /\ amt.out \in Nat /\ amt.out < out
  BY <1>1, SwapAmountsFacts
<1>3. /\ q = IF exactIn THEN amt.out ELSE amt.in
      /\ exactIn => amt.in = amount
      /\ ~exactIn => amt.out = amount
  BY DEF quoteSwap, SwapAmounts
<1>4. out = c.assets[tickOut].balance[p]
  BY DEF ReserveOf
<1> HIDE DEF in, out, amt
<1>5. IF exactIn THEN amt.out >= (q * 1000) \div (1000 + 0)
                 ELSE amt.in <= (q * (1000 + 0)) \div 1000
  <2>1. q \in Nat
    BY <1>2, <1>3
  <2>2. (q * 1000) \div (1000 + 0) = q /\ (q * (1000 + 0)) \div 1000 = q
    BY <2>1, NoSlippage
  <2> QED BY <1>2, <1>3, <2>1, <2>2
<1>6. CanTransfer(c.assets[tickIn], user, amt.in)
  BY <1>3
<1>7. CanTransfer(c.assets[tickOut], p, amt.out)
  <2>1. amt.out > 0
    BY <1>3
  <2> HIDE DEF p
  <2> QED BY <1>2, <1>4, <2>1 DEF CanTransfer
<1> QED BY <1>1, <1>5, <1>6, <1>7 DEF CanSwap, CanGetAmountIn, in, out, amt

\* An addition that was quoted is accepted, when the client gave the amount of
\* the first tick or the computed amount was padded.
LEMMA QuotedAddition ==
  ASSUME NEW c, TokensSound(c), NEW p \in Pairs, PoolSound(c, p),
         NEW user \in Users, NEW amount \in Nat \ {0}, NEW i \in {1, 2},
         CanQuoteAddLiq(c, p, i, amount),
         NEW q, q = quoteAddLiq(c, p, i, amount),
         i = 1 \/ ~isProportional(amount, q.amount0),
         CanTransfer(c.assets[p[1]], user, q.amount0),
         CanTransfer(c.assets[p[2]], user, q.amount1)
  PROVE  CanAddLiq(c, user, p, q.amount0, q.amount1, q.lp, 0)
<1> DEFINE s1 == c.lps[p].supply + getFeeLp(c, p)
           r1 == Reserve(c, p, 1)
           r2 == Reserve(c, p, 2)
           other1 == (amount * r2) \div r1
           other2 == (amount * r1) \div r2
           lpOf1(m) == (m * s1) \div r1
           lpOf2(m) == (m * s1) \div r2
<1>1. c \in ContractState /\ c.lps[p].supply > 0 /\ q.lp > 0
  BY DEF TokensSound, CanQuoteAddLiq
<1>2. r1 \in Nat \ {0} /\ r2 \in Nat \ {0} /\ p \in c.pools
  BY <1>1, ReserveNat DEF PoolSound
<1>3. s1 \in Nat
  <2>1. getFeeLp(c, p) \in Nat /\ c.lps[p].supply \in Nat
    BY <1>1, FeeOfSound, ReserveNat
  <2> QED BY <2>1
<1>4. other1 \in Nat /\ other2 \in Nat
  BY <1>2, DivBounds, MulNat
<1>5. ASSUME NEW m \in Nat PROVE lpOf1(m) \in Nat /\ lpOf2(m) \in Nat
  <2> HIDE DEF s1, r1, r2
  <2> QED BY <1>2, <1>3, DivBounds, MulNat
<1>6. /\ c.assets[p[1]].balance[user] \in Nat /\ c.assets[p[1]].balance[user] >= q.amount0
      /\ c.assets[p[2]].balance[user] \in Nat /\ c.assets[p[2]].balance[user] >= q.amount1
      /\ q.amount0 > 0 /\ q.amount1 > 0
  <2>1. user \in Addrs /\ p[1] \in Ticks /\ p[2] \in Ticks
    BY PairTicks DEF Addrs
  <2> QED BY <1>1, <2>1, StateFields DEF CanTransfer, Brc20
<1>7. SUFFICES ASSUME NEW liq, liq = Liq(c, p, q.amount0, q.amount1)
               PROVE  /\ q.lp \in Nat /\ liq.lp \in Nat /\ liq.lp >= q.lp
                      /\ liq.amount0 \in Nat \ {0} /\ liq.amount0 <= q.amount0
                      /\ liq.amount1 \in Nat \ {0} /\ liq.amount1 <= q.amount1
                      /\ q.amount0 \in Nat /\ q.amount1 \in Nat
                      /\ liq.amount1 = q.amount1 \/ liq.amount0 = q.amount0
  <2> DEFINE liq == Liq(c, p, q.amount0, q.amount1)
  <2>1. /\ q.lp \in Nat /\ liq.lp \in Nat /\ liq.lp >= q.lp
        /\ liq.amount0 \in Nat \ {0} /\ liq.amount0 <= q.amount0
        /\ liq.amount1 \in Nat \ {0} /\ liq.amount1 <= q.amount1
        /\ q.amount0 \in Nat /\ q.amount1 \in Nat
        /\ liq.amount1 = q.amount1 \/ liq.amount0 = q.amount0
    BY <1>7
  <2> HIDE DEF liq
  <2>2. liq.lp > 0 /\ WithinSlippage(liq.lp, q.lp, 0)
    BY <1>1, <2>1, NoSlippage
  <2>3. CanTransfer(c.assets[p[1]], user, liq.amount0)
    BY <1>6, <2>1 DEF CanTransfer
  <2>4. CanTransfer(c.assets[p[2]], user, liq.amount1)
    BY <1>6, <2>1 DEF CanTransfer
  <2> QED BY <1>2, <1>6, <2>1, <2>2, <2>3, <2>4 DEF CanAddLiq, liq
<1>8. CASE i = 1
  <2> DEFINE padded == IF isProportional(amount, other1) THEN other1 ELSE other1 + 1
  <2>1. 3 - 1 = 2
    OBVIOUS
  <2>2. /\ q.amount0 = amount /\ q.amount1 = padded
        /\ q.lp = IF lpOf1(amount) < lpOf2(other1) THEN lpOf1(amount) ELSE lpOf2(other1)
    BY <1>8, <2>1 DEF quoteAddLiq
  <2>3. other1 > 0
    BY <1>8, <2>1 DEF CanQuoteAddLiq
  <2>4. padded \in Nat /\ other1 <= padded
    BY <1>4
  <2> HIDE DEF padded
  <2>5. /\ liq.amount0 = amount /\ liq.amount1 = other1 /\ liq.lp \in Nat
        /\ liq.lp = lpOf1(amount) \/ liq.lp = lpOf2(other1)
    <3>1. liq = Liq(c, p, amount, padded)
      BY <1>7, <2>2
    <3> QED BY <1>1, <2>4, <3>1, NextLiqFacts
  <2> HIDE DEF lpOf1, lpOf2, other1
  <2>6. lpOf1(amount) \in Nat /\ lpOf2(other1) \in Nat
    BY <1>4, <1>5
  <2> QED BY <1>4, <2>2, <2>3, <2>4, <2>5, <2>6
<1>9. CASE i = 2
  <2> DEFINE padded == IF isProportional(amount, other2) THEN other2 ELSE other2 + 1
             w == (padded * r2) \div r1
  <2>1. 3 - 2 = 1
    OBVIOUS
  <2>2. /\ q.amount0 = padded /\ q.amount1 = amount
        /\ q.lp = IF lpOf1(other2) < lpOf2(amount) THEN lpOf1(other2) ELSE lpOf2(amount)
    BY <1>9, <2>1 DEF quoteAddLiq
  <2>3. other2 > 0
    BY <1>9, <2>1 DEF CanQuoteAddLiq
  <2>4. padded = other2 + 1
    BY <1>9, <2>2
  <2>5. padded \in Nat
    BY <1>4, <2>4
  <2> HIDE DEF padded
  <2>6. amount <= w /\ w \in Nat
    <3>1. amount * r1 < (other2 + 1) * r2
      <4> HIDE DEF r1, r2
      <4> QED BY <1>2, MulNat, DivBounds
    <3>2. amount * r1 <= padded * r2
      <4> HIDE DEF other2, r1, r2
      <4>1. amount * r1 \in Nat /\ padded * r2 \in Nat
        BY <1>2, <2>5, MulNat
      <4> QED BY <2>4, <3>1, <4>1
    <3> HIDE DEF r1, r2
    <3> QED BY <1>2, <2>5, <3>2, MulNat, DivMax, DivBounds
  <2>7. /\ liq.amount0 = IF w <= amount THEN padded ELSE other2
        /\ liq.amount1 = IF w <= amount THEN w ELSE amount
        /\ liq.lp \in Nat
        /\ liq.lp = lpOf1(liq.amount0) \/ liq.lp = lpOf2(liq.amount1)
    <3>1. liq = Liq(c, p, padded, amount)
      BY <1>7, <2>2
    <3> QED BY <1>1, <2>5, <3>1, NextLiqFacts
  <2>8. lpOf1(other2) <= lpOf1(padded)
    <3> HIDE DEF s1, r1, r2, other2
    <3>1. other2 * s1 <= padded * s1 /\ other2 * s1 \in Nat /\ padded * s1 \in Nat
      BY <1>3, <1>4, <2>4, <2>5, MulMono, MulNat
    <3>2. lpOf1(other2) \in Nat /\ lpOf1(other2) * r1 <= other2 * s1
      BY <1>2, <3>1, DivBounds
    <3>3. lpOf1(other2) * r1 \in Nat
      BY <1>2, <3>2, MulNat
    <3>4. lpOf1(other2) * r1 <= padded * s1
      BY <3>1, <3>2, <3>3
    <3> QED BY <1>2, <3>1, <3>2, <3>4, DivMax
  <2>9. lpOf1(other2) \in Nat /\ lpOf2(amount) \in Nat /\ lpOf1(padded) \in Nat
    BY <1>4, <1>5, <2>5
  <2> HIDE DEF lpOf1, lpOf2, other2, w
  <2>10. CASE w <= amount
    <3>1. w = amount
      BY <2>6, <2>10
    <3> QED BY <1>4, <2>2, <2>4, <2>5, <2>7, <2>8, <2>9, <2>10, <3>1
  <2>11. CASE ~(w <= amount)
    BY <1>4, <2>2, <2>3, <2>4, <2>5, <2>7, <2>9, <2>11
  <2> QED BY <2>10, <2>11
<1> QED BY <1>8, <1>9

\* What operator.ts quotes is what the contract accepts in the same state with
\* no slippage at all, for every pool, user and amount: the quotes repeat the
\* contract's roundings and count the LP that will be minted to the protocol.
THEOREM QuotesAreHonoured == Spec => []QuoteHonoured
<1>1. ASSUME PoolInv PROVE QuoteHonoured
  <2> SUFFICES ASSUME NEW p \in Pairs, NEW user \in Users, NEW amount \in Amounts
               PROVE
      /\ \A i \in {1, 2} : CanQuoteAddLiq(contract, p, i, amount) =>
           LET q == quoteAddLiq(contract, p, i, amount)
           IN  /\ i = 1 \/ ~isProportional(amount, q.amount0)
               /\ CanTransfer(contract.assets[p[1]], user, q.amount0)
               /\ CanTransfer(contract.assets[p[2]], user, q.amount1)
               => CanAddLiq(contract, user, p, q.amount0, q.amount1, q.lp, 0)
      /\ HasLiquidity(p) /\ CanBurn(contract.lps[p], user, amount) =>
           LET q == quoteRemoveLiq(contract, p, amount)
           IN  q[1] > 0 /\ q[2] > 0 =>
                 CanRemoveLiq(contract, user, p, amount, q[1], q[2], 0)
      /\ \A i \in {1, 2}, exactIn \in BOOLEAN :
           CanQuoteSwap(contract, p[i], p[3 - i], exactIn, amount) =>
           LET q == quoteSwap(contract, p[i], p[3 - i], exactIn, amount)
           IN  /\ q > 0
               /\ CanTransfer(contract.assets[p[i]], user, IF exactIn THEN amount ELSE q)
               => CanSwap(contract, user, p[i], p[3 - i], exactIn, amount, q, 0)
    BY DEF QuoteHonoured
  <2>1. TokensSound(contract) /\ PoolSound(contract, p) /\ contract \in ContractState
    BY <1>1 DEF PoolInv, TokensSound
  <2>2. amount \in Nat \ {0} /\ amount \in Nat
    BY InputsAssumption
  <2>3. ASSUME NEW i \in {1, 2}, CanQuoteAddLiq(contract, p, i, amount),
               NEW q, q = quoteAddLiq(contract, p, i, amount),
               i = 1 \/ ~isProportional(amount, q.amount0),
               CanTransfer(contract.assets[p[1]], user, q.amount0),
               CanTransfer(contract.assets[p[2]], user, q.amount1)
        PROVE  CanAddLiq(contract, user, p, q.amount0, q.amount1, q.lp, 0)
    BY <2>1, <2>2, <2>3, QuotedAddition
  <2>4. ASSUME HasLiquidity(p), CanBurn(contract.lps[p], user, amount),
               NEW q, q = quoteRemoveLiq(contract, p, amount), q[1] > 0, q[2] > 0
        PROVE  CanRemoveLiq(contract, user, p, amount, q[1], q[2], 0)
    BY <2>1, <2>2, <2>4, QuotedRemoval DEF HasLiquidity
  <2>5. ASSUME NEW i \in {1, 2}, NEW exactIn \in BOOLEAN,
               CanQuoteSwap(contract, p[i], p[3 - i], exactIn, amount),
               NEW q, q = quoteSwap(contract, p[i], p[3 - i], exactIn, amount), q > 0,
               CanTransfer(contract.assets[p[i]], user, IF exactIn THEN amount ELSE q)
        PROVE  CanSwap(contract, user, p[i], p[3 - i], exactIn, amount, q, 0)
    <3>1. p[i] \in Ticks /\ p[3 - i] \in Ticks /\ p[i] # p[3 - i]
      <4>1. (i = 1 /\ 3 - i = 2) \/ (i = 2 /\ 3 - i = 1)
        OBVIOUS
      <4> QED BY <4>1, PairTicks
    <3> QED BY <2>1, <2>2, <2>5, <3>1, QuotedSwap
  <2> QED BY <2>3, <2>4, <2>5
<1> QED BY <1>1, PoolAlwaysSound, PTL
=============================================================================
