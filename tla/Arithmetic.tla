----------------------------- MODULE Arithmetic -----------------------------
(***************************************************************************)
(* What the proofs about balances and pools need to know about numbers:    *)
(* the least-number principle, sums over a finite set (SumFunctionOnSet of *)
(* module Functions), products, quotients and roots.                       *)
(*                                                                         *)
(* The induction theorems of the libraries take the induction hypothesis   *)
(* as an operator, which the provers cannot instantiate.  The inductions   *)
(* here go through a minimal element of a set of counterexamples instead:  *)
(* strict inclusion is well-founded on the finite sets.                    *)
(***************************************************************************)
EXTENDS Integers, FiniteSets, Functions, FiniteSetTheorems,
        WellFoundedInduction, TLAPS

\* A nonempty set of subsets of a finite set has a minimal member.
LEMMA MinimalSubset ==
  ASSUME NEW S, IsFiniteSet(S), NEW Bad, Bad \subseteq SUBSET S, Bad # {}
  PROVE  \E T \in Bad : \A U \in Bad : U \subseteq T => U = T
<1>1. IsWellFoundedOn(StrictSubsetOrdering(S), SUBSET S)
  BY FS_StrictSubsetOrderingWellFounded, FS_FiniteSubsetsOfFinite
<1>2. PICK T \in Bad : \A U \in Bad : ~(<<U, T>> \in StrictSubsetOrdering(S))
  BY <1>1, WFMin
<1>3. \A U \in Bad : U \subseteq T => U = T
  <2> TAKE U \in Bad
  <2>1. <<U, T>> \notin StrictSubsetOrdering(S)
    BY <1>2
  <2>2. <<U, T>> \in (SUBSET S) \X (SUBSET S)
    BY <1>2
  <2> QED BY <2>1, <2>2 DEF StrictSubsetOrdering
<1> QED BY <1>2, <1>3

\* A nonempty set of natural numbers has a least member.
LEMMA LeastNatural ==
  ASSUME NEW T, T \subseteq Nat, T # {}
  PROVE  \E n \in T : \A m \in T : n <= m
<1>1. PICK k \in T : TRUE
  OBVIOUS
<1> DEFINE Bad == {1..m : m \in {j \in T : j <= k}}
<1>2. IsFiniteSet(1..k)
  BY <1>1, FS_Interval
<1>3. Bad \subseteq SUBSET (1..k)
  BY <1>1
<1>4. (1..k) \in Bad
  BY <1>1
<1>5. PICK I \in Bad : \A J \in Bad : J \subseteq I => J = I
  <2> DEFINE K == 1..k
  <2>1. Bad # {} /\ Bad \subseteq SUBSET K /\ IsFiniteSet(K)
    BY <1>2, <1>3, <1>4
  <2> HIDE DEF Bad, K
  <2> QED BY <2>1, MinimalSubset
<1>6. PICK n \in T : n <= k /\ I = 1..n
  BY <1>5
<1>7. ASSUME NEW m \in T, m < n PROVE FALSE
  <2>1. (1..m) \in Bad
    BY <1>1, <1>6, <1>7
  <2>2. (1..m) \subseteq (1..n)
    BY <1>6, <1>7
  <2>3. 1..m = 1..n
    BY <2>1, <2>2, <1>5, <1>6
  <2>4. n \in 1..n /\ n \notin 1..m
    BY <1>6, <1>7
  <2> QED BY <2>3, <2>4
<1> QED BY <1>6, <1>7

\* What holds of 0 and passes from a number to the next holds up to any bound.
LEMMA UpTo ==
  ASSUME NEW n \in Nat, NEW T, 0 \in T, \A j \in 1..n : j - 1 \in T => j \in T
  PROVE  0..n \subseteq T /\ n \in T
<1> DEFINE Bad == (0..n) \ T
<1>1. SUFFICES ASSUME Bad # {} PROVE FALSE  OBVIOUS
<1>2. Bad \subseteq Nat  OBVIOUS
<1>3. PICK j \in Bad : \A i \in Bad : j <= i
  <2> HIDE DEF Bad
  <2> QED BY <1>1, <1>2, LeastNatural
<1>4. j \in 1..n /\ j - 1 \in 0..n  BY <1>3
<1>5. j - 1 \notin Bad  BY <1>3, <1>4
<1> QED BY <1>3, <1>4, <1>5

-----------------------------------------------------------------------------
\* The member of a set that a sum adds next.
Next1(s) == CHOOSE x \in s : TRUE

\* it is the recursive function by which Folds defines the sum of f over T.
SumsUp(it, f, T) ==
  it = [s \in SUBSET T |-> IF s = {} THEN 0
                           ELSE f[Next1(s)] + it[s \ {Next1(s)}]]

\* The element the fold takes next is one of the set.
LEMMA NextIsMember ==
  ASSUME NEW s, s # {}
  PROVE  Next1(s) \in s
BY DEF Next1

\* The sum is the value of a function chosen among those that sum up.
LEMMA SumIsChosen ==
  ASSUME NEW f, NEW T
  PROVE  SumFunctionOnSet(f, T) = (CHOOSE it : SumsUp(it, f, T))[T]
BY DEF SumFunctionOnSet, FoldFunctionOnSet, MapThenFoldSet, SumsUp, Next1

\* A function that sums up does so one element at a time.
LEMMA SumsUpStep ==
  ASSUME NEW f, NEW T, NEW it, SumsUp(it, f, T), NEW s \in SUBSET T
  PROVE  it[s] = IF s = {} THEN 0 ELSE f[Next1(s)] + it[s \ {Next1(s)}]
BY DEF SumsUp

\* Two functions that sum up over the same finite set are equal.
LEMMA SumsUpUnique ==
  ASSUME NEW f, NEW T, IsFiniteSet(T), NEW i, NEW j,
         SumsUp(i, f, T), SumsUp(j, f, T)
  PROVE  i[T] = j[T]
<1> DEFINE Bad == {s \in SUBSET T : i[s] # j[s]}
<1>1. SUFFICES ASSUME Bad # {} PROVE FALSE
  OBVIOUS
<1>2. PICK s \in Bad : \A U \in Bad : U \subseteq s => U = s
  <2>1. Bad \subseteq SUBSET T
    OBVIOUS
  <2> HIDE DEF Bad
  <2> QED BY <1>1, <2>1, MinimalSubset
<1>3. s # {}
  BY <1>2, SumsUpStep
<1> DEFINE r == s \ {Next1(s)}
<1>4. r \in SUBSET T /\ r # s /\ r \subseteq s
  BY <1>2, <1>3, NextIsMember
<1>5. i[r] = j[r]
  BY <1>2, <1>4
<1>6. i[s] = f[Next1(s)] + i[r] /\ j[s] = f[Next1(s)] + j[r]
  <2>1. s \in SUBSET T
    BY <1>2
  <2>2. i[s] = f[Next1(s)] + i[r]
    BY <1>3, <2>1, SumsUpStep
  <2>3. j[s] = f[Next1(s)] + j[r]
    BY <1>3, <2>1, SumsUpStep
  <2> QED BY <2>2, <2>3
<1> QED BY <1>2, <1>5, <1>6

\* A function that sums up over T does so over a part of it.
LEMMA SumsUpRestrict ==
  ASSUME NEW f, NEW T, NEW U \in SUBSET T, NEW i, SumsUp(i, f, T)
  PROVE  SumsUp([s \in SUBSET U |-> i[s]], f, U)
<1> DEFINE k == [s \in SUBSET U |-> i[s]]
<1>1. \A s \in SUBSET U : s # {} => k[s \ {Next1(s)}] = i[s \ {Next1(s)}]
  OBVIOUS
<1>2. \A s \in SUBSET U : i[s] = IF s = {} THEN 0 ELSE f[Next1(s)] + i[s \ {Next1(s)}]
  BY SumsUpStep
<1>3. k = [s \in SUBSET U |-> IF s = {} THEN 0 ELSE f[Next1(s)] + k[s \ {Next1(s)}]]
  BY <1>1, <1>2
<1> QED BY <1>3 DEF SumsUp

\* When some function sums up over T, its value at T is the sum.
LEMMA SumIsValue ==
  ASSUME NEW f, NEW T, IsFiniteSet(T), NEW i, SumsUp(i, f, T)
  PROVE  SumFunctionOnSet(f, T) = i[T]
<1> DEFINE j == CHOOSE it : SumsUp(it, f, T)
<1>1. SumsUp(j, f, T)
  OBVIOUS
<1>2. i[T] = j[T]
  <2> HIDE DEF j
  <2> QED BY <1>1, SumsUpUnique
<1> QED BY <1>2, SumIsChosen

\* Over a finite set some function sums up.
LEMMA SumsUpExists ==
  ASSUME NEW f, NEW S, IsFiniteSet(S)
  PROVE  \E it : SumsUp(it, f, S)
<1> DEFINE Bad == {T \in SUBSET S : ~\E it : SumsUp(it, f, T)}
<1>1. SUFFICES ASSUME Bad # {} PROVE FALSE
  OBVIOUS
<1>2. PICK T \in Bad : \A U \in Bad : U \subseteq T => U = T
  <2>1. Bad \subseteq SUBSET S
    OBVIOUS
  <2> HIDE DEF Bad
  <2> QED BY <1>1, <2>1, MinimalSubset
<1>3. \A U \in SUBSET T : U # T => IsFiniteSet(U) /\ \E it : SumsUp(it, f, U)
  BY <1>2, FS_Subset
<1> DEFINE g(s) == IF s = {} THEN 0
                   ELSE f[Next1(s)] + SumFunctionOnSet(f, s \ {Next1(s)})
           it == [s \in SUBSET T |-> g(s)]
<1>4. ASSUME NEW U \in SUBSET T, U # T PROVE SumFunctionOnSet(f, U) = g(U)
  <2>1. PICK i : SumsUp(i, f, U)
    BY <1>3, <1>4
  <2>2. SumFunctionOnSet(f, U) = i[U]
    BY <1>3, <1>4, <2>1, SumIsValue
  <2>3. CASE U = {}
    BY <2>1, <2>2, <2>3, SumsUpStep
  <2>4. CASE U # {}
    <3> DEFINE r == U \ {Next1(U)}
               k == [s \in SUBSET r |-> i[s]]
    <3>1. r \in SUBSET U
      OBVIOUS
    <3>2. SumsUp(k, f, r)
      BY <2>1, <3>1, SumsUpRestrict
    <3>3. r \in SUBSET T /\ r # T
      BY <1>4
    <3>4. IsFiniteSet(r)
      BY <1>3, <3>3
    <3>5. SumFunctionOnSet(f, r) = k[r]
      <4> HIDE DEF r, k
      <4> QED BY <3>2, <3>4, SumIsValue
    <3>6. k[r] = i[r]
      OBVIOUS
    <3>7. i[U] = f[Next1(U)] + i[r]
      BY <2>1, <2>4, SumsUpStep
    <3> QED BY <2>2, <2>4, <3>5, <3>6, <3>7
  <2> QED BY <2>3, <2>4
<1>5. \A s \in SUBSET T : s # {} =>
        /\ s \ {Next1(s)} \in SUBSET T
        /\ s \ {Next1(s)} # T
  BY NextIsMember
<1>6. \A s \in SUBSET T : s # {} =>
        it[s \ {Next1(s)}] = SumFunctionOnSet(f, s \ {Next1(s)})
  BY <1>4, <1>5
<1>7. it = [s \in SUBSET T |-> IF s = {} THEN 0 ELSE f[Next1(s)] + it[s \ {Next1(s)}]]
  BY <1>6
<1>8. SumsUp(it, f, T)
  <2> HIDE DEF it
  <2> QED BY <1>7 DEF SumsUp
<1> QED BY <1>2, <1>8

\* The recursion equation of the sum.
LEMMA SumStep ==
  ASSUME NEW f, NEW T, IsFiniteSet(T)
  PROVE  SumFunctionOnSet(f, T) =
           IF T = {} THEN 0
           ELSE f[Next1(T)] + SumFunctionOnSet(f, T \ {Next1(T)})
<1>1. PICK i : SumsUp(i, f, T)
  BY SumsUpExists
<1>2. SumFunctionOnSet(f, T) = i[T]
  BY <1>1, SumIsValue
<1>3. CASE T = {}
  BY <1>1, <1>2, <1>3, SumsUpStep
<1>4. CASE T # {}
  <2> DEFINE r == T \ {Next1(T)}
             k == [s \in SUBSET r |-> i[s]]
  <2>1. SumsUp(k, f, r)
    BY <1>1, SumsUpRestrict
  <2>2. IsFiniteSet(r)
    BY FS_Subset
  <2>3. SumFunctionOnSet(f, r) = k[r]
    <3> HIDE DEF r, k
    <3> QED BY <2>1, <2>2, SumIsValue
  <2>4. i[T] = f[Next1(T)] + i[r]
    BY <1>1, <1>4, SumsUpStep
  <2> QED BY <1>2, <1>4, <2>3, <2>4
<1> QED BY <1>3, <1>4

-----------------------------------------------------------------------------
\* The sum over no members.
LEMMA SumEmpty ==
  ASSUME NEW f
  PROVE  SumFunctionOnSet(f, {}) = 0
BY SumStep, FS_EmptySet

\* A sum of integers is one.
LEMMA SumInt ==
  ASSUME NEW f, NEW S, IsFiniteSet(S), \A x \in S : f[x] \in Int
  PROVE  SumFunctionOnSet(f, S) \in Int
<1> DEFINE Bad == {s \in SUBSET S : SumFunctionOnSet(f, s) \notin Int}
<1>1. SUFFICES ASSUME Bad # {} PROVE FALSE
  OBVIOUS
<1>2. PICK s \in Bad : \A U \in Bad : U \subseteq s => U = s
  <2>1. Bad \subseteq SUBSET S
    OBVIOUS
  <2> HIDE DEF Bad
  <2> QED BY <1>1, <2>1, MinimalSubset
<1>3. s \in SUBSET S /\ IsFiniteSet(s)
  BY <1>2, FS_Subset
<1>4. s # {}
  <2>1. SumFunctionOnSet(f, s) \notin Int
    BY <1>2
  <2>2. SumFunctionOnSet(f, {}) \in Int
    BY SumEmpty
  <2> QED BY <2>1, <2>2
<1> DEFINE r == s \ {Next1(s)}
<1>5. r \in SUBSET S /\ r \subseteq s /\ r # s /\ Next1(s) \in S
  BY <1>3, <1>4, NextIsMember
<1>6. SumFunctionOnSet(f, r) \in Int
  BY <1>2, <1>5
<1>7. SumFunctionOnSet(f, s) = f[Next1(s)] + SumFunctionOnSet(f, r)
  BY <1>3, <1>4, SumStep
<1> QED BY <1>2, <1>5, <1>6, <1>7

\* Any member may be added first.
LEMMA SumRemove ==
  ASSUME NEW f, NEW S, IsFiniteSet(S), \A x \in S : f[x] \in Int, NEW y \in S
  PROVE  SumFunctionOnSet(f, S) = f[y] + SumFunctionOnSet(f, S \ {y})
<1> DEFINE Sm(s) == SumFunctionOnSet(f, s)
           Bad == {s \in SUBSET S : \E z \in s : Sm(s) # f[z] + Sm(s \ {z})}
<1>1. SUFFICES ASSUME Bad # {} PROVE FALSE
  OBVIOUS
<1>2. PICK s \in Bad : \A U \in Bad : U \subseteq s => U = s
  <2>1. Bad \subseteq SUBSET S
    OBVIOUS
  <2> HIDE DEF Bad
  <2> QED BY <1>1, <2>1, MinimalSubset
<1>3. PICK z \in s : Sm(s) # f[z] + Sm(s \ {z})
  BY <1>2
<1>4. s \in SUBSET S
  BY <1>2
<1>5. \A U \in SUBSET S : /\ IsFiniteSet(U)
                          /\ Sm(U) \in Int
  BY FS_Subset, SumInt
<1>6. \A U \in SUBSET s : U # s => \A w \in U : Sm(U) = f[w] + Sm(U \ {w})
  BY <1>2, <1>4
<1> DEFINE x == Next1(s)
<1>7. x \in s /\ Sm(s) = f[x] + Sm(s \ {x})
  BY <1>4, <1>5, NextIsMember, SumStep
<1> HIDE DEF x, Bad, Sm
<1>8. x # z
  BY <1>3, <1>7
<1>9. Sm(s \ {x}) = f[z] + Sm((s \ {x}) \ {z})
  <2>1. (s \ {x}) \in SUBSET s /\ (s \ {x}) # s /\ z \in (s \ {x})
    BY <1>3, <1>7, <1>8
  <2> QED BY <2>1, <1>6
<1>10. Sm(s \ {z}) = f[x] + Sm((s \ {z}) \ {x})
  <2>1. (s \ {z}) \in SUBSET s /\ (s \ {z}) # s /\ x \in (s \ {z})
    BY <1>3, <1>7, <1>8
  <2> QED BY <2>1, <1>6
<1> DEFINE a == Sm((s \ {x}) \ {z})
<1>11. Sm(s \ {z}) = f[x] + a
  <2>1. (s \ {x}) \ {z} = (s \ {z}) \ {x}
    OBVIOUS
  <2> QED BY <1>10, <2>1
<1>12. a \in Int /\ f[x] \in Int /\ f[z] \in Int
  BY <1>3, <1>4, <1>5, <1>7
<1>13. Sm(s) = f[x] + (f[z] + a)
  BY <1>7, <1>9
<1> HIDE DEF a
<1>14. f[x] + (f[z] + a) = f[z] + (f[x] + a)
  BY <1>12
<1> QED BY <1>3, <1>11, <1>13, <1>14

\* Functions that agree on the set have the same sum.
LEMMA SumAgrees ==
  ASSUME NEW f, NEW g, NEW S, IsFiniteSet(S), \A x \in S : f[x] = g[x]
  PROVE  SumFunctionOnSet(f, S) = SumFunctionOnSet(g, S)
<1> DEFINE Bad == {s \in SUBSET S : SumFunctionOnSet(f, s) # SumFunctionOnSet(g, s)}
<1>1. SUFFICES ASSUME Bad # {} PROVE FALSE
  OBVIOUS
<1>2. PICK s \in Bad : \A U \in Bad : U \subseteq s => U = s
  <2>1. Bad \subseteq SUBSET S
    OBVIOUS
  <2> HIDE DEF Bad
  <2> QED BY <1>1, <2>1, MinimalSubset
<1>3. s \in SUBSET S /\ IsFiniteSet(s)
  BY <1>2, FS_Subset
<1>4. s # {}
  BY <1>2, SumEmpty
<1> DEFINE r == s \ {Next1(s)}
<1>5. r \in SUBSET S /\ r \subseteq s /\ r # s /\ Next1(s) \in S
  BY <1>3, <1>4, NextIsMember
<1>6. SumFunctionOnSet(f, r) = SumFunctionOnSet(g, r)
  BY <1>2, <1>5
<1>7. /\ SumFunctionOnSet(f, s) = f[Next1(s)] + SumFunctionOnSet(f, r)
      /\ SumFunctionOnSet(g, s) = g[Next1(s)] + SumFunctionOnSet(g, r)
  BY <1>3, <1>4, SumStep
<1> QED BY <1>2, <1>5, <1>6, <1>7

\* A sum of natural numbers is one.
LEMMA SumNat ==
  ASSUME NEW f, NEW S, IsFiniteSet(S), \A x \in S : f[x] \in Nat
  PROVE  SumFunctionOnSet(f, S) \in Nat
<1> DEFINE Bad == {s \in SUBSET S : SumFunctionOnSet(f, s) \notin Nat}
<1>1. SUFFICES ASSUME Bad # {} PROVE FALSE
  OBVIOUS
<1>2. PICK s \in Bad : \A U \in Bad : U \subseteq s => U = s
  <2>1. Bad \subseteq SUBSET S
    OBVIOUS
  <2> HIDE DEF Bad
  <2> QED BY <1>1, <2>1, MinimalSubset
<1>3. s \in SUBSET S /\ IsFiniteSet(s)
  BY <1>2, FS_Subset
<1>4. s # {}
  <2>1. SumFunctionOnSet(f, s) \notin Nat
    BY <1>2
  <2>2. SumFunctionOnSet(f, {}) \in Nat
    BY SumEmpty
  <2> QED BY <2>1, <2>2
<1> DEFINE r == s \ {Next1(s)}
<1>5. r \in SUBSET S /\ r \subseteq s /\ r # s /\ Next1(s) \in S
  BY <1>3, <1>4, NextIsMember
<1>6. SumFunctionOnSet(f, r) \in Nat
  BY <1>2, <1>5
<1>7. SumFunctionOnSet(f, s) = f[Next1(s)] + SumFunctionOnSet(f, r)
  BY <1>3, <1>4, SumStep
<1> QED BY <1>2, <1>5, <1>6, <1>7

\* Adding v to the value of one member adds v to the sum.
LEMMA SumAdd ==
  ASSUME NEW S, IsFiniteSet(S), NEW f \in [S -> Int], NEW y \in S, NEW v \in Int
  PROVE  SumFunctionOnSet([f EXCEPT ![y] = @ + v], S) = SumFunctionOnSet(f, S) + v
<1> DEFINE g == [f EXCEPT ![y] = @ + v]
<1>1. \A x \in S : f[x] \in Int /\ g[x] \in Int
  OBVIOUS
<1>2. IsFiniteSet(S \ {y}) /\ \A x \in S \ {y} : f[x] = g[x]
  BY FS_Subset
<1>3. SumFunctionOnSet(g, S \ {y}) = SumFunctionOnSet(f, S \ {y})
  <2> HIDE DEF g
  <2> QED BY <1>2, SumAgrees
<1>4. SumFunctionOnSet(g, S) = g[y] + SumFunctionOnSet(g, S \ {y})
  <2> HIDE DEF g
  <2> QED BY <1>1, SumRemove
<1>5. SumFunctionOnSet(f, S) = f[y] + SumFunctionOnSet(f, S \ {y})
  BY <1>1, SumRemove
<1>6. SumFunctionOnSet(f, S \ {y}) \in Int
  BY <1>1, <1>2, SumInt
<1>7. g[y] = f[y] + v
  OBVIOUS
<1> HIDE DEF g
<1>8. SumFunctionOnSet(g, S) = SumFunctionOnSet(f, S) + v
  BY <1>1, <1>3, <1>4, <1>5, <1>6, <1>7
<1> QED BY <1>8 DEF g

\* g is f but for d more at y.
Adds(S, f, g, y, d) ==
  /\ IsFiniteSet(S) /\ y \in S /\ d \in Int
  /\ \A x \in S : f[x] \in Int /\ g[x] = f[x] + (IF x = y THEN d ELSE 0)

\* Its sum is d more.
LEMMA SumAdds ==
  ASSUME NEW S, NEW f, NEW g, NEW y, NEW d, Adds(S, f, g, y, d)
  PROVE  /\ SumFunctionOnSet(f, S) \in Int
         /\ SumFunctionOnSet(g, S) = SumFunctionOnSet(f, S) + d
<1> DEFINE f0 == [x \in S |-> f[x]]
           f1 == [f0 EXCEPT ![y] = @ + d]
<1>0. /\ IsFiniteSet(S) /\ y \in S /\ d \in Int
      /\ \A x \in S : f[x] \in Int /\ g[x] = f[x] + (IF x = y THEN d ELSE 0)
  BY DEF Adds
<1>1. f0 \in [S -> Int]
  BY <1>0
<1>2. SumFunctionOnSet(f1, S) = SumFunctionOnSet(f0, S) + d
  <2> HIDE DEF f0
  <2> QED BY <1>0, <1>1, SumAdd
<1>3. SumFunctionOnSet(f0, S) = SumFunctionOnSet(f, S)
  <2>1. \A x \in S : f0[x] = f[x]
    OBVIOUS
  <2> HIDE DEF f0
  <2> QED BY <1>0, <2>1, SumAgrees
<1>4. SumFunctionOnSet(f1, S) = SumFunctionOnSet(g, S)
  <2>1. \A x \in S : f1[x] = g[x]
    BY <1>0
  <2> HIDE DEF f1
  <2> QED BY <1>0, <2>1, SumAgrees
<1>5. SumFunctionOnSet(f, S) \in Int
  BY <1>0, SumInt
<1> HIDE DEF f0, f1
<1> QED BY <1>2, <1>3, <1>4, <1>5

\* g is f but for d more at y and e more at z, which may be the same member.
Shifts(S, f, g, y, d, z, e) ==
  /\ IsFiniteSet(S) /\ y \in S /\ d \in Int /\ z \in S /\ e \in Int
  /\ \A x \in S : /\ f[x] \in Int
                   /\ g[x] = f[x] + (IF x = y THEN d ELSE 0) + (IF x = z THEN e ELSE 0)

\* Its sum is d and e more.
LEMMA SumShifts ==
  ASSUME NEW S, NEW f, NEW g, NEW y, NEW d, NEW z, NEW e, Shifts(S, f, g, y, d, z, e)
  PROVE  /\ SumFunctionOnSet(f, S) \in Int
         /\ SumFunctionOnSet(g, S) = SumFunctionOnSet(f, S) + d + e
<1> DEFINE h == [x \in S |-> f[x] + (IF x = y THEN d ELSE 0)]
<1>1. d \in Int /\ e \in Int
  BY DEF Shifts
<1>2. Adds(S, f, h, y, d)
  BY DEF Shifts, Adds
<1>3. Adds(S, h, g, z, e)
  BY DEF Shifts, Adds
<1> HIDE DEF h
<1>4. SumFunctionOnSet(f, S) \in Int /\ SumFunctionOnSet(h, S) = SumFunctionOnSet(f, S) + d
  BY <1>2, SumAdds
<1>5. SumFunctionOnSet(g, S) = SumFunctionOnSet(h, S) + e
  BY <1>3, SumAdds
<1> QED BY <1>1, <1>4, <1>5

\* Two members together are no more than a sum of natural numbers.
LEMMA SumBounds ==
  ASSUME NEW S, IsFiniteSet(S), NEW f, \A x \in S : f[x] \in Nat,
         NEW y \in S, NEW z \in S
  PROVE  /\ f[y] <= SumFunctionOnSet(f, S)
         /\ y # z => f[y] + f[z] <= SumFunctionOnSet(f, S)
<1>1. SumFunctionOnSet(f, S) = f[y] + SumFunctionOnSet(f, S \ {y})
  BY SumRemove
<1>2. IsFiniteSet(S \ {y}) /\ IsFiniteSet((S \ {y}) \ {z})
  BY FS_Subset
<1>3. /\ SumFunctionOnSet(f, S \ {y}) \in Nat
      /\ SumFunctionOnSet(f, (S \ {y}) \ {z}) \in Nat
  BY <1>2, SumNat
<1>4. y # z => SumFunctionOnSet(f, S \ {y}) = f[z] + SumFunctionOnSet(f, (S \ {y}) \ {z})
  BY <1>2, SumRemove
<1> QED BY <1>1, <1>3, <1>4

\* Members whose value is zero may be left out.
LEMMA SumIgnoresZeros ==
  ASSUME NEW S, IsFiniteSet(S), NEW U \in SUBSET S,
         NEW f, \A x \in S : f[x] \in Int, \A x \in S \ U : f[x] = 0
  PROVE  SumFunctionOnSet(f, S) = SumFunctionOnSet(f, U)
<1> DEFINE Bad == {s \in SUBSET S : U \subseteq s /\ SumFunctionOnSet(f, s) # SumFunctionOnSet(f, U)}
<1>1. SUFFICES ASSUME Bad # {} PROVE FALSE
  OBVIOUS
<1>2. PICK s \in Bad : \A V \in Bad : V \subseteq s => V = s
  <2>1. Bad \subseteq SUBSET S
    OBVIOUS
  <2> HIDE DEF Bad
  <2> QED BY <1>1, <2>1, MinimalSubset
<1>3. s \in SUBSET S /\ IsFiniteSet(s) /\ U \subseteq s /\ U # s
  BY <1>2, FS_Subset
<1>4. PICK x \in s : x \notin U
  BY <1>3
<1>5. s \ {x} \in SUBSET S /\ s \ {x} \subseteq s /\ s \ {x} # s /\ U \subseteq s \ {x}
  BY <1>3, <1>4
<1>6. SumFunctionOnSet(f, s \ {x}) = SumFunctionOnSet(f, U)
  BY <1>2, <1>5
<1>7. SumFunctionOnSet(f, s) = f[x] + SumFunctionOnSet(f, s \ {x})
  BY <1>3, SumRemove
<1>8. SumFunctionOnSet(f, U) \in Int /\ f[x] = 0
  BY <1>3, <1>4, FS_Subset, SumInt
<1> QED BY <1>2, <1>6, <1>7, <1>8

\* A sum of zeros.
LEMMA SumZeros ==
  ASSUME NEW f, NEW S, IsFiniteSet(S), \A x \in S : f[x] = 0
  PROVE  SumFunctionOnSet(f, S) = 0
<1>1. SumFunctionOnSet(f, {}) = 0  BY SumEmpty
<1>2. (\A x \in S : f[x] \in Int) /\ {} \in SUBSET S /\ \A x \in S \ {} : f[x] = 0
  OBVIOUS
<1> QED BY <1>1, <1>2, SumIgnoresZeros

-----------------------------------------------------------------------------
(***************************************************************************)
(* Multiplication and division of natural numbers.                         *)
(***************************************************************************)
\* Multiplication is monotonic.
LEMMA MulMono ==
  ASSUME NEW a \in Nat, NEW b \in Nat, NEW c \in Nat, a <= b
  PROVE  a * c <= b * c
OBVIOUS

\* A positive factor cancels.
LEMMA MulCancel ==
  ASSUME NEW a \in Nat, NEW b \in Nat, NEW c \in Nat \ {0}, a * c <= b * c
  PROVE  a <= b
OBVIOUS

\* Products of natural numbers are natural numbers.
LEMMA MulNat ==
  ASSUME NEW a \in Nat, NEW b \in Nat
  PROVE  a * b \in Nat
OBVIOUS

\* Division rounds down.
LEMMA DivBounds ==
  ASSUME NEW a \in Nat, NEW b \in Nat \ {0}
  PROVE  /\ a \div b \in Nat
         /\ (a \div b) * b <= a
         /\ a < (a \div b + 1) * b
OBVIOUS

\* The quotient is the largest number whose product does not exceed.
LEMMA DivMax ==
  ASSUME NEW a \in Nat, NEW b \in Nat \ {0}, NEW q \in Nat
  PROVE  /\ q * b <= a => q <= a \div b
         /\ a < (q + 1) * b => a \div b <= q
OBVIOUS

\* Multiplication is monotonic in both factors.
LEMMA MulMono2 ==
  ASSUME NEW a \in Nat, NEW b \in Nat, NEW c \in Nat, NEW d \in Nat, a <= b, c <= d
  PROVE  a * c <= b * d
<1>1. a * c <= b * c
  BY MulMono
<1>2. b * c <= b * d
  BY MulMono
<1>3. a * c \in Nat /\ b * c \in Nat /\ b * d \in Nat
  BY MulNat
<1> QED BY <1>1, <1>2, <1>3

\* A swap at such a price does not lower the product of the reserves.
LEMMA ProductGrows ==
  ASSUME NEW in \in Nat, NEW out \in Nat, NEW a \in Nat, NEW o \in Nat,
         o <= out, o * in <= a * (out - o)
  PROVE  in * out <= (in + a) * (out - o)
<1>1. (in + a) * (out - o) = in * out - o * in + a * (out - o)
  OBVIOUS
<1>2. in * out \in Nat /\ o * in \in Nat /\ a * (out - o) \in Nat
  OBVIOUS
<1> QED BY <1>1, <1>2

\* Every natural number has a root, rounded down.
LEMMA RootExists ==
  ASSUME NEW n \in Nat
  PROVE  \E r \in 0..n : r * r <= n /\ n < (r + 1) * (r + 1)
<1> DEFINE T == {r \in Nat : n < (r + 1) * (r + 1)}
<1>1. n \in T
  <2>1. (n + 1) * (n + 1) = n * n + 2 * n + 1
    OBVIOUS
  <2>2. n * n \in Nat
    OBVIOUS
  <2> QED BY <2>1, <2>2
<1>2. PICK r \in T : \A m \in T : r <= m
  <2>1. T \subseteq Nat /\ T # {}
    BY <1>1
  <2> HIDE DEF T
  <2> QED BY <2>1, LeastNatural
<1>3. r \in Nat /\ r <= n /\ n < (r + 1) * (r + 1)
  BY <1>1, <1>2
<1>4. r * r <= n
  <2>1. CASE r = 0
    BY <2>1
  <2>2. CASE r > 0
    <3>1. r - 1 \in Nat /\ r - 1 \notin T
      BY <1>2, <1>3, <2>2
    <3>2. ~(n < ((r - 1) + 1) * ((r - 1) + 1))
      BY <3>1
    <3>3. (r - 1) + 1 = r
      BY <1>3
    <3>4. r * r \in Nat
      BY <1>3
    <3> QED BY <3>2, <3>3, <3>4
  <2> QED BY <1>3, <2>1, <2>2
<1> QED BY <1>3, <1>4

\* Roots grow with their squares.
LEMMA RootMono ==
  ASSUME NEW m \in Nat, NEW n \in Nat, m <= n, NEW r \in Nat, NEW s \in Nat,
         r * r <= m, n < (s + 1) * (s + 1)
  PROVE  r <= s
<1>1. ASSUME s + 1 <= r PROVE FALSE
  <2>1. (s + 1) * (s + 1) <= r * r
    BY <1>1, MulMono2
  <2>2. (s + 1) * (s + 1) \in Nat /\ r * r \in Nat
    OBVIOUS
  <2> QED BY <2>1, <2>2
<1> QED BY <1>1

\* The share of x LP in a reserve r, and that something is left with some LP.
LEMMA ShareFacts ==
  ASSUME NEW r \in Nat, NEW x \in Nat, NEW lp \in Nat, x <= lp, lp > 0 => r > 0
  PROVE  LET share == IF lp = 0 THEN 0 ELSE (r * x) \div lp
         IN  share \in Nat /\ share <= r /\ (lp - x > 0 => r - share > 0)
<1>1. CASE lp = 0  BY <1>1
<1>2. CASE lp # 0
  <2> DEFINE q == (r * x) \div lp
  <2>1. r * x \in Nat /\ lp \in Nat \ {0} /\ r > 0  BY <1>2, MulNat
  <2>2. q \in Nat /\ q * lp <= r * x  BY <2>1, DivBounds
  <2> HIDE DEF q
  <2>3. r * x <= r * lp
    <3>1. x * r <= lp * r  BY MulMono
    <3> QED BY <3>1
  <2>4. q * lp <= r * lp
    <3>1. q * lp \in Nat /\ r * lp \in Nat  BY <2>2, MulNat
    <3> QED BY <2>1, <2>2, <2>3, <3>1
  <2>5. q <= r  BY <2>1, <2>2, <2>4, MulCancel
  <2>6. ASSUME lp - x > 0 PROVE r - q > 0
    <3>1. SUFFICES ASSUME q = r PROVE FALSE
      BY <2>2, <2>5
    <3>2. r * lp <= r * x  BY <2>2, <3>1
    <3>3. lp * r <= x * r  BY <3>2
    <3>4. r \in Nat \ {0}  BY <2>1
    <3>5. lp <= x  BY <3>3, <3>4, MulCancel
    <3> QED BY <2>6, <3>5
  <2> QED BY <1>2, <2>2, <2>5, <2>6 DEF q
<1> QED BY <1>1, <1>2

(***************************************************************************)
(* The prices of a pool with constant product.  in and out are its         *)
(* reserves, g of 1000 is what is left of the input after the fee.         *)
(***************************************************************************)
OutFor(a, g, in, out) == ((a * g) * out) \div (in * 1000 + a * g)
InFor(o, g, in, out) == (in * o * 1000) \div ((out - o) * g) + 1

\* What a buyer of an exact input a gets: no more than the share of what is
\* left that the input is of the other reserve.
LEMMA PriceOut ==
  ASSUME NEW g \in 1..1000, NEW a \in Nat, NEW in \in Nat, NEW out \in Nat,
         in > 0 \/ a > 0
  PROVE  LET got == OutFor(a, g, in, out)
         IN  /\ got \in Nat /\ got <= out /\ got * in <= a * (out - got)
             /\ in > 0 /\ out > 0 => got < out
<1> DEFINE num == (a * g) * out
           den == in * 1000 + a * g
           got == num \div den
<1>1. a * g \in Nat /\ (a > 0 => a * g > 0)
  OBVIOUS
<1>2. num \in Nat /\ den \in Nat \ {0} /\ a * g <= den /\ (in > 0 => a * g < den)
  BY <1>1
<1>3. got \in Nat /\ got * den <= num
  <2> HIDE DEF num, den
  <2> QED BY <1>2, DivBounds
<1>4. got * den = (got * in) * 1000 + got * (a * g)
  <2> HIDE DEF got
  <2> QED BY <1>1, <1>3
<1>5. num = out * (a * g)
  BY <1>1
<1>6. num <= out * den
  <2>1. (a * g) * out <= den * out
    <3> HIDE DEF den
    <3> QED BY <1>1, <1>2, MulMono
  <2>2. den * out = out * den
    <3> HIDE DEF den
    <3> QED BY <1>2
  <2> QED BY <2>1, <2>2
<1> HIDE DEF got, num, den
<1>7. got <= out
  <2>1. got * den <= out * den
    <3>1. got * den \in Nat /\ out * den \in Nat
      BY <1>2, <1>3
    <3> QED BY <1>2, <1>3, <1>6, <3>1
  <2> QED BY <1>2, <1>3, <2>1, MulCancel
<1>8. ASSUME in > 0, out > 0 PROVE got < out
  <2>1. ASSUME got = out PROVE FALSE
    <3>1. out * in \in Nat \ {0}
      BY <1>8
    <3>2. out * (a * g) \in Nat
      BY <1>1
    <3> QED BY <1>3, <1>4, <1>5, <2>1, <3>1, <3>2
  <2> QED BY <1>3, <1>7, <2>1
<1> DEFINE X == got * in
           Y == a * (out - got)
<1>9. X \in Nat /\ Y \in Nat
  BY <1>3, <1>7
<1>10. out * (a * g) - got * (a * g) = Y * g
  BY <1>1, <1>3
<1>11. X * 1000 <= Y * g
  BY <1>1, <1>3, <1>4, <1>5, <1>9, <1>10
<1>12. X <= Y
  <2> HIDE DEF X, Y
  <2>1. Y * g <= Y * 1000
    BY <1>9, MulMono
  <2>2. Y * g \in Nat
    BY <1>9
  <2> QED BY <1>9, <1>11, <2>1, <2>2
<1> QED BY <1>3, <1>7, <1>8, <1>12 DEF OutFor, got, num, den

\* What a buyer of an exact output o pays: at least that share.
LEMMA PriceIn ==
  ASSUME NEW g \in 1..1000, NEW o \in Nat, NEW in \in Nat, NEW out \in Nat, o < out
  PROVE  LET paid == InFor(o, g, in, out)
         IN  paid \in Nat \ {0} /\ o * in <= paid * (out - o)
<1> DEFINE num == in * o * 1000
           den == (out - o) * g
           q == num \div den
<1>1. out - o \in Nat \ {0}
  OBVIOUS
<1>2. num \in Nat /\ den \in Nat \ {0}
  BY <1>1
<1>3. q \in Nat /\ num < (q + 1) * den
  <2> HIDE DEF num, den
  <2> QED BY <1>2, DivBounds
<1> HIDE DEF q
<1> DEFINE X == o * in
           Y == (q + 1) * (out - o)
<1>4. X \in Nat /\ Y \in Nat
  BY <1>1, <1>3
<1>5. num = X * 1000
  OBVIOUS
<1>6. (q + 1) * den = Y * g
  BY <1>1, <1>3
<1>7. X <= Y
  <2> HIDE DEF X, Y, num, den
  <2>1. Y * g <= Y * 1000
    BY <1>4, MulMono
  <2>2. Y * g \in Nat
    BY <1>4
  <2> QED BY <1>3, <1>4, <1>5, <1>6, <2>1, <2>2
<1> QED BY <1>3, <1>7 DEF InFor, q
=============================================================================
