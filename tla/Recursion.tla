------------------------------ MODULE Recursion ------------------------------
(***************************************************************************)
(* What the proofs need in the place of induction: sets of naturals have   *)
(* least elements, finite ones greatest ones, and a function that is       *)
(* defined by recursion over something that only goes down exists.         *)
(*                                                                         *)
(* Nothing here is about the code: the facts are stated of sets and of     *)
(* functions, so that every prover can instantiate them.                   *)
(***************************************************************************)
EXTENDS Naturals, FiniteSetsExt, TLAPS, FiniteSetTheorems, WellFoundedInduction

\* The intervals below the members of T are finite sets, and strict inclusion
\* of finite sets is well founded.
LEMMA Least ==
  ASSUME NEW T, T \subseteq Nat, T # {}
  PROVE  \E x \in T : \A y \in T : x <= y
<1> DEFINE below(x) == 0 .. x - 1
           B == {below(x) : x \in T}
<1>1. IsWellFoundedOn(StrictSubsetOrdering(Nat), FiniteSubsetsOf(Nat))
  BY FS_StrictSubsetOrderingWellFounded
<1>2. B \subseteq FiniteSubsetsOf(Nat)
  <2>1. \A x \in Nat : IsFiniteSet(below(x))
    BY FS_Interval
  <2> QED BY <2>1 DEF FiniteSubsetsOf
<1>3. B # {}
  OBVIOUS
<1>4. PICK b \in B : \A c \in B : <<c, b>> \notin StrictSubsetOrdering(Nat)
  BY <1>1, <1>2, <1>3, WFMin
<1>5. PICK x \in T : b = below(x)
  BY <1>4
<1>6. ASSUME NEW y \in T, y < x PROVE FALSE
  <2>1. below(y) \subseteq below(x) /\ y \in below(x) /\ y \notin below(y)
    BY <1>6
  <2>2. <<below(y), below(x)>> \in StrictSubsetOrdering(Nat)
    BY <2>1 DEF StrictSubsetOrdering
  <2> QED BY <1>4, <1>5, <2>2
<1>7. \A y \in T : ~(y < x) => x <= y
  OBVIOUS
<1> QED BY <1>5, <1>6, <1>7

LEMMA Greatest ==
  ASSUME NEW n \in Nat, NEW T, T \subseteq 0 .. n, T # {}
  PROVE  \E x \in T : \A y \in T : y <= x
<1> DEFINE D == {n - y : y \in T}
<1>0. \A y \in T : n - y \in Nat
  OBVIOUS
<1>1. D \subseteq Nat /\ D # {}
  BY <1>0
<1>2. PICK d \in D : \A e \in D : d <= e
  BY <1>1, Least
<1>3. PICK x \in T : d = n - x
  BY <1>2
<1>4. \A y \in T : n - x <= n - y
  BY <1>2, <1>3
<1> HIDE DEF D
<1> QED BY <1>4

\* What holds of an element if it holds of all that are lower holds of all.
LEMMA RankInduction ==
  ASSUME NEW S, NEW K \in Nat, NEW rank \in [S -> 0 .. K], NEW P,
         \A n \in S : (\A m \in S : rank[m] < rank[n] => m \in P) => n \in P
  PROVE  \A n \in S : n \in P
<1> SUFFICES ASSUME NEW z \in S, z \notin P PROVE FALSE
  OBVIOUS
<1> DEFINE T == {rank[n] : n \in S \ P}
<1>1. T \subseteq Nat /\ T # {}
  OBVIOUS
<1>2. PICK k \in T : \A j \in T : k <= j
  BY <1>1, Least
<1>3. PICK n \in S \ P : k = rank[n]
  BY <1>2
<1>4. \A m \in S : rank[m] < rank[n] => m \in P
  BY <1>2, <1>3
<1> QED BY <1>3, <1>4

LEMMA UpToInduction ==
  ASSUME NEW n \in Nat, NEW P, 0 \in P, \A k \in 1 .. n : k - 1 \in P => k \in P
  PROVE  \A k \in 0 .. n : k \in P
<1> SUFFICES ASSUME NEW z \in 0 .. n, z \notin P PROVE FALSE
  OBVIOUS
<1> DEFINE T == {k \in 0 .. n : k \notin P}
<1>1. T \subseteq Nat /\ T # {}
  OBVIOUS
<1>2. PICK k \in T : \A j \in T : k <= j
  BY <1>1, Least
<1>3. k \in 1 .. n /\ k - 1 \in 0 .. n /\ ~(k <= k - 1)
  BY <1>2
<1>4. k - 1 \in P
  BY <1>2, <1>3
<1> QED BY <1>2, <1>3, <1>4

\* What G says of n depends only on what lies lower than n.
OnlyOnLower(S, V, rank, G) ==
  \A n \in S : \A f, g \in [S -> V] :
    (\A m \in S : rank[m] < rank[n] => f[m] = g[m]) => G[<<n, f>>] = G[<<n, g>>]

Solution(S, G, f) == \A n \in S : f[n] = G[<<n, f>>]

(* A recursive definition has a solution if what it says of n depends only *)
(* on what lies lower than n: were there a rank up to which there is none, *)
(* the least one would be one above a solution, which one application of G *)
(* extends.                                                                *)
LEMMA RankedRecursion ==
  ASSUME NEW S, NEW V, NEW v \in V, NEW K \in Nat, NEW rank \in [S -> 0 .. K],
         NEW G \in [S \X [S -> V] -> V], OnlyOnLower(S, V, rank, G)
  PROVE  \E f \in [S -> V] : Solution(S, G, f)
<1> DEFINE Solves(f, k) == \A n \in S : rank[n] < k => f[n] = G[<<n, f>>]
           T == {k \in Nat : \A f \in [S -> V] : ~Solves(f, k)}
<1>1. T = {}
  <2>1. SUFFICES ASSUME T # {} PROVE FALSE
    OBVIOUS
  <2>2. PICK k \in T : \A j \in T : k <= j
    BY <2>1, Least
  <2>3. [n \in S |-> v] \in [S -> V] /\ Solves([n \in S |-> v], 0)
    OBVIOUS
  <2>4. k \in Nat \ {0}
    BY <2>3
  <2>5. PICK f \in [S -> V] : Solves(f, k - 1)
    <3>1. k - 1 \in Nat /\ ~(k <= k - 1)
      BY <2>4
    <3>2. k - 1 \notin T
      BY <2>2, <3>1
    <3> QED BY <3>1, <3>2
  <2> DEFINE g == [n \in S |-> G[<<n, f>>]]
  <2>6. g \in [S -> V]
    OBVIOUS
  <2>7. ASSUME NEW n \in S, rank[n] < k PROVE g[n] = G[<<n, g>>]
    <3>1. ASSUME NEW m \in S, rank[m] < rank[n] PROVE f[m] = g[m]
      <4>1. rank[m] < k - 1
        BY <2>4, <2>7, <3>1
      <4> QED BY <2>5, <4>1
    <3> QED BY <2>6, <3>1 DEF OnlyOnLower
  <2>8. Solves(g, k)
    BY <2>7
  <2>9. \A h \in [S -> V] : ~Solves(h, k)
    BY <2>2
  <2> QED BY <2>6, <2>8, <2>9, Zenon
<1>2. K + 1 \in Nat
  OBVIOUS
<1>3. PICK f \in [S -> V] : Solves(f, K + 1)
  <2>1. K + 1 \notin T
    BY <1>1, Zenon
  <2> QED BY <1>2, <2>1, Zenon
<1>4. \A n \in S : f[n] = G[<<n, f>>]
  BY <1>3
<1> QED BY <1>4 DEF Solution

-----------------------------------------------------------------------------
(* FoldLeft takes the indices of a sequence from the greatest down: it is  *)
(* a recursion over sets of indices, ranked by their greatest elements.    *)

LEMMA GreatestIndex ==
  ASSUME NEW n \in Nat, NEW T \in SUBSET (1 .. n), T # {}
  PROVE  Max(T) \in T /\ Max(T) \in 1 .. n /\ \A y \in T : y <= Max(T)
<1>1. T \subseteq 0 .. n
  OBVIOUS
<1>2. \E x \in T : \A y \in T : y <= x
  BY <1>1, Greatest
<1>3. \E x \in T : \A y \in T : x >= y
  BY <1>2
<1>4. Max(T) \in T /\ \A y \in T : Max(T) >= y
  BY <1>3 DEF Max
<1> HIDE DEF Max
<1> QED BY <1>4

LEMMA IndicesUpTo ==
  ASSUME NEW n \in Nat, NEW k \in 1 .. n
  PROVE  1 .. k \in SUBSET (1 .. n) /\ 1 .. k # {} /\ Max(1 .. k) = k /\ (1 .. k) \ {k} = 1 .. k - 1
<1>1. 1 .. k \in SUBSET (1 .. n) /\ 1 .. k # {} /\ k \in 1 .. k /\ (1 .. k) \ {k} = 1 .. k - 1
  OBVIOUS
<1>2. Max(1 .. k) \in 1 .. k /\ k <= Max(1 .. k)
  BY <1>1, GreatestIndex
<1>3. Max(1 .. k) = k
  BY <1>2
<1> QED BY <1>1, <1>3

\* What is left of T without its greatest element comes before T.
Peels(g, S, v, step) ==
  \A T \in S : g[T] = IF T = {} THEN v ELSE step[<<g[T \ {Max(T)}], Max(T)>>]

LEMMA FoldExists ==
  ASSUME NEW n \in Nat, NEW V, NEW v \in V, NEW step \in [V \X (1 .. n) -> V]
  PROVE  \E h \in [SUBSET (1 .. n) -> V] : Peels(h, SUBSET (1 .. n), v, step)
<1> DEFINE S == SUBSET (1 .. n)
           body(g, T) == IF T = {} THEN v ELSE step[<<g[T \ {Max(T)}], Max(T)>>]
           G == [p \in S \X [S -> V] |-> body(p[2], p[1])]
           rank == [T \in S |-> IF T = {} THEN 0 ELSE Max(T)]
<1>1. ASSUME NEW T \in S, T # {}
      PROVE  Max(T) \in T /\ Max(T) \in 1 .. n /\ \A y \in T : y <= Max(T)
  BY <1>1, GreatestIndex
<1> HIDE DEF S
<1>2. ASSUME NEW T \in S, T # {} PROVE T \ {Max(T)} \in S
  BY DEF S
<1>3. rank \in [S -> 0 .. n]
  <2>1. \A T \in S : T # {} => Max(T) \in 0 .. n
    BY <1>1
  <2>2. 0 \in 0 .. n
    OBVIOUS
  <2> QED BY <2>1, <2>2, Zenon
<1>4. ASSUME NEW T \in S, T # {} PROVE rank[T \ {Max(T)}] < rank[T]
  <2> DEFINE U == T \ {Max(T)}
  <2>1. U \in S /\ U \subseteq T /\ Max(T) \notin U
    BY <1>2, <1>4
  <2>2. U # {} => Max(U) \in U /\ Max(U) \in 1 .. n
    BY <1>1, <2>1
  <2>3. Max(T) \in 1 .. n /\ \A y \in T : y <= Max(T)
    BY <1>1, <1>4
  <2>4. rank[T] = Max(T) /\ rank[U] = IF U = {} THEN 0 ELSE Max(U)
    BY <1>4, <2>1
  <2> HIDE DEF rank, U
  <2>5. rank[U] < rank[T]
    BY <2>1, <2>2, <2>3, <2>4
  <2> QED BY <2>5 DEF U
<1>5. ASSUME NEW T \in S, NEW g \in [S -> V] PROVE body(g, T) \in V
  BY <1>1, <1>2
<1>6. G \in [S \X [S -> V] -> V]
  <2>1. \A p \in S \X [S -> V] : body(p[2], p[1]) \in V
    BY <1>5
  <2> HIDE DEF body
  <2> QED BY <2>1
<1>7. \A T \in S, g \in [S -> V] : G[<<T, g>>] = body(g, T)
  OBVIOUS
<1>8. OnlyOnLower(S, V, rank, G)
  <2> SUFFICES ASSUME NEW T \in S, NEW f \in [S -> V], NEW g \in [S -> V],
                      \A U \in S : rank[U] < rank[T] => f[U] = g[U]
               PROVE  G[<<T, f>>] = G[<<T, g>>]
    BY DEF OnlyOnLower
  <2> HIDE DEF rank
  <2>1. T # {} => f[T \ {Max(T)}] = g[T \ {Max(T)}]
    BY <1>2, <1>4
  <2>2. body(f, T) = body(g, T)
    BY <2>1
  <2> QED BY <1>7, <2>2
<1> HIDE DEF G, rank
<1>9. PICK h \in [S -> V] : Solution(S, G, h)
  BY <1>3, <1>6, <1>8, RankedRecursion
<1>10. Peels(h, S, v, step)
  BY <1>7, <1>9 DEF Solution, Peels
<1> QED BY <1>9, <1>10 DEF S

\* f[k] is the fold of the first k elements.
StepByStep(f, n, v, last, step) ==
  f[0] = v /\ f[n] = last /\ \A k \in 1 .. n : f[k] = step[<<f[k - 1], k>>]

LEMMA FoldUnfolds ==
  ASSUME NEW n \in Nat, NEW V, NEW v \in V, NEW step \in [V \X (1 .. n) -> V], NEW g, g[{}] = v,
         \A T \in SUBSET (1 .. n) :
           T # {} /\ g[T \ {Max(T)}] \in V => g[T] = step[<<g[T \ {Max(T)}], Max(T)>>]
  PROVE  \E f \in [0 .. n -> V] : StepByStep(f, n, v, g[1 .. n], step)
<1>1. g[1 .. 0] = v
  <2>1. 1 .. 0 = {}
    OBVIOUS
  <2> QED BY <2>1
<1>2. ASSUME NEW k \in 1 .. n, g[1 .. k - 1] \in V PROVE g[1 .. k] = step[<<g[1 .. k - 1], k>>]
  <2>1. 1 .. k \in SUBSET (1 .. n) /\ 1 .. k # {} /\ Max(1 .. k) = k /\ (1 .. k) \ {k} = 1 .. k - 1
    BY IndicesUpTo
  <2> QED BY <1>2, <2>1
<1> DEFINE P == {k \in 0 .. n : g[1 .. k] \in V}
<1>3. \A k \in 0 .. n : k \in P
  <2>1. 0 \in P
    BY <1>1
  <2>2. ASSUME NEW k \in 1 .. n, k - 1 \in P PROVE k \in P
    <3>1. k \in 0 .. n /\ g[1 .. k - 1] \in V
      BY <2>2
    <3>2. g[1 .. k] \in V
      BY <1>2, <3>1
    <3> QED BY <3>1, <3>2
  <2> HIDE DEF P
  <2> QED BY <2>1, <2>2, UpToInduction
<1> DEFINE f == [k \in 0 .. n |-> g[1 .. k]]
<1>4. \A k \in 0 .. n : g[1 .. k] \in V
  BY <1>3
<1>5. f \in [0 .. n -> V] /\ f[0] = v /\ f[n] = g[1 .. n]
  BY <1>1, <1>4
<1>6. ASSUME NEW k \in 1 .. n PROVE f[k] = step[<<f[k - 1], k>>]
  <2>1. k \in 0 .. n /\ k - 1 \in 0 .. n
    OBVIOUS
  <2>2. g[1 .. k] = step[<<g[1 .. k - 1], k>>]
    BY <1>2, <1>4, <2>1
  <2> QED BY <2>1, <2>2
<1> HIDE DEF f
<1>7. StepByStep(f, n, v, g[1 .. n], step)
  BY <1>5, <1>6 DEF StepByStep
<1> QED BY <1>5, <1>7
=============================================================================
