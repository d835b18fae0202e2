------------------------------ MODULE WalkLemmas ------------------------------
(***************************************************************************)
(* Lemmas on sums along walks, for every graph. Induction over the length  *)
(* of a walk is by the least counterexample: a non-empty set of naturals   *)
(* has a least element, because < is well founded on them.                 *)
(***************************************************************************)
EXTENDS Walks, FiniteSetTheorems, TLAPS

LEMMA LessIsWellFounded ==
  IsWellFoundedOn({ss \in Nat \X Nat : ss[1] < ss[2]}, Nat)
  BY NatLessThanWellFounded DEF OpToRel

LEMMA LeastNatural ==
  ASSUME NEW T, T \subseteq Nat, T # {}
  PROVE  \E m \in T : \A k \in T : m <= k
  <1> DEFINE R == {ss \in Nat \X Nat : ss[1] < ss[2]}
  <1>1. IsWellFoundedOn(R, Nat)
    BY LessIsWellFounded
  <1>2. PICK m \in T : \A k \in T : <<k, m>> \notin R
    <2> HIDE DEF R
    <2> QED
      BY <1>1, WFMin
  <1>3. ASSUME NEW k \in T PROVE m <= k
    <2>1. <<k, m>> \in Nat \X Nat /\ <<k, m>> \notin R
      BY <1>2
    <2>2. ~(k < m)
      BY <2>1
    <2>3. QED
      BY <2>1, <2>2
  <1>4. QED
    BY <1>3

\* Induction over the naturals, for sets.
LEMMA NaturalsAreInductive ==
  ASSUME NEW T, 0 \in T, \A n \in Nat : n \in T => n + 1 \in T
  PROVE  Nat \subseteq T
  <1> DEFINE missing == Nat \ T
  <1>1. SUFFICES ASSUME missing # {} PROVE FALSE
    OBVIOUS
  <1>2. PICK m \in missing : \A k \in missing : m <= k
    BY <1>1, LeastNatural
  <1>3. m \in Nat /\ m # 0
    BY <1>2
  <1>4. m - 1 \in Nat /\ m - 1 \notin missing
    BY <1>2, <1>3
  <1>5. QED
    BY <1>2, <1>3, <1>4

-----------------------------------------------------------------------------
\* The sums along the first positions of a walk of n nodes.
IsSums(s, p, n, w) ==
  /\ s \in [1..n -> Int]
  /\ s[1] = 0
  /\ \A i \in 1..(n - 1) : s[i + 1] = s[i] + w[<<p[i], p[i + 1]>>]

\* The recursive function of WalkWeight exists.
LEMMA RunningSumExists ==
  ASSUME NEW g
  PROVE  \A n \in Nat :
           \E s : s = [i \in 1..n |-> IF i = 1 THEN 0 ELSE s[i - 1] + g[i]]
  <1> DEFINE T == {n \in Nat :
               \E s : s = [i \in 1..n |-> IF i = 1 THEN 0 ELSE s[i - 1] + g[i]]}
  <1>1. 0 \in T
    <2>1. <<>> = [i \in 1..0 |-> IF i = 1 THEN 0 ELSE <<>>[i - 1] + g[i]]
      OBVIOUS
    <2>2. QED
      BY <2>1
  <1>2. ASSUME NEW n \in Nat, n \in T
        PROVE  n + 1 \in T
    <2>1. PICK s : s = [i \in 1..n |-> IF i = 1 THEN 0 ELSE s[i - 1] + g[i]]
      BY <1>2
    <2> DEFINE t == [i \in 1..(n + 1) |->
                       IF i \in 1..n THEN s[i]
                         ELSE IF i = 1 THEN 0 ELSE s[i - 1] + g[i]]
    <2>2. ASSUME NEW i \in 1..(n + 1)
          PROVE  t[i] = IF i = 1 THEN 0 ELSE t[i - 1] + g[i]
      <3>1. CASE i = 1
        BY <2>1, <3>1
      <3>2. CASE i # 1
        <4>1. i - 1 \in 1..n
          BY <3>2
        <4>2. t[i - 1] = s[i - 1]
          BY <4>1
        <4>3. CASE i \in 1..n
          <5>1. s[i] = s[i - 1] + g[i]
            BY <2>1, <3>2, <4>3
          <5>2. t[i] = s[i]
            BY <4>3
          <5>3. QED
            BY <3>2, <4>2, <5>1, <5>2
        <4>4. CASE i \notin 1..n
          BY <3>2, <4>2, <4>4
        <4>5. QED
          BY <4>3, <4>4
      <3>3. QED
        BY <3>1, <3>2
    <2>3. t = [i \in 1..(n + 1) |-> IF i = 1 THEN 0 ELSE t[i - 1] + g[i]]
      BY <2>2
    <2>4. \E r : r = [i \in 1..(n + 1) |-> IF i = 1 THEN 0 ELSE r[i - 1] + g[i]]
      <3> HIDE DEF t
      <3>1. QED
        BY <2>3
    <2>5. QED
      BY <2>4
  <1>3. Nat \subseteq T
    <2> HIDE DEF T
    <2>1. QED
      BY <1>1, <1>2, NaturalsAreInductive
  <1>4. QED
    BY <1>3

\* The weight of a walk is the last of its sums.
LEMMA WeightIsLastSum ==
  ASSUME NEW V, NEW E, NEW n \in Nat \ {0}, NEW p \in WalksOver(V, E, n),
         NEW w \in [E -> Int]
  PROVE  \E s \in [1..n -> Int] : IsSums(s, p, n, w) /\ WalkWeight(p, w) = s[n]
  <1>0. p \in [1..n -> V] /\ Hops(p) \subseteq E /\ Len(p) = n
    BY DEF WalksOver
  <1> DEFINE g == [i \in 1..n |-> w[<<p[i - 1], p[i]>>]]
             f == CHOOSE s : s = [i \in 1..n |->
                    IF i = 1 THEN 0 ELSE s[i - 1] + w[<<p[i - 1], p[i]>>]]
  <1>1. \E s : s = [i \in 1..n |->
                      IF i = 1 THEN 0 ELSE s[i - 1] + w[<<p[i - 1], p[i]>>]]
    <2>1. PICK s : s = [i \in 1..n |-> IF i = 1 THEN 0 ELSE s[i - 1] + g[i]]
      <3> HIDE DEF g
      <3>1. QED
        BY RunningSumExists
    <2>2. s = [i \in 1..n |->
                 IF i = 1 THEN 0 ELSE s[i - 1] + w[<<p[i - 1], p[i]>>]]
      BY <2>1
    <2>3. QED
      BY <2>2
  <1>2. f = [i \in 1..n |->
               IF i = 1 THEN 0 ELSE f[i - 1] + w[<<p[i - 1], p[i]>>]]
    <2> HIDE DEF g
    <2>1. QED
      BY <1>1
  <1>3. WalkWeight(p, w) = f[n]
    BY <1>0 DEF WalkWeight
  <1> HIDE DEF f, g
  <1>4. f[1] = 0
    BY <1>2
  <1>5. ASSUME NEW i \in 1..(n - 1)
        PROVE  /\ f[i + 1] = f[i] + w[<<p[i], p[i + 1]>>]
               /\ w[<<p[i], p[i + 1]>>] \in Int
    <2>1. <<p[i], p[i + 1]>> \in E
      BY <1>0 DEF Hops
    <2>2. i + 1 \in 1..n /\ i + 1 # 1 /\ (i + 1) - 1 = i
      OBVIOUS
    <2>3. f[i + 1] = f[(i + 1) - 1] + w[<<p[(i + 1) - 1], p[i + 1]>>]
      BY <1>2, <2>2
    <2>4. QED
      BY <2>1, <2>2, <2>3
  <1>6. f \in [1..n -> Int]
    <2> DEFINE T == {k \in Nat : k \in 1..n => f[k] \in Int}
    <2>1. 0 \in T
      OBVIOUS
    <2>2. ASSUME NEW k \in Nat, k \in T
          PROVE  k + 1 \in T
      <3>1. CASE k = 0
        BY <1>4, <3>1
      <3>2. CASE k \in 1..(n - 1)
        <4>1. f[k + 1] = f[k] + w[<<p[k], p[k + 1]>>]
          BY <1>5, <3>2
        <4>2. f[k] \in Int
          BY <2>2, <3>2
        <4>3. w[<<p[k], p[k + 1]>>] \in Int
          BY <1>5, <3>2
        <4>4. f[k + 1] \in Int
          BY <4>1, <4>2, <4>3
        <4>5. QED
          BY <4>4
      <3>3. CASE k >= n
        BY <3>3
      <3>4. QED
        BY <3>1, <3>2, <3>3
    <2>3. Nat \subseteq T
      <3> HIDE DEF T
      <3>1. QED
        BY <2>1, <2>2, NaturalsAreInductive
    <2>4. \A k \in 1..n : f[k] \in Int
      BY <2>3
    <2>5. f = [i \in 1..n |-> f[i]]
      BY <1>2
    <2>6. QED
      BY <2>4, <2>5
  <1>7. IsSums(f, p, n, w)
    BY <1>4, <1>5, <1>6 DEF IsSums
  <1>8. QED
    BY <1>3, <1>6, <1>7

\* Sums are determined by the walk: any of them ends in its weight.
LEMMA SumsEndInWeight ==
  ASSUME NEW V, NEW E, NEW n \in Nat \ {0}, NEW p \in WalksOver(V, E, n),
         NEW w \in [E -> Int], NEW s, IsSums(s, p, n, w)
  PROVE  WalkWeight(p, w) = s[n] /\ WalkWeight(p, w) \in Int
  <1>1. PICK t : IsSums(t, p, n, w) /\ WalkWeight(p, w) = t[n]
    BY WeightIsLastSum
  <1> DEFINE T == {k \in Nat : k \in 1..n => s[k] = t[k]}
  <1>2. 0 \in T
    OBVIOUS
  <1>3. ASSUME NEW k \in Nat, k \in T
        PROVE  k + 1 \in T
    <2>1. CASE k = 0
      BY <1>1, <2>1 DEF IsSums
    <2>2. CASE k \in 1..(n - 1)
      <3>1. s[k + 1] = s[k] + w[<<p[k], p[k + 1]>>]
        BY <2>2 DEF IsSums
      <3>2. t[k + 1] = t[k] + w[<<p[k], p[k + 1]>>]
        BY <1>1, <2>2 DEF IsSums
      <3>3. s[k] = t[k]
        BY <1>3, <2>2
      <3>4. s[k + 1] = t[k + 1]
        BY <3>1, <3>2, <3>3
      <3>5. QED
        BY <3>4
    <2>3. CASE k >= n
      BY <2>3
    <2>4. QED
      BY <2>1, <2>2, <2>3
  <1>4. Nat \subseteq T
    <2> HIDE DEF T
    <2>1. QED
      BY <1>2, <1>3, NaturalsAreInductive
  <1>5. s[n] = t[n]
    BY <1>4
  <1>6. QED
    BY <1>1, <1>5 DEF IsSums

LEMMA WeightIsInteger ==
  ASSUME NEW V, NEW E, NEW n \in Nat \ {0}, NEW p \in WalksOver(V, E, n),
         NEW w \in [E -> Int]
  PROVE  WalkWeight(p, w) \in Int
  BY WeightIsLastSum

\* The weight of a hop of a walk.
LEMMA HopWeights ==
  ASSUME NEW V, NEW E, NEW n \in Nat \ {0}, NEW p \in WalksOver(V, E, n),
         NEW w \in [E -> Int], NEW i \in 1..(n - 1)
  PROVE  /\ i \in 1..n /\ i + 1 \in 1..n
         /\ p[i] \in V /\ p[i + 1] \in V
         /\ <<p[i], p[i + 1]>> \in E
         /\ w[<<p[i], p[i + 1]>>] \in Int
  <1>1. p \in [1..n -> V] /\ Hops(p) \subseteq E /\ Len(p) = n
    BY DEF WalksOver
  <1>2. i \in 1..n /\ i + 1 \in 1..n
    OBVIOUS
  <1>3. <<p[i], p[i + 1]>> \in E
    BY <1>1 DEF Hops
  <1>4. QED
    BY <1>1, <1>2, <1>3

\* Telescoping: a potential that rises by the weight of each hop at least
\* rises by the weight of the walk at least, and by more if it does at a hop.
LEMMA PotentialAbove ==
  ASSUME NEW V, NEW E, NEW n \in Nat \ {0}, NEW p \in WalksOver(V, E, n),
         NEW w \in [E -> Int], NEW d \in [V -> Int],
         \A i \in 1..(n - 1) : d[p[i]] + w[<<p[i], p[i + 1]>>] <= d[p[i + 1]],
         NEW j \in 0..(n - 1),
         j > 0 => d[p[j]] + w[<<p[j], p[j + 1]>>] < d[p[j + 1]]
  PROVE  /\ WalkWeight(p, w) <= d[p[n]] - d[p[1]]
         /\ j > 0 => WalkWeight(p, w) < d[p[n]] - d[p[1]]
  <1>1. PICK s : IsSums(s, p, n, w) /\ WalkWeight(p, w) = s[n]
    BY WeightIsLastSum
  <1>2. p \in [1..n -> V] /\ \A i \in 1..n : d[p[i]] \in Int
    BY DEF WalksOver
  <1> DEFINE Below(k) == /\ s[k] <= d[p[k]] - d[p[1]]
                         /\ 0 < j /\ j < k => s[k] < d[p[k]] - d[p[1]]
             T == {k \in Nat : k \in 1..n => Below(k)}
  <1>3. 0 \in T
    OBVIOUS
  <1>4. ASSUME NEW k \in Nat, k \in T
        PROVE  k + 1 \in T
    <2>1. CASE k = 0
      <3>1. s[1] = 0 /\ d[p[1]] \in Int
        BY <1>1, <1>2 DEF IsSums
      <3>2. Below(1)
        BY <3>1
      <3>3. QED
        BY <2>1, <3>2
    <2>2. CASE k \in 1..(n - 1)
      <3> DEFINE hop == w[<<p[k], p[k + 1]>>]
      <3>1. s[k + 1] = s[k] + hop
        BY <1>1, <2>2 DEF IsSums
      <3>2. Below(k)
        BY <1>4, <2>2
      <3>3. d[p[k]] + hop <= d[p[k + 1]]
        BY <2>2
      <3>4. j = k /\ 0 < j => d[p[k]] + hop < d[p[k + 1]]
        OBVIOUS
      <3>5. /\ hop \in Int /\ s[k] \in Int /\ d[p[k]] \in Int
            /\ d[p[k + 1]] \in Int /\ d[p[1]] \in Int
        <4>1. hop \in Int /\ k \in 1..n /\ k + 1 \in 1..n
          BY <2>2, HopWeights
        <4>2. s[k] \in Int
          BY <1>1, <4>1 DEF IsSums
        <4>3. QED
          BY <1>2, <4>1, <4>2
      <3> HIDE DEF hop
      <3>6. Below(k + 1)
        BY <3>1, <3>2, <3>3, <3>4, <3>5
      <3>7. QED
        BY <3>6
    <2>3. CASE k >= n
      BY <2>3
    <2>4. QED
      BY <2>1, <2>2, <2>3
  <1>5. Nat \subseteq T
    <2> HIDE DEF T
    <2>1. QED
      BY <1>3, <1>4, NaturalsAreInductive
  <1>6. Below(n)
    BY <1>5
  <1>7. QED
    BY <1>1, <1>6

\* A potential that rises by the weight of each hop at most rises by the
\* weight of the walk at most.
LEMMA PotentialBelow ==
  ASSUME NEW V, NEW E, NEW n \in Nat \ {0}, NEW p \in WalksOver(V, E, n),
         NEW w \in [E -> Int], NEW d \in [V -> Int],
         \A i \in 1..(n - 1) : d[p[i + 1]] <= d[p[i]] + w[<<p[i], p[i + 1]>>]
  PROVE  d[p[n]] - d[p[1]] <= WalkWeight(p, w)
  <1>1. PICK s : IsSums(s, p, n, w) /\ WalkWeight(p, w) = s[n]
    BY WeightIsLastSum
  <1>2. p \in [1..n -> V] /\ \A i \in 1..n : d[p[i]] \in Int
    BY DEF WalksOver
  <1> DEFINE T == {k \in Nat : k \in 1..n => d[p[k]] - d[p[1]] <= s[k]}
  <1>3. 0 \in T
    OBVIOUS
  <1>4. ASSUME NEW k \in Nat, k \in T
        PROVE  k + 1 \in T
    <2>1. CASE k = 0
      <3>1. s[1] = 0 /\ d[p[1]] \in Int
        BY <1>1, <1>2 DEF IsSums
      <3>2. QED
        BY <2>1, <3>1
    <2>2. CASE k \in 1..(n - 1)
      <3> DEFINE hop == w[<<p[k], p[k + 1]>>]
      <3>1. s[k + 1] = s[k] + hop
        BY <1>1, <2>2 DEF IsSums
      <3>2. d[p[k]] - d[p[1]] <= s[k]
        BY <1>4, <2>2
      <3>3. d[p[k + 1]] <= d[p[k]] + hop
        BY <2>2
      <3>4. /\ hop \in Int /\ s[k] \in Int /\ d[p[k]] \in Int
            /\ d[p[k + 1]] \in Int /\ d[p[1]] \in Int
        <4>1. hop \in Int /\ k \in 1..n /\ k + 1 \in 1..n
          BY <2>2, HopWeights
        <4>2. s[k] \in Int
          BY <1>1, <4>1 DEF IsSums
        <4>3. QED
          BY <1>2, <4>1, <4>2
      <3> HIDE DEF hop
      <3>5. d[p[k + 1]] - d[p[1]] <= s[k + 1]
        BY <3>1, <3>2, <3>3, <3>4
      <3>6. QED
        BY <3>5
    <2>3. CASE k >= n
      BY <2>3
    <2>4. QED
      BY <2>1, <2>2, <2>3
  <1>5. Nat \subseteq T
    <2> HIDE DEF T
    <2>1. QED
      BY <1>3, <1>4, NaturalsAreInductive
  <1>6. QED
    BY <1>1, <1>5

-----------------------------------------------------------------------------
\* A walk is as heavy as the walk without its last hop, and that hop.
LEMMA LastHopAdds ==
  ASSUME NEW V, NEW E, NEW w \in [E -> Int], NEW n \in Nat \ {0},
         NEW p \in WalksOver(V, E, n), NEW q \in WalksOver(V, E, n + 1),
         \A i \in 1..n : q[i] = p[i]
  PROVE  WalkWeight(q, w) = WalkWeight(p, w) + w[<<p[n], q[n + 1]>>]
  <1>1. PICK s : IsSums(s, q, n + 1, w) /\ WalkWeight(q, w) = s[n + 1]
    BY WeightIsLastSum
  <1> DEFINE t == [i \in 1..n |-> s[i]]
  <1>2. IsSums(t, p, n, w)
    <2>1. t \in [1..n -> Int] /\ t[1] = 0
      BY <1>1 DEF IsSums
    <2>2. ASSUME NEW i \in 1..(n - 1)
          PROVE  t[i + 1] = t[i] + w[<<p[i], p[i + 1]>>]
      <3>1. i \in 1..n /\ i + 1 \in 1..n /\ i \in 1..((n + 1) - 1)
        OBVIOUS
      <3>2. s[i + 1] = s[i] + w[<<q[i], q[i + 1]>>]
        BY <1>1, <3>1 DEF IsSums
      <3>3. q[i] = p[i] /\ q[i + 1] = p[i + 1]
        BY <3>1
      <3>4. QED
        BY <3>1, <3>2, <3>3
    <2>3. QED
      BY <2>1, <2>2 DEF IsSums
  <1>3. WalkWeight(p, w) = t[n]
    <2> HIDE DEF t
    <2>1. QED
      BY <1>2, SumsEndInWeight
  <1>4. s[n + 1] = s[n] + w[<<q[n], q[n + 1]>>]
    <2>1. n \in 1..((n + 1) - 1)
      OBVIOUS
    <2>2. QED
      BY <1>1, <2>1 DEF IsSums
  <1>5. q[n] = p[n] /\ t[n] = s[n]
    OBVIOUS
  <1>6. QED
    BY <1>1, <1>3, <1>4, <1>5

\* A single node is a walk of weight zero.
LEMMA NodeWeighsNothing ==
  ASSUME NEW V, NEW E, NEW w \in [E -> Int], NEW p \in WalksOver(V, E, 1)
  PROVE  WalkWeight(p, w) = 0
  <1>1. PICK s : IsSums(s, p, 1, w) /\ WalkWeight(p, w) = s[1]
    BY WeightIsLastSum
  <1>2. QED
    BY <1>1 DEF IsSums

\* Walks, by their hops.
LEMMA WalkByHops ==
  ASSUME NEW V, NEW E, NEW n \in Nat, NEW p \in [1..n -> V]
  PROVE  p \in WalksOver(V, E, n) <=>
           \A i \in 1..(n - 1) : <<p[i], p[i + 1]>> \in E
  <1>1. Len(p) = n
    OBVIOUS
  <1>2. QED
    BY <1>1 DEF WalksOver, Hops

\* A walk without its last hop.
LEMMA FrontIsWalk ==
  ASSUME NEW V, NEW E, NEW n \in Nat \ {0}, NEW q \in WalksOver(V, E, n + 1)
  PROVE  [i \in 1..n |-> q[i]] \in WalksOver(V, E, n)
  <1> DEFINE p == [i \in 1..n |-> q[i]]
  <1>1. q \in [1..(n + 1) -> V]
    BY DEF WalksOver
  <1>2. p \in [1..n -> V]
    BY <1>1
  <1>3. ASSUME NEW i \in 1..(n - 1) PROVE <<p[i], p[i + 1]>> \in E
    <2>1. i \in 1..((n + 1) - 1) /\ i \in 1..n /\ i + 1 \in 1..n
      OBVIOUS
    <2>2. <<q[i], q[i + 1]>> \in E
      BY <1>1, <2>1, WalkByHops
    <2>3. QED
      BY <2>1, <2>2
  <1> HIDE DEF p
  <1>4. p \in WalksOver(V, E, n)
    BY <1>2, <1>3, WalkByHops
  <1>5. QED
    BY <1>4 DEF p

\* A walk with one more hop.
LEMMA ExtendedIsWalk ==
  ASSUME NEW V, NEW E, NEW n \in Nat \ {0}, NEW p \in WalksOver(V, E, n),
         NEW v \in V, <<p[n], v>> \in E
  PROVE  [i \in 1..(n + 1) |-> IF i \in 1..n THEN p[i] ELSE v]
           \in WalksOver(V, E, n + 1)
  <1> DEFINE q == [i \in 1..(n + 1) |-> IF i \in 1..n THEN p[i] ELSE v]
  <1>1. p \in [1..n -> V]
    BY DEF WalksOver
  <1>2. q \in [1..(n + 1) -> V]
    BY <1>1
  <1>3. ASSUME NEW i \in 1..((n + 1) - 1) PROVE <<q[i], q[i + 1]>> \in E
    <2>1. CASE i \in 1..(n - 1)
      <3>1. <<p[i], p[i + 1]>> \in E
        BY <1>1, <2>1, WalkByHops
      <3>2. i \in 1..n /\ i + 1 \in 1..n
        BY <2>1
      <3>3. QED
        BY <3>1, <3>2
    <2>2. CASE i = n
      <3>1. q[i] = p[n] /\ q[i + 1] = v
        BY <2>2
      <3>2. QED
        BY <3>1
    <2>3. QED
      BY <2>1, <2>2
  <1> HIDE DEF q
  <1>4. q \in WalksOver(V, E, n + 1)
    BY <1>2, <1>3, WalkByHops
  <1>5. QED
    BY <1>4 DEF q

\* The part of a walk between two positions.
Part(q, i, j) == [t \in 1..(j - i + 1) |-> q[i + t - 1]]

\* x is how much the sums rise between two positions. (A name the provers
\* match when a lemma is cited, where they would not match a difference.)
Rises(s, i, j, x) == x = s[j] - s[i]

\* The part of a walk is a walk; its weight is the rise of the sums over it.
LEMMA PartOfWalk ==
  ASSUME NEW V, NEW E, NEW w \in [E -> Int], NEW n \in Nat \ {0},
         NEW q \in WalksOver(V, E, n), NEW s, IsSums(s, q, n, w),
         NEW i \in 1..n, NEW j \in 1..n, i <= j,
         NEW m \in Nat, m = j - i + 1
  PROVE  /\ Part(q, i, j) \in WalksOver(V, E, m)
         /\ Rises(s, i, j, WalkWeight(Part(q, i, j), w))
  <1> DEFINE c == [t \in 1..m |-> q[i + t - 1]]
             r == [t \in 1..m |-> s[i + t - 1] - s[i]]
  <1>1. m \in Nat \ {0} /\ q \in [1..n -> V]
    BY DEF WalksOver
  <1>2. \A t \in 1..m : i + t - 1 \in 1..n
    OBVIOUS
  <1>3. c \in [1..m -> V]
    BY <1>1, <1>2
  <1>4. ASSUME NEW t \in 1..(m - 1)
        PROVE  /\ c[t] = q[i + t - 1] /\ c[t + 1] = q[(i + t - 1) + 1]
               /\ i + t - 1 \in 1..(n - 1) /\ t \in 1..m /\ t + 1 \in 1..m
    <2>1. t \in 1..m /\ t + 1 \in 1..m /\ i + t - 1 \in 1..(n - 1)
      OBVIOUS
    <2>2. i + (t + 1) - 1 = (i + t - 1) + 1
      OBVIOUS
    <2>3. QED
      BY <2>1, <2>2
  <1>5. ASSUME NEW t \in 1..(m - 1) PROVE <<c[t], c[t + 1]>> \in E
    <2>1. \A u \in 1..(n - 1) : <<q[u], q[u + 1]>> \in E
      BY <1>1, WalkByHops
    <2>2. QED
      BY <1>4, <2>1
  <1>6. c \in WalksOver(V, E, m)
    BY <1>1, <1>3, <1>5, WalkByHops
  <1>7. IsSums(r, c, m, w)
    <2>1. r \in [1..m -> Int] /\ r[1] = 0
      <3>1. \A t \in 1..n : s[t] \in Int
        BY DEF IsSums
      <3>2. QED
        BY <1>1, <1>2, <3>1
    <2>2. ASSUME NEW t \in 1..(m - 1)
          PROVE  r[t + 1] = r[t] + w[<<c[t], c[t + 1]>>]
      <3> DEFINE u == i + t - 1
      <3>1. /\ c[t] = q[u] /\ c[t + 1] = q[u + 1] /\ u \in 1..(n - 1)
            /\ t \in 1..m /\ t + 1 \in 1..m
        BY <1>4
      <3>2. s[u + 1] = s[u] + w[<<q[u], q[u + 1]>>]
        BY <3>1 DEF IsSums
      <3>3. r[t] = s[u] - s[i] /\ r[t + 1] = s[u + 1] - s[i]
        <4>1. i + (t + 1) - 1 = u + 1
          OBVIOUS
        <4>2. QED
          BY <3>1, <4>1
      <3>4. s[u] \in Int /\ s[i] \in Int /\ w[<<q[u], q[u + 1]>>] \in Int
        <4>1. u \in 1..n
          BY <3>1
        <4>2. w[<<q[u], q[u + 1]>>] \in Int
          BY <3>1, HopWeights
        <4>3. QED
          BY <4>1, <4>2 DEF IsSums
      <3>5. w[<<c[t], c[t + 1]>>] = w[<<q[u], q[u + 1]>>]
        BY <3>1, Zenon
      <3> HIDE DEF u, r
      <3> DEFINE hop == w[<<q[u], q[u + 1]>>]
      <3>6. /\ r[t] = s[u] - s[i] /\ r[t + 1] = s[u + 1] - s[i]
            /\ s[u + 1] = s[u] + hop /\ hop = w[<<c[t], c[t + 1]>>]
            /\ s[u] \in Int /\ s[i] \in Int /\ hop \in Int
        BY <3>2, <3>3, <3>4, <3>5
      <3> HIDE DEF hop
      <3>7. r[t + 1] = r[t] + hop
        BY <3>6
      <3>8. QED
        BY <3>6, <3>7
    <2>3. QED
      BY <2>1, <2>2 DEF IsSums
  <1>8. WalkWeight(c, w) = r[m]
    <2> HIDE DEF c, r
    <2>1. QED
      BY <1>1, <1>6, <1>7, SumsEndInWeight
  <1>9. r[m] = s[j] - s[i]
    <2>1. i + m - 1 = j
      OBVIOUS
    <2>2. QED
      BY <1>1, <2>1
  <1>10. Part(q, i, j) = c
    BY DEF Part
  <1>11. QED
    BY <1>6, <1>8, <1>9, <1>10 DEF Rises

\* The weight saved when a walk q is cut down to r between i and j.
Saves(q, r, s, i, j, w) ==
  WalkWeight(r, w) = WalkWeight(q, w) - (s[j] - s[i])

\* A walk of n nodes without its part after position i up to position j.
Cut(q, n, i, j) ==
  [t \in 1..(n - (j - i)) |-> IF t <= i THEN q[t] ELSE q[t + (j - i)]]

\* When the part cut out is closed, what is left is a walk lighter by the
\* weight of the part.
LEMMA CutIsWalk ==
  ASSUME NEW V, NEW E, NEW w \in [E -> Int], NEW n \in Nat \ {0},
         NEW q \in WalksOver(V, E, n), NEW s, IsSums(s, q, n, w),
         NEW i \in 1..n, NEW j \in 1..n, i <= j, q[i] = q[j],
         NEW m \in Nat, m = n - (j - i)
  PROVE  /\ Cut(q, n, i, j) \in WalksOver(V, E, m)
         /\ Saves(q, Cut(q, n, i, j), s, i, j, w)
  <1> DEFINE gap == j - i
             r == [t \in 1..m |-> IF t <= i THEN q[t] ELSE q[t + gap]]
             y == [t \in 1..m |-> IF t <= i THEN s[t] ELSE s[t + gap] - (s[j] - s[i])]
  <1>1. /\ m \in Nat \ {0} /\ gap \in Nat /\ i <= m /\ m + gap = n
        /\ q \in [1..n -> V]
        /\ \A t \in 1..n : s[t] \in Int
    BY DEF WalksOver, IsSums
  <1>2. r \in [1..m -> V]
    BY <1>1
  <1>4. \A t \in 1..(n - 1) : /\ <<q[t], q[t + 1]>> \in E
                              /\ s[t + 1] = s[t] + w[<<q[t], q[t + 1]>>]
                              /\ w[<<q[t], q[t + 1]>>] \in Int
    BY HopWeights DEF IsSums
  \* Every hop of the rest is a hop of the walk, at the same height or lower.
  <1>5. ASSUME NEW t \in 1..(m - 1)
        PROVE  \E u \in 1..(n - 1) :
                 /\ r[t] = q[u] /\ r[t + 1] = q[u + 1]
                 /\ y[t + 1] - y[t] = s[u + 1] - s[u]
    <2>1. t \in 1..m /\ t + 1 \in 1..m
      OBVIOUS
    <2>2. CASE t < i
      <3>1. r[t] = q[t] /\ r[t + 1] = q[t + 1]
        BY <2>1, <2>2
      <3>2. y[t] = s[t] /\ y[t + 1] = s[t + 1]
        BY <2>1, <2>2
      <3>3. t \in 1..(n - 1)
        BY <1>1
      <3>4. QED
        BY <3>1, <3>2, <3>3
    <2>3. CASE t = i
      <3>1. j \in 1..(n - 1) /\ t + 1 + gap = j + 1
        BY <1>1, <2>3
      <3>2. r[t] = q[j] /\ r[t + 1] = q[j + 1]
        BY <2>1, <2>3, <3>1
      <3>3. y[t] = s[i] /\ y[t + 1] = s[j + 1] - (s[j] - s[i])
        BY <2>1, <2>3, <3>1
      <3>4. s[i] \in Int /\ s[j] \in Int /\ s[j + 1] \in Int
        BY <1>1, <3>1
      <3>5. y[t + 1] - y[t] = s[j + 1] - s[j]
        <4> HIDE DEF y
        <4>1. QED
          BY <3>3, <3>4
      <3>6. QED
        BY <3>1, <3>2, <3>5
    <2>4. CASE t > i
      <3> DEFINE u == t + gap
      <3>1. u \in 1..(n - 1) /\ t + 1 + gap = u + 1
        BY <1>1, <2>4
      <3>2. r[t] = q[u] /\ r[t + 1] = q[u + 1]
        BY <2>1, <2>4, <3>1
      <3>3. /\ y[t] = s[u] - (s[j] - s[i])
            /\ y[t + 1] = s[u + 1] - (s[j] - s[i])
        BY <2>1, <2>4, <3>1
      <3>4. s[i] \in Int /\ s[j] \in Int /\ s[u] \in Int /\ s[u + 1] \in Int
        BY <1>1, <3>1
      <3> HIDE DEF u, y
      <3>5. y[t + 1] - y[t] = s[u + 1] - s[u]
        BY <3>3, <3>4
      <3>6. QED
        BY <3>1, <3>2, <3>5
    <2>5. t < i \/ t = i \/ t > i
      <3>1. t \in Int /\ i \in Int
        OBVIOUS
      <3>2. QED
        BY <3>1
    <2>6. QED
      BY <2>2, <2>3, <2>4, <2>5
  <1>6. y \in [1..m -> Int] /\ y[1] = 0
    <2>1. ASSUME NEW t \in 1..m PROVE y[t] \in Int
      <3>1. CASE t <= i
        BY <1>1, <3>1
      <3>2. CASE ~(t <= i)
        <4>1. t + gap \in 1..n /\ i \in 1..n /\ j \in 1..n
          BY <1>1
        <4>2. s[t + gap] \in Int /\ s[i] \in Int /\ s[j] \in Int
          BY <1>1, <4>1
        <4>3. y[t] = s[t + gap] - (s[j] - s[i])
          BY <3>2
        <4>4. QED
          BY <4>2, <4>3
      <3>3. QED
        BY <3>1, <3>2
    <2>2. y[1] = s[1]
      BY <1>1
    <2>3. QED
      BY <2>1, <2>2 DEF IsSums
  <1>7. y[m] = s[n] - (s[j] - s[i])
    <2>1. CASE m = i
      <3>1. j = n /\ y[m] = s[i]
        BY <1>1, <2>1
      <3>2. s[i] \in Int /\ s[n] \in Int
        BY <1>1
      <3> HIDE DEF y
      <3>3. QED
        BY <3>1, <3>2
    <2>2. CASE m # i
      BY <1>1, <2>2
    <2>3. QED
      BY <2>1, <2>2
  <1>0. Cut(q, n, i, j) = r
    BY DEF Cut
  <1> HIDE DEF y, gap, r
  <1>8. r \in WalksOver(V, E, m)
    <2>1. ASSUME NEW t \in 1..(m - 1) PROVE <<r[t], r[t + 1]>> \in E
      BY <1>4, <1>5
    <2>2. QED
      BY <1>1, <1>2, <2>1, WalkByHops
  <1>9. IsSums(y, r, m, w)
    <2>1. ASSUME NEW t \in 1..(m - 1)
          PROVE  y[t + 1] = y[t] + w[<<r[t], r[t + 1]>>]
      <3>1. PICK u \in 1..(n - 1) : /\ r[t] = q[u] /\ r[t + 1] = q[u + 1]
                                    /\ y[t + 1] - y[t] = s[u + 1] - s[u]
        BY <1>5
      <3>2. s[u + 1] = s[u] + w[<<r[t], r[t + 1]>>]
        BY <1>4, <3>1
      <3>3. w[<<r[t], r[t + 1]>>] \in Int
        BY <1>4, <3>1
      <3>4. y[t] \in Int /\ y[t + 1] \in Int /\ s[u] \in Int /\ s[u + 1] \in Int
        BY <1>1, <1>6
      <3> DEFINE hop == w[<<r[t], r[t + 1]>>]
      <3>5. /\ s[u + 1] = s[u] + hop /\ hop \in Int
            /\ y[t + 1] - y[t] = s[u + 1] - s[u]
        BY <3>1, <3>2, <3>3
      <3> HIDE DEF hop
      <3>6. y[t + 1] = y[t] + hop
        <4> DEFINE a == y[t]
                   b == y[t + 1]
                   c == s[u]
                   d == s[u + 1]
        <4>1. a \in Int /\ b \in Int /\ c \in Int /\ d \in Int /\ hop \in Int
          BY <3>4, <3>5
        <4>2. b - a = d - c /\ d = c + hop
          BY <3>5
        <4> HIDE DEF a, b, c, d
        <4>3. b = a + hop
          BY <4>1, <4>2
        <4>4. QED
          BY <4>3 DEF a, b
      <3>7. QED
        BY <3>6 DEF hop
    <2>2. QED
      BY <1>6, <2>1 DEF IsSums
  <1>10. WalkWeight(r, w) = y[m]
    BY <1>1, <1>8, <1>9, SumsEndInWeight
  <1>11. WalkWeight(q, w) = s[n]
    BY SumsEndInWeight
  <1>12. QED
    BY <1>0, <1>7, <1>8, <1>10, <1>11 DEF gap, Saves

-----------------------------------------------------------------------------
\* More positions than nodes: two positions hold the same node.
LEMMA NodeRepeats ==
  ASSUME NEW V, IsFiniteSet(V), NEW n \in Nat, n > Cardinality(V),
         NEW q \in [1..n -> V]
  PROVE  \E i \in 1..n : \E j \in 1..n : i < j /\ q[i] = q[j]
  <1>1. IsFiniteSet(1..n) /\ Cardinality(1..n) = n
    BY FS_Interval
  <1>2. Cardinality(V) < Cardinality(1..n)
    BY <1>1, FS_CardinalityType
  <1>3. PICK x \in 1..n, y \in 1..n : x # y /\ q[x] = q[y]
    BY <1>1, <1>2, FS_PigeonHole
  <1>4. x < y \/ y < x
    BY <1>3
  <1>5. QED
    BY <1>3, <1>4

\* The closed walks of k nodes that pass through no node twice.
SimpleClosed(V, E, k) ==
  {c \in WalksOver(V, E, k) :
     c[1] = c[k] /\ \A a, b \in 1..(k - 1) : c[a] = c[b] => a = b}

\* A walk with more nodes than the graph contains a simple closed one.
LEMMA SimplePart ==
  ASSUME NEW V, IsFiniteSet(V), NEW E, \A v \in V : <<v, v>> \notin E,
         NEW w \in [E -> Int],
         NEW n \in Nat \ {0}, n > Cardinality(V), NEW q \in WalksOver(V, E, n),
         NEW s, IsSums(s, q, n, w)
  PROVE  \E i \in 1..n, j \in 1..n :
           /\ i < j /\ q[i] = q[j]
           /\ \E k \in 3..(Cardinality(V) + 1) : \E c \in SimpleClosed(V, E, k) :
                Rises(s, i, j, WalkWeight(c, w))
  <1>0. q \in [1..n -> V] /\ Cardinality(V) \in Nat
    BY FS_CardinalityType DEF WalksOver
  <1> DEFINE Gaps == {g \in Nat : /\ g > 0
                                  /\ \E i \in 1..n : i + g \in 1..n /\ q[i] = q[i + g]}
  <1>1. Gaps # {}
    <2>1. PICK i \in 1..n, j \in 1..n : i < j /\ q[i] = q[j]
      BY <1>0, NodeRepeats
    <2>2. j - i \in Nat /\ j - i > 0 /\ i + (j - i) = j
      BY <2>1
    <2>3. j - i \in Gaps
      BY <2>1, <2>2
    <2>4. QED
      BY <2>3
  <1>2. PICK g \in Gaps : \A h \in Gaps : g <= h
    <2>1. Gaps \subseteq Nat
      OBVIOUS
    <2>2. QED
      BY <1>1, <2>1, LeastNatural
  <1>3. g \in Nat /\ g > 0
    OBVIOUS
  <1>4. PICK i \in 1..n : i + g \in 1..n /\ q[i] = q[i + g]
    OBVIOUS
  <1> DEFINE j == i + g
             k == j - i + 1
             c == Part(q, i, j)
  <1>5. j \in 1..n /\ i <= j /\ i < j /\ k = g + 1 /\ j - i = g
    BY <1>3, <1>4
  <1>6. c \in WalksOver(V, E, k) /\ Rises(s, i, j, WalkWeight(c, w))
    <2>1. j \in 1..n /\ i <= j /\ k \in Nat /\ k = j - i + 1
      BY <1>3, <1>5
    <2> HIDE DEF j, k, Gaps
    <2>2. QED
      BY <2>1, PartOfWalk
  <1>7. \A t \in 1..(g + 1) : c[t] = q[i + t - 1] /\ i + t - 1 \in 1..n
    BY <1>4, <1>5 DEF Part
  <1>8. c[1] = c[k]
    <2>1. 1 \in 1..(g + 1) /\ g + 1 \in 1..(g + 1) /\ i + 1 - 1 = i /\ i + (g + 1) - 1 = i + g
      BY <1>3
    <2>2. c[1] = q[i] /\ c[g + 1] = q[i + g]
      BY <1>7, <2>1
    <2>3. QED
      BY <1>4, <1>5, <2>2
  <1>9. \A a, b \in 1..g : a < b => c[a] # c[b]
    <2> SUFFICES ASSUME NEW a \in 1..g, NEW b \in 1..g, a < b, c[a] = c[b]
                 PROVE  FALSE
      OBVIOUS
    <2>1. a \in 1..(g + 1) /\ b \in 1..(g + 1)
      OBVIOUS
    <2>2. /\ q[i + a - 1] = q[i + b - 1]
          /\ i + a - 1 \in 1..n /\ i + b - 1 \in 1..n
      BY <1>7, <2>1
    <2>3. b - a \in Nat /\ b - a > 0 /\ (i + a - 1) + (b - a) = i + b - 1
      OBVIOUS
    <2>4. b - a \in Gaps
      BY <2>2, <2>3
    <2>5. g <= b - a
      BY <1>2, <2>4
    <2>6. QED
      BY <2>5
  <1> HIDE DEF Gaps, c
  <1>10. \A a, b \in 1..(k - 1) : c[a] = c[b] => a = b
    <2> SUFFICES ASSUME NEW a \in 1..g, NEW b \in 1..g, c[a] = c[b]
                 PROVE  a = b
      BY <1>5
    <2>1. a < b \/ b < a \/ a = b
      OBVIOUS
    <2>2. QED
      BY <1>9, <2>1
  <1>11. k \in 3..(Cardinality(V) + 1)
    <2>1. c \in [1..(g + 1) -> V]
      BY <1>5, <1>6 DEF WalksOver
    <2>2. g # 1
      <3> SUFFICES ASSUME g = 1 PROVE FALSE
        OBVIOUS
      <3>1. i \in 1..(n - 1)
        BY <1>4
      <3>2. <<q[i], q[i + 1]>> \in E /\ q[i] \in V
        BY <3>1, HopWeights
      <3>3. QED
        BY <1>4, <3>2
    <2>3. g <= Cardinality(V)
      <3> SUFFICES ASSUME g > Cardinality(V) PROVE FALSE
        BY <1>0, <1>3
      <3> DEFINE f == [t \in 1..g |-> c[t]]
      <3>1. f \in [1..g -> V]
        <4>1. \A t \in 1..g : c[t] \in V
          BY <1>3, <2>1
        <4>2. QED
          BY <4>1
      <3>2. PICK a \in 1..g, b \in 1..g : a < b /\ f[a] = f[b]
        <4> HIDE DEF f
        <4>1. QED
          BY <1>3, <3>1, NodeRepeats
      <3>3. c[a] = c[b]
        BY <3>2
      <3>4. QED
        BY <1>9, <3>2, <3>3
    <2>4. QED
      BY <1>0, <1>3, <1>5, <2>2, <2>3
  <1>12. c \in SimpleClosed(V, E, k)
    BY <1>6, <1>8, <1>10 DEF SimpleClosed
  <1>13. QED
    BY <1>4, <1>5, <1>6, <1>11, <1>12

\* Where no simple closed walk is negative, some walk with no more nodes than
\* the graph is as light as any walk with the same last node.
THEOREM ShortWalksAreLightest ==
  ASSUME NEW V, IsFiniteSet(V), NEW E, \A v \in V : <<v, v>> \notin E,
         NEW w \in [E -> Int],
         \A k \in 3..(Cardinality(V) + 1) : \A c \in SimpleClosed(V, E, k) :
           WalkWeight(c, w) >= 0,
         NEW n \in Nat \ {0}, NEW p \in WalksOver(V, E, n)
  PROVE  \E m \in 1..Cardinality(V) : \E q \in WalksOver(V, E, m) :
           q[m] = p[n] /\ WalkWeight(q, w) <= WalkWeight(p, w)
  <1> DEFINE Lengths == {m \in Nat \ {0} : \E q \in WalksOver(V, E, m) :
                           q[m] = p[n] /\ WalkWeight(q, w) <= WalkWeight(p, w)}
  <1>1. WalkWeight(p, w) \in Int
    BY WeightIsInteger
  <1>2. n \in Lengths
    BY <1>1
  <1>3. PICK m \in Lengths : \A l \in Lengths : m <= l
    <2>1. Lengths \subseteq Nat
      OBVIOUS
    <2>2. QED
      BY <1>2, <2>1, LeastNatural
  <1>4. PICK q \in WalksOver(V, E, m) :
          q[m] = p[n] /\ WalkWeight(q, w) <= WalkWeight(p, w)
    OBVIOUS
  <1>5. m \in Nat \ {0} /\ Cardinality(V) \in Nat
    BY FS_CardinalityType
  <1>6. m <= Cardinality(V)
    <2> SUFFICES ASSUME m > Cardinality(V) PROVE FALSE
      BY <1>5
    <2>1. PICK s \in [1..m -> Int] : IsSums(s, q, m, w) /\ WalkWeight(q, w) = s[m]
      BY <1>5, WeightIsLastSum
    <2>2. PICK i \in 1..m, j \in 1..m :
            /\ i < j /\ q[i] = q[j]
            /\ \E k \in 3..(Cardinality(V) + 1) : \E c \in SimpleClosed(V, E, k) :
                 Rises(s, i, j, WalkWeight(c, w))
      <3> HIDE DEF Lengths
      <3>1. QED
        BY <1>5, <2>1, SimplePart
    <2>3. s[j] - s[i] >= 0
      BY <2>2 DEF Rises
    <2> DEFINE l == m - (j - i)
               r == Cut(q, m, i, j)
    <2>4. /\ r \in WalksOver(V, E, l) /\ r[l] = q[m]
          /\ Saves(q, r, s, i, j, w)
      <3>1. i <= j /\ q[i] = q[j] /\ l \in Nat /\ l = m - (j - i)
        BY <1>5, <2>2
      <3> HIDE DEF Lengths, l
      <3>2. Cut(q, m, i, j) \in WalksOver(V, E, l)
        BY <1>5, <2>1, <3>1, CutIsWalk
      <3>3. Cut(q, m, i, j)[l] = q[m]
        <4>1. l \in 1..l /\ l + (j - i) = m /\ (l <= i => l = i /\ j = m)
          BY <1>5, <2>2, <3>1
        <4>2. QED
          BY <3>1, <4>1 DEF Cut
      <3>4. Saves(q, Cut(q, m, i, j), s, i, j, w)
        BY <1>5, <2>1, <3>1, CutIsWalk
      <3>5. QED
        BY <3>2, <3>3, <3>4
    <2>5. WalkWeight(r, w) <= WalkWeight(p, w)
      <3>1. s[j] \in Int /\ s[i] \in Int /\ s[m] \in Int
        BY <1>5, <2>1 DEF IsSums
      <3>2. QED
        BY <1>1, <1>4, <2>1, <2>3, <2>4, <3>1 DEF Saves
    <2>6. l \in Nat \ {0} /\ l < m
      BY <1>5, <2>2
    <2>7. l \in Lengths
      BY <1>4, <2>4, <2>5, <2>6
    <2>8. QED
      BY <1>3, <1>5, <2>6, <2>7
  <1>7. QED
    BY <1>4, <1>5, <1>6
=============================================================================
