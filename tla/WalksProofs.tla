---------------------------- MODULE WalksProofs ----------------------------
(***************************************************************************)
(* What the walks of module Walks do, for every length: facts that the     *)
(* proofs about chains, trees and paths cite.                              *)
(*                                                                         *)
(* The induction theorems of the library take a predicate as parameter;    *)
(* here induction is over a set of numbers, which comes to the same.       *)
(***************************************************************************)
EXTENDS Walks, Integers, WellFoundedInduction, SequenceTheorems, FiniteSetTheorems, TLAPS

\* Every set of numbers that is not empty has a least element.
LEMMA NatMin ==
  ASSUME NEW T \in SUBSET Nat, T # {}
  PROVE  \E n \in T : \A m \in T : n <= m
<1>1. IsWellFoundedOn(OpToRel(<,Nat), Nat)
  BY NatLessThanWellFounded
<1>2. PICK x \in T : \A y \in T : ~(<<y, x>> \in OpToRel(<,Nat))
  BY <1>1, WFMin
<1>3. \A y \in T : ~(y < x)
  BY <1>2 DEF OpToRel
<1>4. \A y \in T : x <= y
  BY <1>3
<1>5. QED
  BY <1>4

\* A set of numbers that has 0 and with each number the next one has them all.
LEMMA NatInd ==
  ASSUME NEW T, 0 \in T, \A n \in Nat : n \in T => n + 1 \in T
  PROVE  Nat \subseteq T
<1>. SUFFICES ASSUME Nat \ T # {} PROVE FALSE
  OBVIOUS
<1>1. PICK n \in Nat \ T : \A m \in Nat \ T : n <= m
  BY NatMin
<1>2. n # 0
  OBVIOUS
<1>3. n - 1 \in Nat
  BY <1>2
<1>4. n - 1 \in T
  BY <1>1, <1>3
<1>5. QED
  BY <1>3, <1>4

\* The same for the numbers from one to another.
LEMMA RangeInd ==
  ASSUME NEW m \in Nat, NEW N \in Nat, NEW T, m \in T,
         \A n \in m .. N - 1 : n \in T => n + 1 \in T
  PROVE  m .. N \subseteq T
<1> DEFINE U == {n \in Nat : m + n <= N => m + n \in T}
<1>1. m + 0 \in T
  OBVIOUS
<1>2. ASSUME NEW n \in Nat, n \in U PROVE n + 1 \in U
  <2>1. ASSUME m + (n + 1) <= N PROVE m + (n + 1) \in T
    <3>1. m + n \in m .. N - 1 /\ m + n \in T /\ (m + n) + 1 = m + (n + 1)
      BY <1>2, <2>1
    <3>2. QED BY <3>1
  <2>2. QED BY <2>1
<1>3. Nat \subseteq U
  <2>1. 0 \in U
    BY <1>1
  <2> HIDE DEF U
  <2>2. QED BY <1>2, <2>1, NatInd
<1>4. ASSUME NEW k \in m .. N PROVE k \in T
  <2>1. k - m \in Nat /\ m + (k - m) = k
    OBVIOUS
  <2>2. k - m \in U
    BY <1>3, <2>1
  <2>3. QED BY <2>1, <2>2
<1>5. QED
  BY <1>4

\* f is a sequence of n + 1 places, as Along describes them.
IsAlong(f, F, a, n) == f[0] = a /\ \A i \in 1 .. n : f[i] = F[i][f[i - 1]]

\* For every length there is a sequence of places as Along describes them.
LEMMA AlongExists ==
  ASSUME NEW N \in Nat, NEW S, NEW a \in S, NEW F, \A i \in 1 .. N, x \in S : F[i][x] \in S
  PROVE  \E f \in [0 .. N -> S] : IsAlong(f, F, a, N)
<1> DEFINE Good(n) == \E f \in [0 .. n -> S] : IsAlong(f, F, a, n)
           T == {n \in 0 .. N : Good(n)}
<1>1. Good(0)
  <2>1. [i \in 0 .. 0 |-> a] \in [0 .. 0 -> S]
    OBVIOUS
  <2>2. IsAlong([i \in 0 .. 0 |-> a], F, a, 0)
    BY DEF IsAlong
  <2>3. QED
    BY <2>1, <2>2
<1>2. ASSUME NEW n \in 0 .. N - 1, Good(n) PROVE Good(n + 1)
  <2>1. PICK f \in [0 .. n -> S] : IsAlong(f, F, a, n)
    BY <1>2
  <2> DEFINE g == [i \in 0 .. n + 1 |-> IF i = n + 1 THEN F[n + 1][f[n]] ELSE f[i]]
  <2>2. F[n + 1][f[n]] \in S
    <3>1. n + 1 \in 1 .. N /\ f[n] \in S
      BY <2>1
    <3>2. QED BY <3>1
  <2>3. g \in [0 .. n + 1 -> S]
    BY <2>1, <2>2
  <2>4. g[0] = a
    BY <2>1 DEF IsAlong
  <2>5. ASSUME NEW i \in 1 .. n + 1 PROVE g[i] = F[i][g[i - 1]]
    <3>1. CASE i = n + 1
      BY <3>1
    <3>2. CASE i \in 1 .. n
      BY <3>2, <2>1 DEF IsAlong
    <3>3. QED BY <3>1, <3>2
  <2>6. IsAlong(g, F, a, n + 1)
    BY <2>4, <2>5 DEF IsAlong
  <2> HIDE DEF g
  <2>7. QED
    BY <2>3, <2>6
<1> HIDE DEF Good
<1>3. 0 \in T /\ \A n \in 0 .. N - 1 : n \in T => n + 1 \in T
  BY <1>1, <1>2
<1>4. 0 .. N \subseteq T
  <2> HIDE DEF T
  <2> QED BY <1>3, RangeInd
<1>5. N \in 0 .. N
  OBVIOUS
<1>6. Good(N)
  BY <1>4, <1>5
<1>7. QED
  BY <1>6 DEF Good

\* A walk under functions from a set to itself: it starts at a, every step
\* applies its function, and it never leaves the set.
LEMMA AlongDef ==
  ASSUME NEW N \in Nat, NEW S, NEW a \in S, NEW F, \A i \in 1 .. N, x \in S : F[i][x] \in S
  PROVE  /\ Along(F, a, N) \in [0 .. N -> S]
         /\ IsAlong(Along(F, a, N), F, a, N)
<1>0. \E f \in [0 .. N -> S] : IsAlong(f, F, a, N)
  BY AlongExists
<1> DEFINE Q(g) == g = [i \in 0 .. N |-> IF i = 0 THEN a ELSE F[i][g[i - 1]]]
           w == Along(F, a, N)
<1>1. \E f \in [0 .. N -> S] : Q(f)
  <2>1. PICK f \in [0 .. N -> S] : IsAlong(f, F, a, N)
    BY <1>0
  <2>2. \A i \in 0 .. N : f[i] = IF i = 0 THEN a ELSE F[i][f[i - 1]]
    BY <2>1 DEF IsAlong
  <2>3. QED BY <2>2
<1>2. w = CHOOSE g : Q(g)
  BY DEF Along
<1>3. Q(w)
  <2> HIDE DEF Q
  <2> QED BY <1>1, <1>2
<1>4. w = [i \in 0 .. N |-> IF i = 0 THEN a ELSE F[i][w[i - 1]]]
  BY <1>3
<1> HIDE DEF w, Q
<1>5. w[0] = a /\ \A i \in 1 .. N : w[i] = F[i][w[i - 1]]
  BY <1>4
<1> DEFINE T == {n \in Nat : n <= N => w[n] \in S}
<1>6. 0 \in T /\ \A n \in Nat : n \in T => n + 1 \in T
  <2>1. ASSUME NEW n \in Nat, n \in T, n + 1 <= N PROVE w[n + 1] \in S
    <3>1. w[n] \in S
      BY <2>1
    <3>2. n + 1 \in 1 .. N /\ (n + 1) - 1 = n
      BY <2>1
    <3>3. w[n + 1] = F[n + 1][w[n]]
      BY <3>2, <1>5
    <3>4. QED BY <3>1, <3>2, <3>3
  <2>2. QED BY <2>1, <1>5
<1>7. Nat \subseteq T
  <2> HIDE DEF T
  <2> QED BY <1>6, NatInd
<1>8. \A n \in 0 .. N : w[n] \in S
  BY <1>7
<1>9. w \in [0 .. N -> S]
  BY <1>4, <1>8
<1>10. QED
  BY <1>5, <1>9 DEF w, IsAlong

\* A walk stays in any part of the set that it starts in and that the functions
\* do not lead out of.
LEMMA AlongStays ==
  ASSUME NEW N \in Nat, NEW S, NEW a \in S, NEW F, \A i \in 1 .. N, x \in S : F[i][x] \in S,
         NEW R \in SUBSET S, a \in R, \A i \in 1 .. N, x \in R : F[i][x] \in R
  PROVE  \A i \in 0 .. N : Along(F, a, N)[i] \in R
<1> DEFINE w == Along(F, a, N)
           T == {n \in Nat : n <= N => w[n] \in R}
<1>1. w[0] = a /\ \A i \in 1 .. N : w[i] = F[i][w[i - 1]]
  BY AlongDef DEF IsAlong
<1> HIDE DEF w
<1>2. 0 \in T /\ \A n \in Nat : n \in T => n + 1 \in T
  <2>1. ASSUME NEW n \in Nat, n \in T, n + 1 <= N PROVE w[n + 1] \in R
    <3>1. w[n] \in R
      BY <2>1
    <3>2. n + 1 \in 1 .. N /\ (n + 1) - 1 = n
      BY <2>1
    <3>3. w[n + 1] = F[n + 1][w[n]]
      BY <3>2, <1>1
    <3>4. QED BY <3>1, <3>2, <3>3
  <2>2. QED BY <2>1, <1>1
<1>3. Nat \subseteq T
  <2> HIDE DEF T
  <2> QED BY <1>2, NatInd
<1>4. QED
  BY <1>3 DEF w

\* f is a sequence of n + 1 places, as Walk describes them.
IsWalk(f, F, a, n) == f[0] = a /\ \A i \in 1 .. n : f[i] = F[f[i - 1]]

\* The same for a walk under one function.
LEMMA WalkDef ==
  ASSUME NEW N \in Nat, NEW S, NEW a \in S, NEW F, \A x \in S : F[x] \in S
  PROVE  /\ Walk(F, a, N) \in [0 .. N -> S]
         /\ IsWalk(Walk(F, a, N), F, a, N)
<1> DEFINE G == [i \in 1 .. N |-> F]
<1>1. \A i \in 1 .. N, x \in S : G[i][x] = F[x]
  OBVIOUS
<1>2. Walk(F, a, N) = Along(G, a, N)
  BY DEF Walk
<1> HIDE DEF G
<1>3. Along(G, a, N) \in [0 .. N -> S] /\ IsAlong(Along(G, a, N), G, a, N)
  BY <1>1, AlongDef
<1>4. QED
  BY <1>1, <1>2, <1>3 DEF IsAlong, IsWalk

\* A walk stays in any part of the set that it starts in and that the function
\* does not lead out of.
LEMMA WalkStays ==
  ASSUME NEW N \in Nat, NEW S, NEW a \in S, NEW F, \A x \in S : F[x] \in S,
         NEW R \in SUBSET S, a \in R, \A x \in R : F[x] \in R
  PROVE  \A i \in 0 .. N : Walk(F, a, N)[i] \in R
<1> DEFINE G == [i \in 1 .. N |-> F]
<1>1. /\ \A i \in 1 .. N, x \in S : G[i][x] \in S
      /\ \A i \in 1 .. N, x \in R : G[i][x] \in R
  OBVIOUS
<1>2. Walk(F, a, N) = Along(G, a, N)
  BY DEF Walk
<1> HIDE DEF G
<1>3. QED
  BY <1>1, <1>2, AlongStays

\* F leads from every part of U to a part of U that has its elements.
Grows(F, U) == \A x \in SUBSET U : F[x] \in SUBSET U /\ x \subseteq F[x]

\* A walk among the subsets of a finite set that never loses an element stands
\* still after as many steps as that set has elements.
LEMMA WalkCloses ==
  ASSUME NEW U, IsFiniteSet(U), NEW a \in SUBSET U, NEW F,
         Grows(F, U),
         NEW W, W = Walk(F, a, Cardinality(U))[Cardinality(U)]
  PROVE  W \in SUBSET U /\ F[W] = W
<1> DEFINE N == Cardinality(U)
           S == SUBSET U
           w == Walk(F, a, N)
           T == {i \in 0 .. N : F[w[i]] = w[i] \/ i <= Cardinality(w[i])}
<1>1. N \in Nat
  BY FS_CardinalityType
<1>2. (\A x \in S : F[x] \in S /\ x \subseteq F[x]) /\ a \in S
  BY DEF Grows
<1>3. \A x \in S : IsFiniteSet(x) /\ Cardinality(x) \in Nat
  BY FS_Subset, FS_CardinalityType
<1>4. w \in [0 .. N -> S] /\ IsWalk(w, F, a, N)
  <2> HIDE DEF N, S
  <2> QED BY <1>1, <1>2, WalkDef
<1> HIDE DEF w
<1>5. ASSUME NEW i \in 0 .. N - 1, i \in T PROVE i + 1 \in T
  <2>1. /\ i \in 0 .. N /\ i + 1 \in 0 .. N /\ w[i] \in S /\ w[i + 1] \in S
        /\ w[i + 1] = F[w[i]]
    <3>1. i \in 0 .. N /\ i + 1 \in 1 .. N /\ (i + 1) - 1 = i
      BY <1>1
    <3>2. w[i + 1] = F[w[(i + 1) - 1]]
      BY <1>4, <3>1 DEF IsWalk
    <3>3. QED BY <1>4, <3>1, <3>2
  <2>2. CASE F[w[i]] = w[i]
    BY <2>1, <2>2
  <2>3. CASE F[w[i]] # w[i] /\ i <= Cardinality(w[i])
    <3>1. w[i] \in SUBSET w[i + 1] /\ w[i] # w[i + 1]
      BY <1>2, <2>1, <2>3
    <3>2. /\ Cardinality(w[i]) <= Cardinality(w[i + 1])
          /\ Cardinality(w[i]) # Cardinality(w[i + 1])
      BY <1>3, <2>1, <3>1, FS_Subset
    <3>3. Cardinality(w[i]) \in Nat /\ Cardinality(w[i + 1]) \in Nat
      BY <1>3, <2>1
    <3>4. i + 1 <= Cardinality(w[i + 1])
      BY <2>3, <3>2, <3>3
    <3>5. QED BY <2>1, <3>4
  <2>4. QED BY <1>5, <2>2, <2>3
<1>6. 0 \in T
  <2>1. 0 \in 0 .. N /\ w[0] \in S
    BY <1>1, <1>4
  <2>2. Cardinality(w[0]) \in Nat
    BY <1>3, <2>1
  <2>3. QED BY <2>1, <2>2
<1>7. N \in T
  <2> HIDE DEF T, N
  <2>1. 0 .. N \subseteq T
    BY <1>1, <1>5, <1>6, RangeInd
  <2>2. QED BY <1>1, <2>1
<1>8. w[N] \in S
  BY <1>1, <1>4
<1>9. F[w[N]] = w[N]
  <2>1. CASE N <= Cardinality(w[N])
    <3>1. Cardinality(w[N]) <= Cardinality(U) /\ Cardinality(w[N]) \in Nat
          /\ (Cardinality(U) = Cardinality(w[N]) => U = w[N])
      BY <1>3, <1>8, FS_Subset
    <3>2. U = w[N]
      BY <1>1, <2>1, <3>1
    <3>3. F[U] \in SUBSET U /\ U \subseteq F[U]
      BY <1>2
    <3>4. QED BY <3>2, <3>3
  <2>2. QED BY <1>7, <2>1
<1>10. QED
  BY <1>8, <1>9 DEF w

\* g[i][x] is what is gathered in i steps from x.
IsGathering(g, F, G, S, n) ==
    /\ \A x \in S : g[0][x] = <<>>
    /\ \A i \in 1 .. n : \A x \in S : g[i][x] = G[x] \o g[i - 1][F[x]]

\* What is gathered along a walk that stays in a set: nothing in no step, and in
\* one step more what the start has, in front of what the rest of the walk has.
LEMMA GatheredDef ==
  ASSUME NEW n \in Nat, NEW S, NEW V, NEW F \in [S -> S], NEW G \in [S -> Seq(V)], NEW a \in S
  PROVE  \E g \in [0 .. n -> [S -> Seq(V)]] :
            Gathered(F, G, a, n) = g[n][a] /\ IsGathering(g, F, G, S, n)
<1> DEFINE X == [S -> Seq(V)]
           none == [x \in S |-> <<>>]
           step(g) == [x \in S |-> G[x] \o g[F[x]]]
           H == [i \in 1 .. n |-> [g \in X |-> step(g)]]
           w == Along(H, none, n)
           Q(g) == g = [i \in 0 .. n |-> [x \in DOMAIN F |->
                          IF i = 0 THEN <<>> ELSE G[x] \o g[i - 1][F[x]]]]
           c == CHOOSE g : Q(g)
<1>1. none \in X
  OBVIOUS
<1>2. ASSUME NEW g \in X PROVE step(g) \in X
  <2>1. ASSUME NEW x \in S PROVE G[x] \o g[F[x]] \in Seq(V)
    <3>1. G[x] \in Seq(V) /\ g[F[x]] \in Seq(V)
      OBVIOUS
    <3> QED
      BY <3>1
  <2> QED
    BY <2>1
<1>3. \A i \in 1 .. n : \A g \in X : H[i][g] = step(g)
  OBVIOUS
<1>4. \A i \in 1 .. n : \A g \in X : H[i][g] \in X
  BY <1>2, <1>3
<1>5. w \in [0 .. n -> X] /\ IsAlong(w, H, none, n)
  <2> HIDE DEF X, H, none
  <2> QED
    BY <1>1, <1>4, AlongDef
<1>6. w[0] = none /\ \A i \in 1 .. n : w[i] = step(w[i - 1])
  <2>1. w[0] = none /\ \A i \in 1 .. n : w[i] = H[i][w[i - 1]]
    BY <1>5 DEF IsAlong
  <2>2. ASSUME NEW i \in 1 .. n PROVE w[i - 1] \in X
    <3>1. i - 1 \in 0 .. n
      OBVIOUS
    <3> HIDE DEF w, X
    <3> QED
      BY <1>5, <3>1
  <2> HIDE DEF w, H, X, step
  <2> QED
    BY <2>1, <2>2, <1>3
<1>7. \E g : Q(g)
  <2> HIDE DEF w
  <2>1. \A i \in 0 .. n : w[i] = [x \in S |-> IF i = 0 THEN <<>> ELSE G[x] \o w[i - 1][F[x]]]
    <3>1. ASSUME NEW i \in 1 .. n
          PROVE  w[i] = [x \in S |-> IF i = 0 THEN <<>> ELSE G[x] \o w[i - 1][F[x]]]
      BY <1>6
    <3>2. w[0] = [x \in S |-> IF 0 = 0 THEN <<>> ELSE G[x] \o w[0 - 1][F[x]]]
      BY <1>6
    <3> SUFFICES ASSUME NEW i \in 0 .. n
                 PROVE  w[i] = [x \in S |-> IF i = 0 THEN <<>> ELSE G[x] \o w[i - 1][F[x]]]
      OBVIOUS
    <3>3. CASE i = 0
      BY <3>2, <3>3
    <3>4. CASE i # 0
      <4>1. i \in 1 .. n
        BY <3>4
      <4> QED
        BY <3>1, <4>1
    <3> QED
      BY <3>3, <3>4
  <2>2. w = [i \in 0 .. n |-> w[i]]
    BY <1>5
  <2>3. Q(w)
    BY <2>1, <2>2
  <2> QED
    BY <2>3
<1>8. Q(c)
  <2> HIDE DEF Q
  <2> QED
    BY <1>7
<1>9. Gathered(F, G, a, n) = c[n][a]
  BY DEF Gathered
<1> HIDE DEF c
<1>10. /\ \A x \in S : c[0][x] = <<>>
       /\ \A i \in 1 .. n : \A x \in S : c[i][x] = G[x] \o c[i - 1][F[x]]
  <2>1. \A i \in 0 .. n : c[i] = [x \in S |-> IF i = 0 THEN <<>> ELSE G[x] \o c[i - 1][F[x]]]
    BY <1>8
  <2>2. ASSUME NEW x \in S PROVE c[0][x] = <<>>
    <3>1. c[0] = [y \in S |-> IF 0 = 0 THEN <<>> ELSE G[y] \o c[0 - 1][F[y]]]
      BY <2>1
    <3> QED
      BY <3>1
  <2>3. ASSUME NEW i \in 1 .. n, NEW x \in S PROVE c[i][x] = G[x] \o c[i - 1][F[x]]
    <3>1. i \in 0 .. n /\ i # 0
      OBVIOUS
    <3>2. c[i] = [y \in S |-> IF i = 0 THEN <<>> ELSE G[y] \o c[i - 1][F[y]]]
      BY <2>1, <3>1
    <3>3. c[i] = [y \in S |-> G[y] \o c[i - 1][F[y]]]
      BY <3>1, <3>2
    <3> QED
      BY <3>3
  <2> QED
    BY <2>2, <2>3
<1>11. \A i \in 0 .. n : c[i] = w[i]
  <2> DEFINE T == {i \in 0 .. n : c[i] = w[i]}
  <2> HIDE DEF w
  <2>1. 0 \in T
    BY <1>8, <1>6
  <2>2. ASSUME NEW i \in 0 .. n - 1, i \in T PROVE i + 1 \in T
    <3>1. i + 1 \in 1 .. n /\ (i + 1) - 1 = i /\ i + 1 # 0 /\ i + 1 \in 0 .. n
      OBVIOUS
    <3>2. c[i + 1] = [x \in DOMAIN F |-> G[x] \o c[(i + 1) - 1][F[x]]]
      BY <1>8, <3>1
    <3>3. w[i + 1] = step(w[(i + 1) - 1])
      BY <1>6, <3>1
    <3>4. c[i] = w[i]
      BY <2>2
    <3> QED
      BY <3>1, <3>2, <3>3, <3>4
  <2>3. 0 .. n \subseteq T
    <3> HIDE DEF T
    <3> QED
      BY <2>1, <2>2, RangeInd
  <2> QED
    BY <2>3
<1>12. c \in [0 .. n -> X]
  <2>1. DOMAIN c = 0 .. n /\ c = [i \in 0 .. n |-> c[i]]
    BY <1>8
  <2>2. \A i \in 0 .. n : c[i] \in X
    <3> HIDE DEF w, X, Q
    <3> QED
      BY <1>11, <1>5
  <2> HIDE DEF Q, X
  <2> QED
    BY <2>1, <2>2
<1> QED
  BY <1>9, <1>10, <1>12 DEF IsGathering

\* At a place where the walk stays and where there is nothing, nothing is gathered.
Barren(F, G, z) == F[z] = z /\ G[z] = <<>>
Bare(g, n, z) == \A q \in 0 .. n : g[q][z] = <<>>

LEMMA GatheredNothing ==
  ASSUME NEW n \in Nat, NEW S, NEW F, NEW G, NEW g, IsGathering(g, F, G, S, n),
         NEW z \in S, Barren(F, G, z)
  PROVE  Bare(g, n, z)
<1> DEFINE T == {q \in 0 .. n : g[q][z] = <<>>}
<1>1. 0 \in T
  BY DEF IsGathering
<1>2. ASSUME NEW q \in 0 .. n - 1, q \in T PROVE q + 1 \in T
  <2>1. q + 1 \in 1 .. n /\ (q + 1) - 1 = q
    OBVIOUS
  <2>2. g[q + 1][z] = G[z] \o g[(q + 1) - 1][F[z]]
    BY <2>1 DEF IsGathering
  <2>3. g[q + 1][z] = <<>> \o <<>>
    BY <2>1, <2>2, <1>2 DEF Barren
  <2> QED
    BY <2>1, <2>3
<1>3. 0 .. n \subseteq T
  <2> HIDE DEF T
  <2> QED
    BY <1>1, <1>2, RangeInd
<1> QED
  BY <1>3 DEF Bare

\* x begins with what R has behind its first p elements.
BeginsWith(x, R, p) ==
    /\ Len(x) >= Len(R) - p
    /\ \A i \in 1 .. Len(R) - p : x[i] = R[p + i]

\* It has nothing more.
EndsWith(x, R, p) == Len(x) = Len(R) - p

\* x is what R has behind its first p elements up to number q.
IsPiece(x, R, p, q) ==
    /\ q <= Len(R) /\ Len(x) = q - p
    /\ \A i \in 1 .. Len(x) : x[i] = R[p + i]

LEMMA BeginsWithMore ==
  ASSUME NEW V, NEW R \in Seq(V), NEW x \in Seq(V), NEW y \in Seq(V),
         NEW p \in Nat, NEW q \in Nat, BeginsWith(y, R, q), IsPiece(x, R, p, q),
         NEW z, z = x \o y
  PROVE  /\ BeginsWith(z, R, p)
         /\ EndsWith(y, R, q) => EndsWith(z, R, p)
<1> USE DEF IsPiece, EndsWith
<1>1. Len(z) = Len(x) + Len(y) /\ Len(x) \in Nat /\ Len(y) \in Nat /\ Len(R) \in Nat
  BY ConcatProperties, LenProperties
<1>2. p <= q
  BY <1>1
<1>3. ASSUME NEW i \in 1 .. Len(R) - p PROVE z[i] = R[p + i]
  <2>1. CASE i <= Len(x)
    <3>1. i \in 1 .. Len(x)
      BY <1>1, <2>1
    <3>2. z[i] = x[i]
      BY <3>1
    <3> QED
      BY <3>1, <3>2
  <2>2. CASE i > Len(x)
    <3>1. i - Len(x) \in 1 .. Len(R) - q /\ q + (i - Len(x)) = p + i
      BY <1>1, <2>2
    <3>2. y[i - Len(x)] = R[p + i]
      BY <3>1 DEF BeginsWith
    <3>3. i \in Len(x) + 1 .. Len(x) + Len(y)
      BY <1>1, <2>2, <3>1 DEF BeginsWith
    <3>4. z[i] = y[i - Len(x)]
      <4>1. \A k \in 1 .. Len(x) + Len(y) :
               (x \o y)[k] = IF k <= Len(x) THEN x[k] ELSE y[k - Len(x)]
        BY ONLY x \in Seq(V), y \in Seq(V), ConcatProperties
      <4>2. i \in 1 .. Len(x) + Len(y) /\ ~(i <= Len(x))
        BY <1>1, <2>2, <3>3
      <4> QED
        BY <4>1, <4>2
    <3> QED
      BY <3>2, <3>4
  <2>3. i <= Len(x) \/ i > Len(x)
    BY <1>1
  <2> QED
    BY <2>1, <2>2, <2>3
<1>4. Len(z) >= Len(R) - p /\ (Len(y) = Len(R) - q => Len(z) = Len(R) - p)
  BY <1>1, <1>2 DEF BeginsWith
<1> QED
  BY <1>3, <1>4 DEF BeginsWith

\* W are the first m + 1 places of a walk; what there is at the first m of them are
\* the pieces of R, o saying where they end.
Follows(W, F, m) == \A j \in 1 .. m : F[W[j]] = W[j + 1]
Pieces(R, o, G, W, m) ==
    o[m] = Len(R) /\ \A j \in 1 .. m : IsPiece(G[W[j]], R, o[j - 1], o[j])

\* When the first places of the walk are known, and what there is at each of them
\* is the next piece of a sequence R, o saying where the pieces end, the walk
\* gathers R, from o[0] on, and nothing else if it ends where there is nothing.
LEMMA GatheredAlong ==
  ASSUME NEW n \in Nat, NEW S, NEW V, NEW F \in [S -> S], NEW G \in [S -> Seq(V)],
         NEW m \in 0 .. n, NEW E \in [1 .. m + 1 -> S], Follows(E, F, m),
         NEW R \in Seq(V), NEW o \in [0 .. m -> Nat], Pieces(R, o, G, E, m)
  PROVE  /\ Gathered(F, G, E[1], n) \in Seq(V)
         /\ BeginsWith(Gathered(F, G, E[1], n), R, o[0])
         /\ F[E[m + 1]] = E[m + 1] /\ G[E[m + 1]] = <<>>
            => EndsWith(Gathered(F, G, E[1], n), R, o[0])
<1> DEFINE z == E[m + 1]
           whole == F[z] = z /\ G[z] = <<>>
           Prefix(x, p) == BeginsWith(x, R, p) /\ (whole => EndsWith(x, R, p))
<1>0. E[1] \in S /\ z \in S
  OBVIOUS
<1>m. m \in Nat
  OBVIOUS
<1>1. PICK g \in [0 .. n -> [S -> Seq(V)]] :
         Gathered(F, G, E[1], n) = g[n][E[1]] /\ IsGathering(g, F, G, S, n)
  BY <1>0, GatheredDef
<1> DEFINE Good(k) == \A q \in k .. n : Prefix(g[q][E[m + 1 - k]], o[m - k])
           T == {k \in 0 .. m : Good(k)}
<1>2. 0 \in T
  <2> SUFFICES ASSUME NEW q \in 0 .. n PROVE Prefix(g[q][z], Len(R))
    BY DEF Pieces
  <2>1. g[q][z] \in Seq(V)
    BY <1>0, <1>1
  <2>2. ASSUME whole PROVE g[q][z] = <<>>
    <3>1. F[z] = z /\ G[z] = <<>>
      BY <2>2
    <3>2. IsGathering(g, F, G, S, n) /\ z \in S
      BY <1>0, <1>1
    <3> HIDE DEF z
    <3>3. \A r \in 0 .. n : g[r][z] = <<>>
      <4>1. PICK a : a = z
        OBVIOUS
      <4>2. n \in Nat /\ IsGathering(g, F, G, S, n) /\ a \in S /\ Barren(F, G, a)
        BY <3>1, <3>2, <4>1 DEF Barren
      <4>3. Bare(g, n, a)
        BY ONLY <4>2, GatheredNothing
      <4> QED
        BY <4>1, <4>3 DEF Bare
    <3> QED
      BY <3>3
  <2>3. Len(R) \in Nat /\ Len(g[q][z]) \in Nat
    BY <2>1, LenProperties
  <2> HIDE DEF whole, z
  <2> QED
    BY <2>2, <2>3 DEF BeginsWith, EndsWith
<1>3. ASSUME NEW k \in 0 .. m - 1, k \in T PROVE k + 1 \in T
  <2> DEFINE j == m - k
  <2>1. /\ j \in 1 .. m /\ m + 1 - (k + 1) = j /\ m - (k + 1) = j - 1
        /\ m + 1 - k = j + 1 /\ k + 1 \in 0 .. m /\ j - 1 \in 0 .. m /\ j \in 0 .. m
    <3> SUFFICES ASSUME NEW mm \in Nat, NEW kk \in 0 .. mm - 1, NEW jj, jj = mm - kk
                 PROVE  /\ jj \in 1 .. mm /\ mm + 1 - (kk + 1) = jj /\ mm - (kk + 1) = jj - 1
                        /\ mm + 1 - kk = jj + 1 /\ kk + 1 \in 0 .. mm /\ jj - 1 \in 0 .. mm
                        /\ jj \in 0 .. mm
      BY <1>m
    <3> QED
      OBVIOUS
  <2> HIDE DEF j, whole
  <2> SUFFICES ASSUME NEW q \in k + 1 .. n
               PROVE  Prefix(g[q][E[j]], o[j - 1])
    BY <2>1
  <2>2. q - 1 \in k .. n /\ q \in 1 .. n /\ q - 1 \in 0 .. n
    OBVIOUS
  <2>3. Prefix(g[q - 1][E[j + 1]], o[j])
    <3>1. Good(k)
      BY <1>3
    <3>2. Prefix(g[q - 1][E[m + 1 - k]], o[m - k])
      BY <3>1, <2>2
    <3> QED
      BY <3>2, <2>1 DEF j
  <2>4. E[j] \in S /\ E[j + 1] \in S /\ F[E[j]] = E[j + 1]
    <3>1. j \in 1 .. m + 1 /\ j + 1 \in 1 .. m + 1
      BY <1>m, <2>1
    <3> QED
      BY <2>1, <3>1 DEF Follows
  <2> DEFINE x == G[E[j]]
             y == g[q - 1][E[j + 1]]
             xy == g[q][E[j]]
  <2>5. xy = x \o y
    BY <2>2, <2>4, <1>1 DEF IsGathering
  <2>6. x \in Seq(V) /\ y \in Seq(V)
    BY <2>2, <2>4, <1>1
  <2>7. o[j] \in Nat /\ o[j - 1] \in Nat /\ IsPiece(x, R, o[j - 1], o[j])
    BY <2>1 DEF Pieces
  <2>8. BeginsWith(y, R, o[j]) /\ (whole => EndsWith(y, R, o[j]))
    BY <2>3
  <2>9. BeginsWith(xy, R, o[j - 1]) /\ (EndsWith(y, R, o[j]) => EndsWith(xy, R, o[j - 1]))
    <3>1. BeginsWith(y, R, o[j])
      BY <2>8
    <3> DEFINE oj == o[j]
               oi == o[j - 1]
    <3>2. oi \in Nat /\ oj \in Nat /\ IsPiece(x, R, oi, oj) /\ BeginsWith(y, R, oj)
      BY <2>7, <3>1
    <3> HIDE DEF x, y, xy, oi, oj
    <3>3. BeginsWith(xy, R, oi) /\ (EndsWith(y, R, oj) => EndsWith(xy, R, oi))
      BY <2>5, <2>6, <3>2, BeginsWithMore
    <3> QED
      BY <3>3 DEF oi, oj
  <2> HIDE DEF y
  <2> QED
    BY <2>8, <2>9
<1>4. 0 .. m \subseteq T
  <2> HIDE DEF T
  <2> QED
    BY <1>m, <1>2, <1>3, RangeInd
<1>5. Good(m)
  BY <1>m, <1>4
<1>6. m + 1 - m = 1 /\ m - m = 0 /\ n \in m .. n /\ n \in 0 .. n
  OBVIOUS
<1>7. Prefix(g[n][E[1]], o[0])
  <2> HIDE DEF Prefix
  <2> QED
    BY <1>5, <1>6
<1>8. g[n][E[1]] \in Seq(V)
  BY <1>0, <1>1, <1>6
<1> QED
  BY <1>1, <1>7, <1>8
=============================================================================
