---------------------------- MODULE AdfDirProofs ----------------------------
(***************************************************************************)
(* Theorems about AdfDir: for every set of blocks, every hash function,    *)
(* every set of names and every sound volume that the calls start from.    *)
(***************************************************************************)
EXTENDS AdfDirThreads, WalksProofs, FiniteSetTheorems

----------------------------------------------------------------------------
(* Chains.                                                                  *)

\* The number of blocks is a number.
LEMMA FuelIsNat == Fuel \in Nat
  BY ConstantsAssumption, FS_CardinalityType DEF Fuel

\* The steps of a chain, as equations.
LEMMA ChainSteps ==
  ASSUME NEW D \in [Blocks -> Headers], NEW d \in Blocks, NEW h \in Buckets
  PROVE  /\ ChainAt(D, d, h) \in [0 .. Fuel -> Pointers]
         /\ ChainAt(D, d, h)[0] = D[d].ht[h]
         /\ \A i \in 1 .. Fuel : ChainAt(D, d, h)[i] =
               IF ChainAt(D, d, h)[i - 1] = NoBlock THEN NoBlock
               ELSE D[ChainAt(D, d, h)[i - 1]].next
<1> DEFINE F == Successor(D)
           a == D[d].ht[h]
           w == ChainAt(D, d, h)
<1>1. a \in Pointers
  BY DEF Headers
<1>2. \A x \in Pointers : F[x] = IF x = NoBlock THEN NoBlock ELSE D[x].next
  BY DEF Successor
<1>3. \A x \in Pointers : F[x] \in Pointers
  BY <1>2 DEF Headers, Pointers
<1>4. w \in [0 .. Fuel -> Pointers] /\ IsWalk(w, F, a, Fuel)
  <2> HIDE DEF F, a
  <2>1. /\ Walk(F, a, Fuel) \in [0 .. Fuel -> Pointers]
        /\ IsWalk(Walk(F, a, Fuel), F, a, Fuel)
    BY <1>1, <1>3, FuelIsNat, WalkDef
  <2>2. w = Walk(F, a, Fuel)
    BY DEF ChainAt, F, a
  <2>3. QED BY <2>1, <2>2
<1> HIDE DEF F, w
<1>5. ASSUME NEW i \in 1 .. Fuel
      PROVE  w[i] = IF w[i - 1] = NoBlock THEN NoBlock ELSE D[w[i - 1]].next
  <2>1. w[i] = F[w[i - 1]]
    BY <1>4 DEF IsWalk
  <2>2. w[i - 1] \in Pointers
    BY <1>4, FuelIsNat
  <2>3. QED BY <1>2, <2>1, <2>2
<1>6. w[0] = D[d].ht[h]
  BY <1>4 DEF IsWalk
<1>7. QED
  BY <1>4, <1>5, <1>6 DEF w

\* Behind the end of a chain there is nothing.
LEMMA ChainStaysEnded ==
  ASSUME NEW D \in [Blocks -> Headers], NEW d \in Blocks, NEW h \in Buckets,
         NEW i \in 0 .. Fuel, ChainAt(D, d, h)[i] = NoBlock
  PROVE  \A j \in i .. Fuel : ChainAt(D, d, h)[j] = NoBlock
<1> DEFINE at == ChainAt(D, d, h)
           S == {j \in i .. Fuel : at[j] = NoBlock}
<1>1. \A k \in 1 .. Fuel : at[k] = IF at[k - 1] = NoBlock THEN NoBlock ELSE D[at[k - 1]].next
  BY ChainSteps
<1>2. at[i] = NoBlock
  OBVIOUS
<1> HIDE DEF at
<1>3. i \in S /\ Fuel \in Nat /\ i \in Nat
  BY <1>2, FuelIsNat
<1>4. ASSUME NEW n \in i .. Fuel - 1, n \in S PROVE n + 1 \in S
  <2>1. n + 1 \in 1 .. Fuel /\ (n + 1) - 1 = n /\ n + 1 \in i .. Fuel
    BY <1>3
  <2>2. at[n + 1] = NoBlock
    BY <1>1, <1>4, <2>1
  <2>3. QED BY <2>1, <2>2
<1>5. i .. Fuel \subseteq S
  <2> HIDE DEF S
  <2> QED BY <1>3, <1>4, RangeInd
<1>6. QED
  BY <1>5 DEF at

\* On a chain there are only linked entries of its directory and bucket.
LEMMA ChainLinked ==
  ASSUME NEW D \in [Blocks -> Headers], NEW T, NEW L, NEW B, NEW Q, NEW P,
         Threaded(D, T, L, B, Q, P), NEW d \in T, NEW h \in Buckets
  PROVE  \A i \in 0 .. Fuel : ChainAt(D, d, h)[i] # NoBlock =>
            /\ ChainAt(D, d, h)[i] \in L
            /\ D[ChainAt(D, d, h)[i]].parent = d
            /\ B[ChainAt(D, d, h)[i]] = h
<1> DEFINE at == ChainAt(D, d, h)
           Here(c) == c \in L /\ D[c].parent = d /\ B[c] = h
           S == {i \in 0 .. Fuel : at[i] # NoBlock => Here(at[i])}
<1>0. d \in Blocks /\ L \subseteq Blocks
  BY DEF Threaded, WitnessTypes
<1>1. /\ at[0] = D[d].ht[h]
      /\ \A k \in 1 .. Fuel : at[k] = IF at[k - 1] = NoBlock THEN NoBlock ELSE D[at[k - 1]].next
  BY ChainSteps, <1>0
<1> HIDE DEF at
<1>2. 0 \in S
  <2>1. at[0] # NoBlock => Here(at[0])
    BY <1>1 DEF Threaded, TablesLead
  <2>2. QED BY <2>1, FuelIsNat
<1>3. ASSUME NEW n \in 0 .. Fuel - 1, n \in S PROVE n + 1 \in S
  <2>1. n + 1 \in 1 .. Fuel /\ (n + 1) - 1 = n /\ n + 1 \in 0 .. Fuel
    BY FuelIsNat
  <2>2. ASSUME at[n + 1] # NoBlock PROVE Here(at[n + 1])
    <3>1. at[n] # NoBlock /\ at[n + 1] = D[at[n]].next
      BY <1>1, <2>1, <2>2
    <3>2. Here(at[n])
      BY <1>3, <3>1
    <3>3. QED BY <2>2, <3>1, <3>2 DEF Threaded, ChainsLead
  <2>3. QED BY <2>1, <2>2
<1>4. 0 .. Fuel \subseteq S
  <2> HIDE DEF S
  <2> QED BY <1>2, <1>3, RangeInd, FuelIsNat
<1>5. QED
  BY <1>4 DEF at

\* Along a chain the ranks grow.
LEMMA ChainRises ==
  ASSUME NEW D \in [Blocks -> Headers], NEW T, NEW L, NEW B, NEW Q, NEW P,
         Threaded(D, T, L, B, Q, P), NEW d \in T, NEW h \in Buckets,
         NEW i \in 0 .. Fuel
  PROVE  \A j \in i + 1 .. Fuel : ChainAt(D, d, h)[j] # NoBlock =>
            Q[ChainAt(D, d, h)[i]] < Q[ChainAt(D, d, h)[j]]
<1> DEFINE at == ChainAt(D, d, h)
           S == {j \in i + 1 .. Fuel : at[j] # NoBlock => Q[at[i]] < Q[at[j]]}
<1>0. d \in Blocks /\ L \subseteq Blocks /\ Q \in [Blocks -> Nat]
  BY DEF Threaded, WitnessTypes
<1>1. \A k \in 1 .. Fuel : at[k] = IF at[k - 1] = NoBlock THEN NoBlock ELSE D[at[k - 1]].next
  BY ChainSteps, <1>0
<1>2. \A k \in 0 .. Fuel : at[k] # NoBlock => at[k] \in L
  BY ChainLinked
<1> HIDE DEF at
\* One step.
<1>3. ASSUME NEW n \in 0 .. Fuel - 1, at[n + 1] # NoBlock
      PROVE  at[n] # NoBlock /\ at[n] \in L /\ at[n + 1] \in L /\ Q[at[n]] < Q[at[n + 1]]
  <2>1. n + 1 \in 1 .. Fuel /\ (n + 1) - 1 = n /\ n \in 0 .. Fuel /\ n + 1 \in 0 .. Fuel
    BY FuelIsNat
  <2>2. at[n] # NoBlock /\ at[n + 1] = D[at[n]].next
    BY <1>1, <1>3, <2>1
  <2>3. at[n] \in L /\ at[n + 1] \in L
    BY <1>2, <1>3, <2>1, <2>2
  <2>4. Q[at[n]] < Q[at[n + 1]]
    BY <1>3, <2>2, <2>3 DEF Threaded, ChainsLead
  <2>5. QED BY <2>2, <2>3, <2>4
<1>4. CASE i = Fuel
  BY <1>4, FuelIsNat
<1>5. CASE i < Fuel
  <2>1. i + 1 \in S
    <3>1. i \in 0 .. Fuel - 1 /\ i + 1 \in i + 1 .. Fuel
      BY <1>5, FuelIsNat
    <3>2. at[i + 1] # NoBlock => Q[at[i]] < Q[at[i + 1]]
      BY <1>3, <3>1
    <3>3. QED BY <3>1, <3>2
  <2>2. ASSUME NEW n \in i + 1 .. Fuel - 1, n \in S PROVE n + 1 \in S
    <3>1. n \in 0 .. Fuel - 1 /\ n + 1 \in i + 1 .. Fuel /\ i \in 0 .. Fuel
      BY FuelIsNat
    <3>2. ASSUME at[n + 1] # NoBlock PROVE Q[at[i]] < Q[at[n + 1]]
      <4>1. at[n] # NoBlock /\ at[n] \in L /\ at[n + 1] \in L /\ Q[at[n]] < Q[at[n + 1]]
        BY <1>3, <3>1, <3>2
      <4>2. Q[at[i]] < Q[at[n]]
        BY <2>2, <4>1
      <4>3. at[i] # NoBlock
        <5>1. at[i] = NoBlock => at[n] = NoBlock
          BY ChainStaysEnded, <1>0, FuelIsNat DEF at
        <5>2. QED BY <4>1, <5>1
      <4>4. at[i] \in L
        BY <1>2, <4>3
      <4>5. Q[at[i]] \in Nat /\ Q[at[n]] \in Nat /\ Q[at[n + 1]] \in Nat
        BY <1>0, <4>1, <4>4
      <4>6. QED BY <4>1, <4>2, <4>5
    <3>3. QED BY <3>1, <3>2
  <2>3. i + 1 .. Fuel \subseteq S
    <3>1. i + 1 \in Nat /\ Fuel \in Nat
      BY FuelIsNat
    <3> HIDE DEF S
    <3>2. QED BY <2>1, <2>2, <3>1, RangeInd
  <2>4. QED BY <2>3 DEF at
<1>6. QED
  BY <1>4, <1>5, FuelIsNat

\* Every chain ends: there are not blocks enough for one that goes on.
LEMMA ChainEnds ==
  ASSUME NEW D \in [Blocks -> Headers], NEW T, NEW L, NEW B, NEW Q, NEW P,
         Threaded(D, T, L, B, Q, P), NEW d \in T, NEW h \in Buckets
  PROVE  ChainAt(D, d, h)[Fuel] = NoBlock
<1> DEFINE at == ChainAt(D, d, h)
<1> SUFFICES ASSUME at[Fuel] # NoBlock PROVE FALSE
  OBVIOUS
<1>0. d \in Blocks /\ L \subseteq Blocks /\ Q \in [Blocks -> Nat]
  BY DEF Threaded, WitnessTypes
<1>1. at \in [0 .. Fuel -> Pointers]
  BY ChainSteps, <1>0
<1>2. \A i \in 0 .. Fuel : at[i] # NoBlock
  <2>1. ASSUME NEW i \in 0 .. Fuel, at[i] = NoBlock PROVE FALSE
    <3>1. \A j \in i .. Fuel : at[j] = NoBlock
      BY <2>1, <1>0, ChainStaysEnded
    <3>2. Fuel \in i .. Fuel
      BY FuelIsNat
    <3> HIDE DEF at
    <3>3. QED BY <3>1, <3>2
  <2>2. QED BY <2>1
<1>3. \A i \in 0 .. Fuel : \A j \in i + 1 .. Fuel : Q[at[i]] < Q[at[j]]
  BY <1>2, ChainRises, FuelIsNat
<1> HIDE DEF at
<1>4. at \in [0 .. Fuel -> Blocks]
  BY <1>1, <1>2 DEF Pointers
<1>5. IsFiniteSet(Blocks) /\ IsFiniteSet(0 .. Fuel) /\ Cardinality(Blocks) < Cardinality(0 .. Fuel)
  <2>1. IsFiniteSet(0 .. Fuel) /\ Cardinality(0 .. Fuel) = Fuel + 1
    BY FuelIsNat, FS_Interval
  <2>2. QED BY <2>1, ConstantsAssumption, FuelIsNat DEF Fuel
<1>6. PICK i \in 0 .. Fuel, j \in 0 .. Fuel : i # j /\ at[i] = at[j]
  BY <1>4, <1>5, FS_PigeonHole
<1>7. Q[at[i]] \in Nat /\ Q[at[j]] \in Nat
  BY <1>0, <1>4
<1>8. CASE i < j
  <2>1. j \in i + 1 .. Fuel
    BY <1>8
  <2>2. QED BY <1>3, <1>6, <1>7, <2>1
<1>9. CASE j < i
  <2>1. i \in j + 1 .. Fuel
    BY <1>9
  <2>2. QED BY <1>3, <1>6, <1>7, <2>1
<1>10. QED
  BY <1>6, <1>8, <1>9

\* A chain has every linked entry of its directory and bucket.
LEMMA ChainCovers ==
  ASSUME NEW D \in [Blocks -> Headers], NEW T, NEW L, NEW B, NEW Q, NEW P,
         Threaded(D, T, L, B, Q, P), NEW d \in T, NEW h \in Buckets,
         NEW e \in L, D[e].parent = d, B[e] = h
  PROVE  \E i \in 0 .. Fuel : ChainAt(D, d, h)[i] = e
<1> DEFINE at == ChainAt(D, d, h)
           Covered(c) == \E i \in 0 .. Fuel : at[i] = c
           X == {c \in L : D[c].parent = d /\ B[c] = h /\ ~Covered(c)}
<1> SUFFICES ASSUME ~Covered(e) PROVE FALSE
  OBVIOUS
<1>0. /\ d \in Blocks /\ L \subseteq Blocks /\ L \subseteq T
      /\ Q \in [Blocks -> Nat] /\ NoBlock \notin Blocks
  BY ConstantsAssumption DEF Threaded, WitnessTypes
<1>1. /\ at[0] = D[d].ht[h]
      /\ \A k \in 1 .. Fuel : at[k] = IF at[k - 1] = NoBlock THEN NoBlock ELSE D[at[k - 1]].next
  BY ChainSteps, <1>0
<1>2. at[Fuel] = NoBlock
  BY ChainEnds
<1> HIDE DEF at
<1>3. PICK n \in {Q[c] : c \in X} : \A m \in {Q[c] : c \in X} : n <= m
  <2>1. {Q[c] : c \in X} \in SUBSET Nat
    BY <1>0
  <2>2. e \in X
    OBVIOUS
  <2>3. {Q[c] : c \in X} # {}
    BY <2>2
  <2> HIDE DEF X
  <2>4. QED BY <2>1, <2>3, NatMin
<1>4. PICK c \in X : n = Q[c]
  BY <1>3
<1>5. \A x \in X : Q[c] <= Q[x]
  BY <1>3, <1>4
<1>6. c \in L /\ D[c].parent = d /\ B[c] = h /\ ~Covered(c)
  BY <1>4
<1>7. CASE P[c] = NoBlock
  <2>1. D[d].ht[h] = c
    BY <1>6, <1>7 DEF Threaded, AllComeFrom, ComesFrom
  <2>2. Covered(c)
    BY <1>1, <2>1, FuelIsNat
  <2>3. QED BY <1>6, <2>2
<1>8. CASE P[c] # NoBlock
  <2>1. P[c] \in L /\ D[P[c]].next = c
    BY <1>6, <1>8 DEF Threaded, AllComeFrom, ComesFrom
  <2>2. D[P[c]].parent = d /\ B[P[c]] = h /\ Q[P[c]] < Q[c]
    <3>1. c # NoBlock
      BY <1>0, <1>6
    <3>2. QED BY <1>6, <2>1, <3>1 DEF Threaded, ChainsLead
  <2>3. Q[P[c]] \in Nat /\ Q[c] \in Nat
    BY <1>0, <1>6, <2>1
  <2>4. Covered(P[c])
    <3>1. P[c] \notin X
      <4> HIDE DEF X
      <4> QED BY <1>5, <2>2, <2>3
    <3>2. QED BY <2>1, <2>2, <3>1
  <2>5. PICK i \in 0 .. Fuel : at[i] = P[c]
    BY <2>4
  <2>6. i + 1 \in 1 .. Fuel /\ (i + 1) - 1 = i
    BY <1>2, <1>8, <2>5, FuelIsNat
  <2>7. at[i + 1] = c
    BY <1>1, <1>8, <2>1, <2>5, <2>6
  <2>8. Covered(c)
    BY <2>6, <2>7, FuelIsNat
  <2>9. QED BY <1>6, <2>8
<1>9. QED
  BY <1>7, <1>8

\* A chain as a set: the linked entries of its directory and bucket.
LEMMA ChainIsBucket ==
  ASSUME NEW D \in [Blocks -> Headers], NEW T, NEW L, NEW B, NEW Q, NEW P,
         Threaded(D, T, L, B, Q, P), NEW d \in T, NEW h \in Buckets
  PROVE  Chain(D, d, h) = {c \in L : D[c].parent = d /\ B[c] = h}
<1> DEFINE at == ChainAt(D, d, h)
<1>0. d \in Blocks /\ L \subseteq Blocks /\ NoBlock \notin Blocks
  BY ConstantsAssumption DEF Threaded, WitnessTypes
<1>1. DOMAIN at = 0 .. Fuel
  BY ChainSteps, <1>0
<1>2. Chain(D, d, h) = {at[i] : i \in 0 .. Fuel} \ {NoBlock}
  BY <1>1 DEF Chain, Range
<1>3. \A i \in 0 .. Fuel : at[i] # NoBlock => at[i] \in L /\ D[at[i]].parent = d /\ B[at[i]] = h
  BY ChainLinked
<1>4. \A c \in L : D[c].parent = d /\ B[c] = h => \E i \in 0 .. Fuel : at[i] = c
  BY ChainCovers
<1> HIDE DEF at
<1>5. QED
  BY <1>0, <1>2, <1>3, <1>4

\* A bucket that has a block has a first one.
LEMMA BucketHasFirst ==
  ASSUME NEW D \in [Blocks -> Headers], NEW T, NEW L, NEW B, NEW Q, NEW P,
         Threaded(D, T, L, B, Q, P), NEW d \in T, NEW h \in Buckets, Chain(D, d, h) # {}
  PROVE  D[d].ht[h] # NoBlock
<1>0. d \in Blocks /\ L \subseteq Blocks /\ NoBlock \notin Blocks
  BY ConstantsAssumption DEF Threaded, WitnessTypes
<1>1. PICK c \in L : D[c].parent = d /\ B[c] = h
  BY ChainIsBucket
<1>2. PICK i \in 0 .. Fuel : ChainAt(D, d, h)[i] = c
  BY <1>1, ChainCovers, SMTT(30)
<1>3. ChainAt(D, d, h)[0] = D[d].ht[h]
  BY <1>0, ChainSteps
<1>4. D[d].ht[h] = NoBlock => ChainAt(D, d, h)[i] = NoBlock
  <2>1. 0 \in 0 .. Fuel /\ i \in 0 .. Fuel
    BY FuelIsNat
  <2>2. QED BY <1>0, <1>3, <2>1, ChainStaysEnded
<1>5. QED
  BY <1>0, <1>1, <1>2, <1>4

\* A chain that has an entry has a last one, which is linked and has no successor.
LEMMA ChainHasEnd ==
  ASSUME NEW D \in [Blocks -> Headers], NEW T, NEW L, NEW B, NEW Q, NEW P,
         Threaded(D, T, L, B, Q, P), NEW d \in T, NEW h \in Buckets,
         D[d].ht[h] # NoBlock
  PROVE  /\ ChainEnd(D, d, h) \in L
         /\ D[ChainEnd(D, d, h)].parent = d
         /\ B[ChainEnd(D, d, h)] = h
         /\ D[ChainEnd(D, d, h)].next = NoBlock
<1> DEFINE at == ChainAt(D, d, h)
           IsEnd(i) == at[i] # NoBlock /\ (i = Fuel \/ at[i + 1] = NoBlock)
           last1 == CHOOSE i \in 0 .. Fuel : IsEnd(i)
<1>0. d \in Blocks
  BY DEF Threaded, WitnessTypes
<1>1. /\ at[0] # NoBlock /\ at[Fuel] = NoBlock
      /\ \A k \in 1 .. Fuel : at[k] = IF at[k - 1] = NoBlock THEN NoBlock ELSE D[at[k - 1]].next
  BY ChainSteps, ChainEnds, <1>0
<1>2. \A i \in 0 .. Fuel : at[i] # NoBlock => at[i] \in L /\ D[at[i]].parent = d /\ B[at[i]] = h
  BY ChainLinked
<1>3. ChainEnd(D, d, h) = at[last1]
  BY DEF ChainEnd
<1> HIDE DEF at
<1>4. \E i \in 0 .. Fuel : IsEnd(i)
  <2> DEFINE E == {k \in 0 .. Fuel : at[k] = NoBlock}
  <2>1. Fuel \in E /\ E \in SUBSET Nat /\ E # {}
    BY <1>1, FuelIsNat
  <2>2. PICK k \in E : \A m \in E : k <= m
    <3> HIDE DEF E
    <3> QED BY <2>1, NatMin
  <2>3. k \in 1 .. Fuel /\ at[k] = NoBlock
    BY <1>1, <2>2, FuelIsNat
  <2>4. k - 1 \in 0 .. Fuel /\ k - 1 \notin E /\ (k - 1) + 1 = k
    BY <2>2, <2>3, FuelIsNat
  <2>5. IsEnd(k - 1)
    BY <2>3, <2>4
  <2>6. QED BY <2>4, <2>5
<1>5. last1 \in 0 .. Fuel /\ IsEnd(last1)
  <2> HIDE DEF IsEnd
  <2> QED BY <1>4
<1> HIDE DEF last1
<1>6. last1 # Fuel
  BY <1>1, <1>5
<1>7. last1 + 1 \in 1 .. Fuel /\ (last1 + 1) - 1 = last1
  BY <1>5, <1>6, FuelIsNat
<1>8. D[at[last1]].next = NoBlock
  BY <1>1, <1>5, <1>6, <1>7
<1>9. QED
  BY <1>2, <1>3, <1>5, <1>8

\* The hits of a lookup, and the least of them.
LEMMA HitsOf ==
  ASSUME NEW D \in [Blocks -> Headers], NEW T, NEW L, NEW B, NEW Q, NEW P,
         Threaded(D, T, L, B, Q, P), NEW d \in T, NEW n, Hash[n] \in Buckets,
         NEW e \in L, D[e].parent = d, B[e] = Hash[n], Match(D, e, n)
  PROVE  HitAt(D, d, n) # {}
<1> DEFINE at == ChainAt(D, d, Hash[n])
           M == {i \in 0 .. Fuel : at[i] # NoBlock /\ Match(D, at[i], n)}
<1>0. d \in Blocks /\ L \subseteq Blocks /\ NoBlock \notin Blocks
  BY ConstantsAssumption DEF Threaded, WitnessTypes
<1>1. PICK i \in 0 .. Fuel : at[i] = e
  BY ChainCovers
<1>2. \A j \in 0 .. Fuel : at[j] # NoBlock => at[j] \in L
  BY ChainLinked
<1>3. \A j \in 0 .. Fuel : at[j] = NoBlock => \A k \in j .. Fuel : at[k] = NoBlock
  BY ChainStaysEnded, <1>0
<1>4. PICK m \in M : \A j \in M : m <= j
  <2>1. i \in M
    BY <1>0, <1>1
  <2>2. M \in SUBSET Nat /\ M # {}
    BY <2>1
  <2> HIDE DEF M
  <2>3. QED BY <2>2, NatMin
<1> HIDE DEF at
<1>5. m \in 0 .. Fuel /\ at[m] # NoBlock /\ Match(D, at[m], n)
  BY <1>4
<1>6. ASSUME NEW j \in 0 .. m PROVE at[j] # NoBlock /\ Readable(D, at[j])
  <2>1. j \in 0 .. Fuel /\ m \in j .. Fuel
    BY <1>5, FuelIsNat
  <2>2. at[j] # NoBlock
    BY <1>3, <1>5, <2>1
  <2>3. at[j] \in L
    BY <1>2, <2>1, <2>2
  <2>4. QED BY <2>2, <2>3 DEF Threaded, EntryHeaders, Readable
<1>7. ASSUME NEW j \in 0 .. m - 1 PROVE ~Match(D, at[j], n)
  <2>1. j \in 0 .. Fuel /\ j \in 0 .. m /\ ~(m <= j)
    BY <1>5, FuelIsNat
  <2>2. QED BY <1>4, <1>6, <2>1
<1>8. m \in HitAt(D, d, n)
  BY <1>5, <1>6, <1>7 DEF HitAt, at
<1>9. QED
  BY <1>8

\* A lookup that finds an entry finds a linked one, of that name and in its
\* bucket, and the one before it in the chain.
LEMMA LookupFinds ==
  ASSUME NEW D \in [Blocks -> Headers], NEW T, NEW L, NEW B, NEW Q, NEW P,
         Threaded(D, T, L, B, Q, P), NEW d \in T, NEW n, Hash[n] \in Buckets,
         NEW b, b = adfNameToEntryBlk(D, d, n), b # NoBlock
  PROVE  /\ b \in L /\ D[b].parent = d /\ B[b] = Hash[n] /\ Match(D, b, n)
         /\ UpdSect(D, d, n) = P[b]
<1> DEFINE at == ChainAt(D, d, Hash[n])
           i == CHOOSE i \in HitAt(D, d, n) : TRUE
<1>0. d \in Blocks /\ L \subseteq Blocks
  BY DEF Threaded, WitnessTypes
<1>1. /\ at[0] = D[d].ht[Hash[n]]
      /\ \A k \in 1 .. Fuel : at[k] = IF at[k - 1] = NoBlock THEN NoBlock ELSE D[at[k - 1]].next
  BY ChainSteps, <1>0
<1>2. \A j \in 0 .. Fuel : at[j] # NoBlock => at[j] \in L /\ D[at[j]].parent = d /\ B[at[j]] = Hash[n]
  BY ChainLinked
<1>3. HitAt(D, d, n) # {} /\ b = at[i]
  BY DEF adfNameToEntryBlk
<1>4. i \in HitAt(D, d, n)
  BY <1>3
<1>5. UpdSect(D, d, n) = IF i = 0 THEN NoBlock ELSE at[i - 1]
  BY DEF UpdSect
<1> HIDE DEF i
<1>6. i \in 0 .. Fuel /\ Match(D, at[i], n) /\ \A j \in 0 .. i : at[j] # NoBlock
  BY <1>4 DEF HitAt
<1> HIDE DEF at
<1>7. b \in L /\ D[b].parent = d /\ B[b] = Hash[n] /\ Match(D, b, n)
  BY <1>2, <1>3, <1>6
<1>8. CASE i = 0
  BY <1>1, <1>3, <1>5, <1>7, <1>8 DEF Threaded, TablesLead
<1>9. CASE i # 0
  <2>1. i - 1 \in 0 .. Fuel /\ i - 1 \in 0 .. i /\ i \in 1 .. Fuel
    BY <1>6, <1>9, FuelIsNat
  <2>2. at[i - 1] # NoBlock /\ at[i - 1] \in L /\ D[at[i - 1]].next = b
    BY <1>1, <1>2, <1>3, <1>6, <2>1
  <2>3. P[b] = at[i - 1]
    BY <1>3, <1>6, <1>7, <2>1, <2>2 DEF Threaded, ChainsLead
  <2>4. QED BY <1>5, <1>7, <1>9, <2>3
<1>10. QED
  BY <1>7, <1>8, <1>9

\* A lookup that finds nothing: there is no entry of that name in its bucket.
LEMMA LookupMisses ==
  ASSUME NEW D \in [Blocks -> Headers], NEW T, NEW L, NEW B, NEW Q, NEW P,
         Threaded(D, T, L, B, Q, P), NEW d \in T, NEW n, Hash[n] \in Buckets,
         adfNameToEntryBlk(D, d, n) = NoBlock,
         NEW e \in L, D[e].parent = d, B[e] = Hash[n]
  PROVE  Fold[D[e].name] # Fold[n]
<1> SUFFICES ASSUME Fold[D[e].name] = Fold[n] PROVE FALSE
  OBVIOUS
<1> DEFINE at == ChainAt(D, d, Hash[n])
           i == CHOOSE i \in HitAt(D, d, n) : TRUE
<1>1. Match(D, e, n)
  BY DEF Match, Readable, Threaded, EntryHeaders
<1>2. HitAt(D, d, n) # {}
  BY <1>1, HitsOf
<1>3. at[i] = NoBlock
  BY <1>2 DEF adfNameToEntryBlk
<1>4. i \in HitAt(D, d, n)
  BY <1>2
<1> HIDE DEF i
<1>5. i \in 0 .. i /\ at[i] # NoBlock
  BY <1>4 DEF HitAt
<1>6. QED
  BY <1>3, <1>5

----------------------------------------------------------------------------
(* What the writes of a call do to a threaded volume.  D is the volume      *)
(* before and E the one after them; of blocks outside T nothing is said.    *)

\* E has b taken out of its bucket.
TakenOut(D, E, T, L, B, P, b) ==
    /\ \A x \in T : E[x].type = D[x].type
    /\ \A x \in T \ {b} : E[x].name = D[x].name /\ E[x].parent = D[x].parent
    /\ \A x \in T, h \in Buckets :
          E[x].ht[h] = IF P[b] = NoBlock /\ x = D[b].parent /\ h = B[b]
                         THEN D[b].next ELSE D[x].ht[h]
    /\ \A x \in L \ {b} : E[x].next = IF x = P[b] THEN D[b].next ELSE D[x].next
    /\ E[RootBlock].next = D[RootBlock].next

\* An entry that is taken out of its bucket leaves the others threaded.
LEMMA TakingOut ==
  ASSUME NEW D \in [Blocks -> Headers], NEW E \in [Blocks -> Headers],
         NEW T, NEW L, NEW B, NEW Q, NEW P,
         Threaded(D, T, L, B, Q, P), NEW b \in L, TakenOut(D, E, T, L, B, P, b)
  PROVE  \E P2 : Threaded(E, T, L \ {b}, B, Q, P2)
<1> DEFINE P2 == [x \in Blocks |-> IF x = D[b].next THEN P[b] ELSE P[x]]
           L2 == L \ {b}
<1>0. /\ T \subseteq Blocks /\ L \subseteq T /\ RootBlock \in T /\ RootBlock \notin L
      /\ NoBlock \notin Blocks /\ b \in Blocks
      /\ B \in [Blocks -> Buckets] /\ Q \in [Blocks -> Nat] /\ P \in [Blocks -> Pointers]
  BY ConstantsAssumption DEF Threaded, WitnessTypes
<1>1. \A x \in Blocks : P2[x] = IF x = D[b].next THEN P[b] ELSE P[x]
  OBVIOUS
<1>2. WitnessTypes(T, L2, B, Q, P2)
  BY <1>0 DEF WitnessTypes
<1>3. D[b].next # NoBlock =>
        /\ D[b].next \in L /\ P[D[b].next] = b /\ D[D[b].next].parent = D[b].parent
        /\ B[D[b].next] = B[b] /\ Q[b] < Q[D[b].next] /\ D[b].next # b
  BY <1>0 DEF Threaded, ChainsLead
<1> HIDE DEF P2
<1>4. TablesLead(E, T, L2, B, P2)
  <2> SUFFICES ASSUME NEW d \in T, NEW h \in Buckets, E[d].ht[h] # NoBlock
               PROVE  LET c == E[d].ht[h] IN
                      c \in L2 /\ P2[c] = NoBlock /\ E[c].parent = d /\ B[c] = h
    BY DEF TablesLead
  <2>1. CASE P[b] = NoBlock /\ d = D[b].parent /\ h = B[b]
    <3>1. E[d].ht[h] = D[b].next
      BY <2>1 DEF TakenOut
    <3>2. QED BY <1>0, <1>1, <1>3, <2>1, <3>1 DEF TakenOut
  <2>2. CASE ~(P[b] = NoBlock /\ d = D[b].parent /\ h = B[b])
    <3>1. E[d].ht[h] = D[d].ht[h]
      BY <2>2 DEF TakenOut
    <3>2. LET c == D[d].ht[h] IN c \in L /\ P[c] = NoBlock /\ D[c].parent = d /\ B[c] = h
      BY <3>1 DEF Threaded, TablesLead
    <3>3. D[d].ht[h] # b /\ D[d].ht[h] # D[b].next
      BY <1>0, <1>3, <2>2, <3>2
    <3>4. QED BY <1>0, <1>1, <3>1, <3>2, <3>3 DEF TakenOut
  <2>3. QED BY <2>1, <2>2
<1>5. ChainsLead(E, L2, B, Q, P2)
  <2> SUFFICES ASSUME NEW x \in L2, E[x].next # NoBlock
               PROVE  LET c == E[x].next IN
                      /\ c \in L2 /\ P2[c] = x /\ E[c].parent = E[x].parent
                      /\ B[c] = B[x] /\ Q[x] < Q[c]
    BY DEF ChainsLead
  <2>1. CASE x = P[b]
    <3>1. E[x].next = D[b].next
      BY <2>1 DEF TakenOut
    <3>2. D[x].next = b
      BY <1>0, <2>1 DEF Threaded, AllComeFrom, ComesFrom
    <3>3. B[b] = B[x] /\ D[b].parent = D[x].parent /\ Q[x] < Q[b]
      BY <1>0, <3>2 DEF Threaded, ChainsLead
    <3>4. Q[x] < Q[D[b].next]
      <4>1. Q[x] \in Nat /\ Q[b] \in Nat /\ Q[D[b].next] \in Nat
        BY <1>0, <1>3, <3>1
      <4>2. QED BY <1>3, <3>1, <3>3, <4>1
    <3>5. QED BY <1>0, <1>1, <1>3, <2>1, <3>1, <3>3, <3>4 DEF TakenOut
  <2>2. CASE x # P[b]
    <3>1. E[x].next = D[x].next
      BY <2>2 DEF TakenOut
    <3>2. LET c == D[x].next IN
          /\ c \in L /\ P[c] = x /\ D[c].parent = D[x].parent
          /\ B[c] = B[x] /\ Q[x] < Q[c]
      BY <3>1 DEF Threaded, ChainsLead
    <3>3. D[x].next # b /\ D[x].next # D[b].next
      BY <1>0, <1>3, <2>2, <3>1, <3>2
    <3>4. QED BY <1>0, <1>1, <3>1, <3>2, <3>3 DEF TakenOut
  <2>3. QED BY <2>1, <2>2
<1>6. AllComeFrom(E, T, L2, B, P2)
  <2> SUFFICES ASSUME NEW c \in L2
               PROVE  E[c].parent \in T /\ ComesFrom(E, L2, B, P2, c)
    BY DEF AllComeFrom
  <2>1. E[c].parent = D[c].parent /\ D[c].parent \in T /\ ComesFrom(D, L, B, P, c)
    BY <1>0 DEF TakenOut, Threaded, AllComeFrom
  <2>2. c # b /\ c \in L /\ c \in Blocks /\ c # NoBlock /\ B[c] \in Buckets
    BY <1>0
  <2>3. CASE c = D[b].next
    <3>1. P2[c] = P[b] /\ D[c].parent = D[b].parent /\ B[c] = B[b]
      BY <1>1, <1>3, <2>2, <2>3
    <3>2. CASE P[b] = NoBlock
      <4>1. E[D[b].parent].ht[B[b]] = c
        BY <2>1, <2>2, <2>3, <3>1, <3>2 DEF TakenOut
      <4>2. QED BY <2>1, <3>1, <3>2, <4>1 DEF ComesFrom
    <3>3. CASE P[b] # NoBlock
      <4>1. P[b] \in L /\ D[P[b]].next = b
        BY <3>3 DEF Threaded, AllComeFrom, ComesFrom
      <4>2. P[b] # b
        <5>1. D[b].next # b
          BY <1>3, <2>2, <2>3
        <5>2. QED BY <4>1, <5>1
      <4>3. E[P[b]].next = c
        BY <2>3, <4>1, <4>2 DEF TakenOut
      <4>4. QED BY <2>1, <3>1, <3>3, <4>1, <4>2, <4>3 DEF ComesFrom
    <3>4. QED BY <3>2, <3>3
  <2>4. CASE c # D[b].next
    <3>1. P2[c] = P[c]
      BY <1>1, <2>2, <2>4
    <3>2. CASE P[c] = NoBlock
      <4>1. D[D[c].parent].ht[B[c]] = c
        BY <2>1, <3>2 DEF ComesFrom
      <4>2. ~(P[b] = NoBlock /\ D[c].parent = D[b].parent /\ B[c] = B[b])
        <5>1. P[b] = NoBlock => D[D[b].parent].ht[B[b]] = b
          BY DEF Threaded, AllComeFrom, ComesFrom
        <5>2. QED BY <2>2, <4>1, <5>1
      <4>3. E[D[c].parent].ht[B[c]] = c
        BY <2>1, <2>2, <4>1, <4>2 DEF TakenOut
      <4>4. QED BY <2>1, <3>1, <3>2, <4>3 DEF ComesFrom
    <3>3. CASE P[c] # NoBlock
      <4>1. P[c] \in L /\ D[P[c]].next = c
        BY <2>1, <3>3 DEF ComesFrom
      <4>2. P[c] # b /\ P[c] # P[b]
        <5>1. P[b] # NoBlock => D[P[b]].next = b
          BY DEF Threaded, AllComeFrom, ComesFrom
        <5>2. QED BY <2>2, <2>4, <3>3, <4>1, <5>1
      <4>3. E[P[c]].next = c
        BY <4>1, <4>2 DEF TakenOut
      <4>4. QED BY <2>1, <3>1, <3>3, <4>1, <4>2, <4>3 DEF ComesFrom
    <3>4. QED BY <3>2, <3>3
  <2>5. QED BY <2>3, <2>4
<1>7. EntryHeaders(E, L2)
  BY <1>0 DEF EntryHeaders, Threaded, TakenOut
<1>8. NoTwins(E, L2, B)
  BY <1>0 DEF NoTwins, Threaded, TakenOut
<1>9. Threaded(E, T, L2, B, Q, P2)
  BY <1>2, <1>4, <1>5, <1>6, <1>7, <1>8 DEF Threaded
<1>10. QED
  BY <1>9

\* b is ready to be put into bucket h of d behind tail, or first if tail is NoBlock.
Ready(D, T, L, B, b, d, h, tail) ==
    /\ b \in T \ (L \cup {RootBlock}) /\ d \in T \ {b} /\ h \in Buckets
    /\ D[b].next = NoBlock /\ D[b].parent = d
    /\ D[b].type \in {"dir", "file", "link"} /\ D[b].name \in Names
    /\ \A c \in L : D[c].parent = d /\ B[c] = h => Fold[D[c].name] # Fold[D[b].name]
    /\ IF tail = NoBlock THEN D[d].ht[h] = NoBlock
       ELSE tail \in L /\ D[tail].parent = d /\ B[tail] = h /\ D[tail].next = NoBlock

\* E has b there; a directory block that is written becomes a directory.
PutIn(D, E, T, L, b, d, h, tail) ==
    /\ \A x \in T : E[x].name = D[x].name /\ E[x].parent = D[x].parent
    /\ \A x \in T : E[x].type = D[x].type \/ (D[x].type # "root" /\ E[x].type = "dir")
    /\ \A x \in T, k \in Buckets :
          E[x].ht[k] = IF tail = NoBlock /\ x = d /\ k = h THEN b ELSE D[x].ht[k]
    /\ \A x \in L \cup {b} : E[x].next = IF x = tail THEN b ELSE D[x].next
    /\ E[RootBlock].next = D[RootBlock].next

\* An entry that is put at the end of a bucket where no other has its name is
\* threaded with those that are there.
LEMMA PuttingIn ==
  ASSUME NEW D \in [Blocks -> Headers], NEW E \in [Blocks -> Headers],
         NEW T, NEW L, NEW B, NEW Q, NEW P, Threaded(D, T, L, B, Q, P),
         NEW b, NEW d, NEW h, NEW tail,
         Ready(D, T, L, B, b, d, h, tail), PutIn(D, E, T, L, b, d, h, tail)
  PROVE  \E Q2, P2 : Threaded(E, T, L \cup {b}, [B EXCEPT ![b] = h], Q2, P2)
<1> DEFINE L2 == L \cup {b}
           B2 == [B EXCEPT ![b] = h]
           Q2 == [Q EXCEPT ![b] = IF tail = NoBlock THEN 0 ELSE Q[tail] + 1]
           P2 == [P EXCEPT ![b] = tail]
<1>0. /\ T \subseteq Blocks /\ L \subseteq T /\ RootBlock \in T /\ RootBlock \notin L
      /\ NoBlock \notin Blocks /\ b \in Blocks /\ b # RootBlock /\ b \notin L /\ b \in T
      /\ d \in T /\ d # b /\ h \in Buckets /\ b # NoBlock
      /\ B \in [Blocks -> Buckets] /\ Q \in [Blocks -> Nat] /\ P \in [Blocks -> Pointers]
      /\ tail # NoBlock => tail \in L /\ tail # b
  BY ConstantsAssumption DEF Threaded, WitnessTypes, Ready
<1>1. /\ B2[b] = h /\ P2[b] = tail
      /\ \A x \in L : B2[x] = B[x] /\ P2[x] = P[x] /\ Q2[x] = Q[x]
      /\ tail # NoBlock => Q2[tail] < Q2[b]
  BY <1>0
<1>2. WitnessTypes(T, L2, B2, Q2, P2)
  <2>1. tail \in Pointers
    BY <1>0 DEF Pointers
  <2>2. Q2 \in [Blocks -> Nat]
    BY <1>0
  <2>3. QED BY <1>0, <2>1, <2>2 DEF WitnessTypes
<1> HIDE DEF B2, Q2, P2
<1>3. TablesLead(E, T, L2, B2, P2)
  <2> SUFFICES ASSUME NEW x \in T, NEW k \in Buckets, E[x].ht[k] # NoBlock
               PROVE  LET c == E[x].ht[k] IN
                      c \in L2 /\ P2[c] = NoBlock /\ E[c].parent = x /\ B2[c] = k
    BY DEF TablesLead
  <2>1. CASE tail = NoBlock /\ x = d /\ k = h
    <3>1. E[x].ht[k] = b
      BY <2>1 DEF PutIn
    <3>2. E[b].parent = d
      BY <1>0 DEF PutIn, Ready
    <3>3. QED BY <1>1, <2>1, <3>1, <3>2
  <2>2. CASE ~(tail = NoBlock /\ x = d /\ k = h)
    <3>1. E[x].ht[k] = D[x].ht[k]
      BY <2>2 DEF PutIn
    <3>2. LET c == D[x].ht[k] IN c \in L /\ P[c] = NoBlock /\ D[c].parent = x /\ B[c] = k
      BY <3>1 DEF Threaded, TablesLead
    <3>3. QED BY <1>0, <1>1, <3>1, <3>2 DEF PutIn
  <2>3. QED BY <2>1, <2>2
<1>4. ChainsLead(E, L2, B2, Q2, P2)
  <2> SUFFICES ASSUME NEW x \in L2, E[x].next # NoBlock
               PROVE  LET c == E[x].next IN
                      /\ c \in L2 /\ P2[c] = x /\ E[c].parent = E[x].parent
                      /\ B2[c] = B2[x] /\ Q2[x] < Q2[c]
    BY DEF ChainsLead
  <2>1. CASE x = tail
    <3>1. E[x].next = b /\ x # NoBlock /\ x \in L
      BY <1>0, <2>1 DEF PutIn
    <3>2. E[b].parent = d /\ E[x].parent = d /\ B[x] = h
      BY <1>0, <2>1, <3>1 DEF PutIn, Ready
    <3>3. QED BY <1>1, <2>1, <3>1, <3>2
  <2>2. CASE x # tail
    <3>1. E[x].next = D[x].next
      BY <2>2 DEF PutIn
    <3>2. x \in L
      BY <3>1 DEF Ready
    <3>3. LET c == D[x].next IN
          /\ c \in L /\ P[c] = x /\ D[c].parent = D[x].parent
          /\ B[c] = B[x] /\ Q[x] < Q[c]
      BY <3>1, <3>2 DEF Threaded, ChainsLead
    <3>4. QED BY <1>0, <1>1, <3>1, <3>2, <3>3 DEF PutIn
  <2>3. QED BY <2>1, <2>2
<1>5. AllComeFrom(E, T, L2, B2, P2)
  <2> SUFFICES ASSUME NEW c \in L2
               PROVE  E[c].parent \in T /\ ComesFrom(E, L2, B2, P2, c)
    BY DEF AllComeFrom
  <2>1. CASE c = b
    <3>1. E[b].parent = d
      BY <1>0 DEF PutIn, Ready
    <3>2. IF tail = NoBlock THEN E[d].ht[h] = b ELSE tail \in L /\ E[tail].next = b
      BY <1>0 DEF PutIn
    <3>3. QED BY <1>0, <1>1, <2>1, <3>1, <3>2 DEF ComesFrom
  <2>2. CASE c # b
    <3>1. c \in L /\ c \in T /\ c # NoBlock /\ B[c] \in Buckets
      BY <1>0, <2>2
    <3>2. E[c].parent = D[c].parent /\ D[c].parent \in T /\ ComesFrom(D, L, B, P, c)
      BY <3>1 DEF PutIn, Threaded, AllComeFrom
    <3>3. CASE P[c] = NoBlock
      <4>1. D[D[c].parent].ht[B[c]] = c
        BY <3>2, <3>3 DEF ComesFrom
      <4>2. ~(tail = NoBlock /\ D[c].parent = d /\ B[c] = h)
        BY <3>1, <4>1 DEF Ready
      <4>3. E[D[c].parent].ht[B[c]] = c
        BY <3>1, <3>2, <4>1, <4>2 DEF PutIn
      <4>4. QED BY <1>1, <3>1, <3>2, <3>3, <4>3 DEF ComesFrom
    <3>4. CASE P[c] # NoBlock
      <4>1. P[c] \in L /\ D[P[c]].next = c
        BY <3>2, <3>4 DEF ComesFrom
      <4>2. P[c] # tail
        BY <3>1, <3>4, <4>1 DEF Ready
      <4>3. E[P[c]].next = c
        BY <4>1, <4>2 DEF PutIn
      <4>4. QED BY <1>1, <3>1, <3>2, <3>4, <4>1, <4>3 DEF ComesFrom
    <3>5. QED BY <3>3, <3>4
  <2>3. QED BY <2>1, <2>2
<1>6. EntryHeaders(E, L2)
  <2>1. E[RootBlock].type = "root" /\ E[RootBlock].next = NoBlock /\ E[RootBlock].parent = NoBlock
    BY <1>0 DEF PutIn, Threaded, EntryHeaders
  <2>2. ASSUME NEW x \in L2
        PROVE  E[x].type \in {"dir", "file", "link"} /\ E[x].name \in Names /\ E[x].parent # x
    <3>1. x \in T /\ E[x].name = D[x].name /\ E[x].parent = D[x].parent
      BY <1>0 DEF PutIn
    <3>2. D[x].type \in {"dir", "file", "link"} /\ D[x].name \in Names /\ D[x].parent # x
      <4>1. CASE x = b
        BY <1>0, <4>1 DEF Ready
      <4>2. CASE x \in L
        BY <4>2 DEF Threaded, EntryHeaders
      <4>3. QED BY <4>1, <4>2
    <3>3. E[x].type = D[x].type \/ E[x].type = "dir"
      BY <3>1 DEF PutIn
    <3>4. QED BY <3>1, <3>2, <3>3
  <2>3. QED BY <2>1, <2>2 DEF EntryHeaders
<1>7. NoTwins(E, L2, B2)
  <2> SUFFICES ASSUME NEW x \in L2, NEW y \in L2, E[x].parent = E[y].parent, B2[x] = B2[y],
                      Fold[E[x].name] = Fold[E[y].name]
               PROVE  x = y
    BY DEF NoTwins
  <2>1. /\ E[x].parent = D[x].parent /\ E[y].parent = D[y].parent
        /\ E[x].name = D[x].name /\ E[y].name = D[y].name
    BY <1>0 DEF PutIn
  <2>2. CASE x \in L /\ y \in L
    <3>1. NoTwins(D, L, B) /\ B2[x] = B[x] /\ B2[y] = B[y]
      BY <1>1, <2>2 DEF Threaded
    <3>2. QED BY <2>1, <2>2, <3>1 DEF NoTwins
  <2>3. CASE x = b /\ y \in L
    <3>1. B2[y] = B[y] /\ B2[b] = h
      BY <1>1, <2>3 DEF Ready
    <3>2. D[b].parent = d
      BY DEF Ready
    <3>3. D[y].parent = d /\ B[y] = h
      BY <2>1, <2>3, <3>1, <3>2
    <3>4. Fold[D[y].name] # Fold[D[b].name]
      BY <2>3, <3>3 DEF Ready
    <3>5. QED BY <2>1, <2>3, <3>4
  <2>4. CASE y = b /\ x \in L
    <3>1. B2[x] = B[x] /\ B2[b] = h
      BY <1>1, <2>4 DEF Ready
    <3>2. D[b].parent = d
      BY DEF Ready
    <3>3. D[x].parent = d /\ B[x] = h
      BY <2>1, <2>4, <3>1, <3>2
    <3>4. Fold[D[x].name] # Fold[D[b].name]
      BY <2>4, <3>3 DEF Ready
    <3>5. QED BY <2>1, <2>4, <3>4
  <2>5. QED BY <2>2, <2>3, <2>4
<1>8. Threaded(E, T, L2, B2, Q2, P2)
  BY <1>2, <1>3, <1>4, <1>5, <1>6, <1>7 DEF Threaded
<1>9. QED
  BY <1>8 DEF B2

\* A block that is not linked can be given a header with an empty table: what
\* was linked in a table it had before is linked no more.
LEMMA WritingNew ==
  ASSUME NEW D \in [Blocks -> Headers], NEW E \in [Blocks -> Headers],
         NEW T, NEW L, NEW B, NEW Q, NEW P, Threaded(D, T, L, B, Q, P),
         NEW b \in Blocks, b \notin L \cup {RootBlock}, E[b].ht = EmptyTable,
         \A x \in T \ {b} : E[x].ht = D[x].ht,
         \A x \in L : D[x].parent # b => E[x] = D[x],
         E[RootBlock].type = "root", E[RootBlock].next = NoBlock, E[RootBlock].parent = NoBlock,
         NEW L2, L2 = {c \in L : D[c].parent # b}
  PROVE  Threaded(E, T \cup {b}, L2, B, Q, P)
<1> DEFINE T2 == T \cup {b}
<1>0. /\ T \subseteq Blocks /\ L \subseteq T /\ RootBlock \in T /\ RootBlock \notin L
      /\ NoBlock \notin Blocks /\ L2 \subseteq L /\ b \notin L /\ b # RootBlock
  BY ConstantsAssumption DEF Threaded, WitnessTypes
<1>1. \A x \in L2 : E[x] = D[x]
  OBVIOUS
<1>2. WitnessTypes(T2, L2, B, Q, P)
  BY <1>0 DEF Threaded, WitnessTypes
<1>3. TablesLead(E, T2, L2, B, P)
  <2> SUFFICES ASSUME NEW d \in T2, NEW h \in Buckets, E[d].ht[h] # NoBlock
               PROVE  LET c == E[d].ht[h] IN
                      c \in L2 /\ P[c] = NoBlock /\ E[c].parent = d /\ B[c] = h
    BY DEF TablesLead
  <2>1. d # b /\ d \in T /\ E[d].ht = D[d].ht
    BY DEF EmptyTable
  <2>2. LET c == D[d].ht[h] IN c \in L /\ P[c] = NoBlock /\ D[c].parent = d /\ B[c] = h
    BY <2>1 DEF Threaded, TablesLead
  <2>3. QED BY <1>1, <2>1, <2>2
<1>4. ChainsLead(E, L2, B, Q, P)
  BY <1>1 DEF ChainsLead, Threaded
<1>5. AllComeFrom(E, T2, L2, B, P)
  <2> SUFFICES ASSUME NEW c \in L2
               PROVE  E[c].parent \in T2 /\ ComesFrom(E, L2, B, P, c)
    BY DEF AllComeFrom
  <2>1. c \in L /\ c \in Blocks /\ c # NoBlock /\ E[c] = D[c] /\ D[c].parent # b
    BY <1>0, <1>1
  <2>2. D[c].parent \in T /\ ComesFrom(D, L, B, P, c)
    BY <2>1 DEF Threaded, AllComeFrom
  <2>3. CASE P[c] = NoBlock
    <3>1. E[D[c].parent].ht = D[D[c].parent].ht
      BY <2>1, <2>2
    <3>2. QED BY <2>1, <2>2, <2>3, <3>1 DEF ComesFrom
  <2>4. CASE P[c] # NoBlock
    <3>1. P[c] \in L /\ D[P[c]].next = c
      BY <2>2, <2>4 DEF ComesFrom
    <3>2. D[P[c]].parent = D[c].parent
      BY <2>1, <3>1 DEF Threaded, ChainsLead
    <3>3. P[c] \in L2 /\ E[P[c]].next = c
      BY <1>1, <2>1, <3>1, <3>2
    <3>4. QED BY <2>1, <2>2, <2>4, <3>3 DEF ComesFrom
  <2>5. QED BY <2>3, <2>4
<1>6. EntryHeaders(E, L2)
  BY <1>0, <1>1 DEF EntryHeaders, Threaded
<1>7. NoTwins(E, L2, B)
  BY <1>1 DEF NoTwins, Threaded
<1>8. QED
  BY <1>2, <1>3, <1>4, <1>5, <1>6, <1>7 DEF Threaded

\* What is outside T does not matter.
LEMMA SameInside ==
  ASSUME NEW D \in [Blocks -> Headers], NEW E \in [Blocks -> Headers],
         NEW T, NEW L, NEW B, NEW Q, NEW P, Threaded(D, T, L, B, Q, P),
         \A x \in T : E[x] = D[x]
  PROVE  Threaded(E, T, L, B, Q, P)
<1>1. L \subseteq T /\ RootBlock \in T
  BY DEF Threaded, WitnessTypes
<1>2. TablesLead(E, T, L, B, P)
  BY <1>1 DEF Threaded, TablesLead
<1>3. ChainsLead(E, L, B, Q, P)
  BY <1>1 DEF Threaded, ChainsLead
<1>4. AllComeFrom(E, T, L, B, P)
  BY <1>1 DEF Threaded, AllComeFrom, ComesFrom
<1>5. EntryHeaders(E, L) /\ NoTwins(E, L, B)
  BY <1>1 DEF Threaded, EntryHeaders, NoTwins
<1>6. QED
  BY <1>2, <1>3, <1>4, <1>5 DEF Threaded

----------------------------------------------------------------------------
(* The calls.                                                               *)

\* The types of the disk images that a creation writes.
LEMMA LinkedTypes ==
  ASSUME disk \in [Blocks -> Headers], NEW d \in Blocks, NEW n \in Names, NEW new \in Blocks,
         NEW type \in {"file", "dir"}, NEW T, NEW L, NEW B, NEW Q, NEW P,
         Threaded(disk, T, L, B, Q, P), d \in T
  PROVE  /\ Linked(d, n, new) \in [Blocks -> Headers]
         /\ Header(type, Cut[n], d) \in Headers
         /\ [Linked(d, n, new) EXCEPT ![new] = Header(type, Cut[n], d)] \in [Blocks -> Headers]
<1>1. Hash[n] \in Buckets /\ Cut[n] \in Names /\ new \in Pointers
  BY ConstantsAssumption DEF Pointers
<1>2. Linked(d, n, new) \in [Blocks -> Headers]
  <2>1. CASE disk[d].ht[Hash[n]] = NoBlock
    <3> DEFINE D == SetTable(disk, d, Hash[n], new)
               type2 == IF D[d].type = "root" THEN D[d].type ELSE "dir"
    <3>1. D \in [Blocks -> Headers]
      BY <1>1 DEF SetTable, Headers
    <3> HIDE DEF D
    <3>2. MadeDir(D, d) = [D EXCEPT ![d] = [D[d] EXCEPT !.type = type2]]
      BY <3>1 DEF MadeDir
    <3>3. D[d] \in Headers
      BY <3>1
    <3>4. [D[d] EXCEPT !.type = type2] \in Headers
      BY <3>3 DEF Headers
    <3>5. MadeDir(D, d) \in [Blocks -> Headers]
      BY <3>1, <3>2, <3>4
    <3>6. QED BY <2>1, <3>5 DEF Linked, D
  <2>2. CASE disk[d].ht[Hash[n]] # NoBlock
    <3>1. ChainEnd(disk, d, Hash[n]) \in Blocks
      BY <1>1, <2>2, ChainHasEnd DEF Threaded, WitnessTypes
    <3>2. SetNext(disk, ChainEnd(disk, d, Hash[n]), new) \in [Blocks -> Headers]
      BY <1>1, <3>1 DEF SetNext, Headers
    <3>3. QED BY <2>2, <3>2 DEF Linked
  <2>3. QED BY <2>1, <2>2
<1>3. Header(type, Cut[n], d) \in Headers
  BY <1>1 DEF Header, Headers, Pointers, EmptyTable
<1>4. QED
  BY <1>2, <1>3

\* The last disk image of a creation.
WithEntry(type, d, n, new) == [Linked(d, n, new) EXCEPT ![new] = Header(type, Cut[n], d)]

\* A creation changes no name and no parent but those of its block.
LEMMA CreationRenamesNothing ==
  ASSUME disk \in [Blocks -> Headers], NEW d \in Blocks, NEW n \in Names, NEW new \in Blocks,
         NEW type \in {"file", "dir"}, NEW T, NEW L, NEW B, NEW Q, NEW P,
         Threaded(disk, T, L, B, Q, P), d \in T
  PROVE  /\ WithEntry(type, d, n, new)[new] = Header(type, Cut[n], d)
         /\ \A x \in Blocks \ {new} :
               /\ WithEntry(type, d, n, new)[x].name = disk[x].name
               /\ WithEntry(type, d, n, new)[x].parent = disk[x].parent
               /\ WithEntry(type, d, n, new)[x].type = "link" => disk[x].type = "link"
               /\ disk[d].type \in DirTypes => WithEntry(type, d, n, new)[x].type = disk[x].type
<1>1. Hash[n] \in Buckets /\ new \in Pointers
  BY ConstantsAssumption DEF Pointers
<1>2. Linked(d, n, new) \in [Blocks -> Headers]
  BY LinkedTypes
<1>3. \A x \in Blocks : /\ Linked(d, n, new)[x].name = disk[x].name
                        /\ Linked(d, n, new)[x].parent = disk[x].parent
                        /\ Linked(d, n, new)[x].type = "link" => disk[x].type = "link"
                        /\ disk[d].type \in DirTypes => Linked(d, n, new)[x].type = disk[x].type
  <2>1. CASE disk[d].ht[Hash[n]] = NoBlock
    <3> DEFINE D == SetTable(disk, d, Hash[n], new)
    <3>1. D \in [Blocks -> Headers]
      BY <1>1 DEF SetTable, Headers
    <3>2. \A x \in Blocks : D[x].name = disk[x].name /\ D[x].parent = disk[x].parent
                            /\ D[x].type = disk[x].type
      BY <1>1 DEF SetTable, Headers
    <3> HIDE DEF D
    <3>3. \A x \in Blocks : MadeDir(D, d)[x].name = D[x].name /\ MadeDir(D, d)[x].parent = D[x].parent
                            /\ MadeDir(D, d)[x].type \in {D[x].type, "dir"}
      BY <3>1 DEF MadeDir, Headers
    <3>6. D[d].type \in DirTypes => \A x \in Blocks : MadeDir(D, d)[x].type = D[x].type
      <4>1. MadeDir(D, d) = [D EXCEPT ![d] = [D[d] EXCEPT !.type = IF D[d].type = "root" THEN D[d].type ELSE "dir"]]
        BY <3>1 DEF MadeDir
      <4>2. D[d] \in Headers /\ D[d].type \in DirTypes
              => [D[d] EXCEPT !.type = IF D[d].type = "root" THEN D[d].type ELSE "dir"].type = D[d].type
        BY DEF Headers, DirTypes
      <4>3. QED BY <3>1, <4>1, <4>2
    <3>4. Linked(d, n, new) = MadeDir(D, d)
      BY <2>1 DEF Linked, D
    <3>5. QED BY <3>2, <3>3, <3>4, <3>6
  <2>2. CASE disk[d].ht[Hash[n]] # NoBlock
    <3> DEFINE e == ChainEnd(disk, d, Hash[n])
    <3>1. e \in Blocks
      BY <1>1, <2>2, ChainHasEnd DEF Threaded, WitnessTypes
    <3>2. Linked(d, n, new) = IF disk[e].type \in {"dir", "file"} THEN SetNext(disk, e, new) ELSE disk
      BY <2>2 DEF Linked
    <3> HIDE DEF e
    <3>3. \A x \in Blocks : /\ SetNext(disk, e, new)[x].name = disk[x].name
                            /\ SetNext(disk, e, new)[x].parent = disk[x].parent
                            /\ SetNext(disk, e, new)[x].type = disk[x].type
      BY <3>1 DEF SetNext, Headers
    <3>4. QED BY <3>2, <3>3
  <2>3. QED BY <2>1, <2>2
<1>4. QED
  BY <1>2, <1>3 DEF WithEntry

\* The blocks in S, and the new one.
With(S, new) == S \cup {new}

\* The chain that the name n of d belongs to is empty, or its last block is not a
\* link.
TakesSuccessor(d, n) ==
    disk[d].ht[Hash[n]] # NoBlock => disk[ChainEnd(disk, d, Hash[n])].type \in {"dir", "file"}

\* A creation that can be made, with the block it takes: the volume stays
\* threaded, and what is linked afterwards was linked before, or is the new block.
LEMMA CreateThreads ==
  ASSUME disk \in [Blocks -> Headers], NEW T, NEW L, NEW B, NEW Q, NEW P,
         Threaded(disk, T, L, B, Q, P), NEW d \in T, NEW n \in Names,
         NEW new \in Blocks, new \notin L \cup {RootBlock},
         NEW type \in {"file", "dir"}, CanCreate(d, n),
         NEW W \in [Blocks -> Headers], W = WithEntry(type, d, n, new)
  PROVE  \E L2, B2, Q2, P2 :
            /\ Threaded(W, With(T, new), L2, B2, Q2, P2)
            /\ L2 \subseteq With(L, new) /\ L2 \ {new} = {c \in L : disk[c].parent # new}
            /\ OwnBuckets(disk, L, B) /\ Hash[Cut[n]] = Hash[n] => OwnBuckets(W, L2, B2)
            /\ d # new /\ TakesSuccessor(d, n) => new \in L2 /\ B2[new] = Hash[n]
<1> DEFINE h == Hash[n]
           H == Header(type, Cut[n], d)
           tail == ChainEnd(disk, d, h)
           T1 == T \cup {new}
           L1 == {c \in L : disk[c].parent # new}
           D1 == [disk EXCEPT ![new] = H]
<1>0. /\ T \subseteq Blocks /\ L \subseteq T /\ RootBlock \in T /\ NoBlock \notin Blocks
      /\ h \in Buckets /\ Cut[n] \in Names /\ Fold[Cut[n]] = Fold[n] /\ d \in Blocks
      /\ B \in [Blocks -> Buckets]
  BY ConstantsAssumption DEF Threaded, WitnessTypes
<1>1. /\ Linked(d, n, new) \in [Blocks -> Headers] /\ H \in Headers /\ W \in [Blocks -> Headers]
  BY <1>0, LinkedTypes DEF WithEntry
<1>2. /\ W[new] = H /\ \A x \in Blocks \ {new} : W[x] = Linked(d, n, new)[x]
  BY <1>1 DEF WithEntry
<1>3. /\ H.type = type /\ H.name = Cut[n] /\ H.parent = d /\ H.next = NoBlock /\ H.ht = EmptyTable
  BY DEF Header
<1>4. /\ D1 \in [Blocks -> Headers] /\ D1[new] = H /\ \A x \in Blocks \ {new} : D1[x] = disk[x]
  BY <1>1
<1>5. disk[d].ht[h] # NoBlock =>
        tail \in L /\ disk[tail].parent = d /\ B[tail] = h /\ disk[tail].next = NoBlock
  BY <1>0, ChainHasEnd
\* What linking changes.
<1>6. /\ \A x \in Blocks : x # d /\ x # tail => Linked(d, n, new)[x] = disk[x]
      /\ disk[d].ht[h] = NoBlock =>
            /\ \A x \in Blocks \ {d} : Linked(d, n, new)[x] = disk[x]
            /\ Linked(d, n, new)[d] = [disk[d] EXCEPT !.ht = [disk[d].ht EXCEPT ![h] = new],
                                                      !.type = IF @ = "root" THEN @ ELSE "dir"]
      /\ disk[d].ht[h] # NoBlock /\ disk[tail].type \in {"dir", "file"} =>
            /\ \A x \in Blocks \ {tail} : Linked(d, n, new)[x] = disk[x]
            /\ Linked(d, n, new)[tail] = [disk[tail] EXCEPT !.next = new]
      /\ disk[d].ht[h] # NoBlock /\ disk[tail].type \notin {"dir", "file"} =>
            Linked(d, n, new) = disk
  <2>1. CASE disk[d].ht[h] = NoBlock
    <3>1. Linked(d, n, new) = MadeDir(SetTable(disk, d, h, new), d)
      BY <2>1 DEF Linked
    <3>2. SetTable(disk, d, h, new) = [disk EXCEPT ![d] = [disk[d] EXCEPT !.ht = [disk[d].ht EXCEPT ![h] = new]]]
      BY <1>0 DEF SetTable, Headers
    <3>3. QED BY <1>0, <2>1, <3>1, <3>2 DEF MadeDir, Headers
  <2>2. CASE disk[d].ht[h] # NoBlock
    <3>1. Linked(d, n, new) = IF disk[tail].type \in {"dir", "file"} THEN SetNext(disk, tail, new) ELSE disk
      BY <2>2 DEF Linked
    <3>2. tail \in Blocks
      BY <1>0, <1>5, <2>2
    <3> HIDE DEF tail
    <3>3. QED BY <2>2, <3>1, <3>2 DEF SetNext
  <2>3. QED BY <2>1, <2>2
<1> HIDE DEF H, tail
\* The new header alone.
<1>7. Threaded(D1, T1, L1, B, Q, P)
  <2> HIDE DEF D1
  <2>1. /\ D1[new].ht = EmptyTable
        /\ D1[RootBlock].type = "root" /\ D1[RootBlock].next = NoBlock /\ D1[RootBlock].parent = NoBlock
    BY <1>0, <1>3, <1>4 DEF Threaded, EntryHeaders
  <2>2. /\ \A x \in T \ {new} : D1[x].ht = disk[x].ht
        /\ \A x \in L : disk[x].parent # new => D1[x] = disk[x]
    BY <1>0, <1>4
  <2>3. QED BY <1>4, <2>1, <2>2, WritingNew
<1>8. \A c \in L : disk[c].parent = d /\ B[c] = h => Fold[disk[c].name] # Fold[n]
  BY <1>0, LookupMisses DEF CanCreate
<1>9. L1 \subseteq L /\ (OwnBuckets(disk, L, B) => OwnBuckets(D1, L1, B))
  <2> HIDE DEF D1
  <2> QED BY <1>0, <1>4 DEF OwnBuckets
<1>10. CASE d = new
  <2>1. Threaded(W, T1, L1, B, Q, P)
    <3>1. disk[d].ht[h] # NoBlock => tail \notin L1 /\ tail # RootBlock
      BY <1>5, <1>10 DEF Threaded, WitnessTypes
    <3>2. \A x \in T \ {new} : W[x].ht = disk[x].ht
      <4>1. ASSUME NEW x \in Blocks, x # d PROVE Linked(d, n, new)[x].ht = disk[x].ht
        <5>1. CASE disk[d].ht[h] = NoBlock
          BY <1>6, <4>1, <5>1
        <5>2. CASE disk[d].ht[h] # NoBlock /\ disk[tail].type \in {"dir", "file"}
          <6>1. [disk[tail] EXCEPT !.next = new].ht = disk[tail].ht
            <7>1. disk[tail] \in Headers
              BY <1>0, <1>5, <5>2
            <7>2. QED BY <7>1 DEF Headers
          <6>2. QED BY <1>6, <5>2, <6>1
        <5>3. CASE disk[d].ht[h] # NoBlock /\ disk[tail].type \notin {"dir", "file"}
          BY <1>6, <5>3
        <5>4. QED BY <5>1, <5>2, <5>3
      <4>2. QED BY <1>0, <1>2, <1>10, <4>1
    <3>3. \A x \in L : disk[x].parent # new => W[x] = disk[x]
      BY <1>0, <1>2, <1>5, <1>6, <1>10
    <3>4. W[RootBlock].type = "root" /\ W[RootBlock].next = NoBlock /\ W[RootBlock].parent = NoBlock
      BY <1>0, <1>2, <1>5, <1>6, <1>10, <3>1 DEF Threaded, EntryHeaders
    <3>5. W[new].ht = EmptyTable
      BY <1>2, <1>3
    <3> DEFINE LL == L1
    <3>6. LL = {c \in L : disk[c].parent # new}
      OBVIOUS
    <3> HIDE DEF D1, h, LL
    <3>7. Threaded(W, T \cup {new}, LL, B, Q, P)
      BY <1>1, <3>2, <3>3, <3>4, <3>5, <3>6, WritingNew
    <3>8. QED BY <3>7 DEF LL
  <2>2. OwnBuckets(disk, L, B) => OwnBuckets(W, L1, B)
    <3>1. \A x \in L1 : W[x] = disk[x]
      BY <1>0, <1>2, <1>5, <1>6, <1>10
    <3>2. QED BY <3>1 DEF OwnBuckets
  <2>3. L1 \ {new} = {c \in L : disk[c].parent # new}
    OBVIOUS
  <2>4. QED BY <1>10, <2>1, <2>2, <2>3, <1>9 DEF With
<1>11. CASE d # new /\ disk[d].ht[h] # NoBlock /\ disk[tail].type \notin {"dir", "file"}
  <2>1. W = D1
    BY <1>6, <1>11 DEF H, WithEntry
  <2>2. Threaded(W, T \cup {new}, L1, B, Q, P) /\ (OwnBuckets(disk, L, B) => OwnBuckets(W, L1, B))
    BY <1>7, <1>9, <2>1
  <2>3. L1 \subseteq L \cup {new} /\ ~TakesSuccessor(d, n)
        /\ L1 \ {new} = {c \in L : disk[c].parent # new}
    BY <1>11 DEF TakesSuccessor, tail
  <2> HIDE DEF D1, h, L1, T1
  <2>4. QED BY <2>2, <2>3 DEF With
<1>12. CASE d # new /\ ~(disk[d].ht[h] # NoBlock /\ disk[tail].type \notin {"dir", "file"})
  <2> DEFINE t == IF disk[d].ht[h] = NoBlock THEN NoBlock ELSE tail
  <2>1. /\ D1[d] = disk[d] /\ d \in T1 \ {new}
        /\ t # NoBlock => tail \in L1 /\ tail # new /\ D1[tail] = disk[tail]
    BY <1>0, <1>4, <1>5, <1>12
  <2>2. Ready(D1, T1, L1, B, new, d, h, t)
    <3>1. new \in T1 \ (L1 \cup {RootBlock})
      OBVIOUS
    <3>2. D1[new].type \in {"dir", "file", "link"} /\ D1[new].name \in Names /\ D1[new].next = NoBlock
          /\ D1[new].parent = d
      BY <1>0, <1>3, <1>4
    <3>3. \A c \in L1 : D1[c].parent = d /\ B[c] = h => Fold[D1[c].name] # Fold[D1[new].name]
      BY <1>0, <1>3, <1>4, <1>8
    <3>4. IF t = NoBlock THEN D1[d].ht[h] = NoBlock
          ELSE t \in L1 /\ D1[t].parent = d /\ B[t] = h /\ D1[t].next = NoBlock
      <4>1. t = NoBlock => disk[d].ht[h] = NoBlock
        <5>1. tail \in L => tail # NoBlock
          BY <1>0
        <5>2. QED BY <1>5, <5>1
      <4>2. t # NoBlock => t = tail /\ disk[d].ht[h] # NoBlock
        OBVIOUS
      <4> HIDE DEF t, D1, L1
      <4>3. QED BY <1>5, <2>1, <4>1, <4>2
    <3> HIDE DEF t, D1, L1, T1
    <3>5. QED BY <1>0, <2>1, <3>1, <3>2, <3>3, <3>4 DEF Ready
  <2>3. PutIn(D1, W, T1, L1, new, d, h, t)
    <3>1. CASE disk[d].ht[h] = NoBlock
      <4>1. t = NoBlock
        BY <3>1
      <4>2. /\ W[d].ht = [disk[d].ht EXCEPT ![h] = new] /\ W[d].name = disk[d].name
            /\ W[d].parent = disk[d].parent /\ W[d].next = disk[d].next
            /\ W[d].type = IF disk[d].type = "root" THEN "root" ELSE "dir"
        <5>1. W[d] = [disk[d] EXCEPT !.ht = [disk[d].ht EXCEPT ![h] = new],
                                     !.type = IF @ = "root" THEN @ ELSE "dir"]
          BY <1>0, <1>2, <1>6, <1>12, <3>1
        <5>2. disk[d] \in Headers
          BY <1>0
        <5>3. QED BY <5>1, <5>2 DEF Headers
      <4>3. \A x \in T1 \ {d} : W[x] = D1[x]
        BY <1>0, <1>2, <1>4, <1>6, <3>1
      <4>4. \A k \in Buckets : W[d].ht[k] = IF k = h THEN new ELSE disk[d].ht[k]
        <5>1. disk[d].ht \in [Buckets -> Pointers]
          BY <1>0 DEF Headers
        <5>2. QED BY <4>2, <5>1
      <4>5. t \notin L1 \cup {new} /\ L1 \subseteq T1
        BY <1>0, <4>1
      <4> HIDE DEF t, D1, T1, L1
      <4>6. \A x \in T1 : W[x].name = D1[x].name /\ W[x].parent = D1[x].parent /\ W[x].next = D1[x].next
        BY <2>1, <4>2, <4>3
      <4>7. \A x \in T1 : W[x].type = D1[x].type \/ (D1[x].type # "root" /\ W[x].type = "dir")
        BY <2>1, <4>2, <4>3
      <4>8. \A x \in T1, k \in Buckets :
              W[x].ht[k] = IF t = NoBlock /\ x = d /\ k = h THEN new ELSE D1[x].ht[k]
        BY <2>1, <4>1, <4>3, <4>4
      <4>9. \A x \in L1 \cup {new} : W[x].next = IF x = t THEN new ELSE D1[x].next
        BY <4>5, <4>6 DEF T1
      <4>10. RootBlock \in T1
        BY <1>0 DEF T1
      <4>11. QED BY <4>6, <4>7, <4>8, <4>9, <4>10 DEF PutIn
    <3>2. CASE disk[d].ht[h] # NoBlock
      <4>1. t = tail /\ tail # NoBlock /\ tail \in Blocks /\ tail # new
        BY <1>0, <1>5, <2>1, <3>2
      <4>2. /\ W[tail].next = new /\ W[tail].name = disk[tail].name /\ W[tail].ht = disk[tail].ht
            /\ W[tail].parent = disk[tail].parent /\ W[tail].type = disk[tail].type
        <5>1. W[tail] = [disk[tail] EXCEPT !.next = new]
          BY <1>2, <1>6, <1>12, <3>2, <4>1
        <5>2. disk[tail] \in Headers
          BY <4>1
        <5>3. QED BY <5>1, <5>2 DEF Headers
      <4>3. \A x \in T1 \ {tail} : W[x] = D1[x]
        BY <1>0, <1>2, <1>4, <1>6, <1>12, <3>2
      <4>4. L1 \subseteq T1
        BY <1>0
      <4> HIDE DEF t, D1, T1, L1
      <4>5. \A x \in T1 : W[x].name = D1[x].name /\ W[x].parent = D1[x].parent
                          /\ W[x].type = D1[x].type /\ W[x].ht = D1[x].ht
        BY <2>1, <4>1, <4>2, <4>3
      <4>6. \A x \in T1 : W[x].next = IF x = t THEN new ELSE D1[x].next
        BY <4>1, <4>2, <4>3
      <4>7. RootBlock \in T1 /\ RootBlock # t
        BY <1>0, <1>5, <3>2, <4>1 DEF T1, Threaded, WitnessTypes
      <4>8. QED BY <4>1, <4>4, <4>5, <4>6, <4>7 DEF PutIn, T1
    <3>3. QED BY <3>1, <3>2
  <2>4. PICK Q2, P2 : Threaded(W, T1, L1 \cup {new}, [B EXCEPT ![new] = h], Q2, P2)
    <3> HIDE DEF t, D1, T1, L1
    <3> QED BY <1>1, <1>4, <1>7, <2>2, <2>3, PuttingIn
  <2>5. OwnBuckets(disk, L, B) /\ Hash[Cut[n]] = Hash[n]
          => OwnBuckets(W, L1 \cup {new}, [B EXCEPT ![new] = h])
    <3> SUFFICES ASSUME OwnBuckets(disk, L, B), Hash[Cut[n]] = Hash[n], NEW b \in L1 \cup {new}
                 PROVE  Hash[W[b].name] = [B EXCEPT ![new] = h][b]
      BY DEF OwnBuckets
    <3>1. CASE b = new
      BY <1>0, <1>2, <1>3, <3>1
    <3>2. CASE b # new
      <4>1. b \in L1 /\ b \in T1 /\ W[b].name = D1[b].name
        BY <1>0, <2>3, <3>2 DEF PutIn
      <4>2. Hash[D1[b].name] = B[b]
        BY <1>9, <4>1 DEF OwnBuckets
      <4>3. QED BY <1>0, <3>2, <4>1, <4>2
    <3>3. QED BY <3>1, <3>2
  <2>6. new \in L1 \cup {new} /\ [B EXCEPT ![new] = h][new] = h
        /\ (L1 \cup {new}) \ {new} = {c \in L : disk[c].parent # new}
    BY <1>0
  <2>7. QED BY <1>9, <2>4, <2>5, <2>6 DEF With
<1>13. QED
  BY <1>10, <1>11, <1>12 DEF With

\* E is the image N of the volume without the entry b in its chain.
IsWithout(E, N, T, L, B, Q, b) ==
    /\ E \in [Blocks -> Headers] /\ b \in L /\ E[b] = N[b]
    /\ \A x \in Blocks \ {b} : /\ E[x].name = disk[x].name /\ E[x].type = disk[x].type
                               /\ E[x].parent = disk[x].parent
    /\ \E P2 : Threaded(E, T, L \ {b}, B, Q, P2)

\* Taking the entry found out of its bucket, when nothing but its own name,
\* parent and successor has been written before.
LEMMA UnlinkThreads ==
  ASSUME disk \in [Blocks -> Headers], NEW T, NEW L, NEW B, NEW Q, NEW P,
         Threaded(disk, T, L, B, Q, P), NEW d \in T, NEW n, Hash[n] \in Buckets,
         NEW b, b = adfNameToEntryBlk(disk, d, n), b # NoBlock,
         NEW N \in [Blocks -> Headers], \A x \in Blocks \ {b} : N[x] = disk[x],
         N[b].type = disk[b].type, N[b].ht = disk[b].ht,
         NEW E, E = Unlinked(N, d, Hash[n], UpdSect(disk, d, n), disk[b].next)
  PROVE  IsWithout(E, N, T, L, B, Q, b)
<1> DEFINE h == Hash[n]
           next == disk[b].next
<1>0. /\ T \subseteq Blocks /\ L \subseteq T /\ RootBlock \in T /\ NoBlock \notin Blocks
      /\ h \in Buckets /\ d \in Blocks /\ Q \in [Blocks -> Nat]
  BY ConstantsAssumption DEF Threaded, WitnessTypes
<1>1. /\ b \in L /\ disk[b].parent = d /\ B[b] = h /\ Match(disk, b, n)
      /\ UpdSect(disk, d, n) = P[b]
  BY LookupFinds
<1>2. b # d /\ b \in Blocks /\ next \in Pointers
  BY <1>0, <1>1 DEF Threaded, EntryHeaders, Headers
<1>3. P[b] # NoBlock => P[b] \in L /\ disk[P[b]].next = b /\ P[b] # b
  <2>1. P[b] # NoBlock => P[b] \in L /\ disk[P[b]].next = b
    BY <1>1 DEF Threaded, AllComeFrom, ComesFrom
  <2>2. P[b] # NoBlock => Q[P[b]] < Q[b]
    BY <1>0, <1>1, <2>1 DEF Threaded, ChainsLead
  <2>3. P[b] # NoBlock => Q[P[b]] \in Nat /\ Q[b] \in Nat
    BY <1>0, <1>1, <2>1
  <2>4. QED BY <2>1, <2>2, <2>3
<1>4. E = IF P[b] = NoBlock THEN SetTable(N, d, h, next) ELSE SetNext(N, P[b], next)
  BY <1>1 DEF Unlinked
<1>5. N[d] = disk[d] /\ N[d] \in Headers /\ disk[d].ht \in [Buckets -> Pointers]
  BY <1>0, <1>2 DEF Headers
<1> HIDE DEF h, next
<1>6. /\ E \in [Blocks -> Headers]
      /\ \A x \in Blocks : /\ E[x].type = N[x].type /\ E[x].name = N[x].name
                           /\ E[x].parent = N[x].parent
      /\ \A x \in Blocks : E[x].next = IF P[b] # NoBlock /\ x = P[b] THEN next ELSE N[x].next
      /\ \A x \in Blocks, k \in Buckets :
            E[x].ht[k] = IF P[b] = NoBlock /\ x = d /\ k = h THEN next ELSE N[x].ht[k]
      /\ E[b] = N[b]
  <2>1. CASE P[b] = NoBlock
    <3>1. E = [N EXCEPT ![d] = [N[d] EXCEPT !.ht = [N[d].ht EXCEPT ![h] = next]]]
      BY <1>0, <1>4, <1>5, <2>1 DEF SetTable
    <3>2. [N[d] EXCEPT !.ht = [N[d].ht EXCEPT ![h] = next]] \in Headers
      BY <1>0, <1>2, <1>5 DEF Headers
    <3> DEFINE R == [N[d] EXCEPT !.ht = [N[d].ht EXCEPT ![h] = next]]
    <3>3. /\ R.type = N[d].type /\ R.name = N[d].name /\ R.parent = N[d].parent
          /\ R.next = N[d].next /\ R.ht = [N[d].ht EXCEPT ![h] = next]
      BY <1>5 DEF Headers
    <3>4. \A k \in Buckets : R.ht[k] = IF k = h THEN next ELSE N[d].ht[k]
      BY <1>0, <1>5, <3>3
    <3> HIDE DEF R
    <3>5. E \in [Blocks -> Headers] /\ E[d] = R /\ \A x \in Blocks \ {d} : E[x] = N[x]
      BY <1>0, <3>1, <3>2 DEF R
    <3>6. ASSUME NEW x \in Blocks
          PROVE  /\ E[x].type = N[x].type /\ E[x].name = N[x].name
                 /\ E[x].parent = N[x].parent /\ E[x].next = N[x].next
                 /\ \A k \in Buckets : E[x].ht[k] = IF x = d /\ k = h THEN next ELSE N[x].ht[k]
      <4>1. CASE x = d
        BY <3>3, <3>4, <3>5, <4>1
      <4>2. CASE x # d
        BY <3>5, <4>2
      <4>3. QED BY <4>1, <4>2
    <3>7. E[b] = N[b]
      BY <1>2, <3>5
    <3>8. QED BY <2>1, <3>5, <3>6, <3>7
  <2>2. CASE P[b] # NoBlock
    <3>0. P[b] \in Blocks /\ N[P[b]] \in Headers
      BY <1>0, <1>3, <2>2
    <3>1. E = [N EXCEPT ![P[b]] = [N[P[b]] EXCEPT !.next = next]]
      BY <1>4, <2>2, <3>0 DEF SetNext
    <3> DEFINE R == [N[P[b]] EXCEPT !.next = next]
    <3>2. R \in Headers
      BY <1>2, <3>0 DEF Headers
    <3>3. /\ R.type = N[P[b]].type /\ R.name = N[P[b]].name /\ R.parent = N[P[b]].parent
          /\ R.ht = N[P[b]].ht /\ R.next = next
      BY <3>0 DEF Headers
    <3>4. E = [N EXCEPT ![P[b]] = R]
      BY <3>1
    <3> HIDE DEF R
    <3>5. E \in [Blocks -> Headers] /\ E[P[b]] = R /\ \A x \in Blocks \ {P[b]} : E[x] = N[x]
      BY <3>0, <3>2, <3>4
    <3>6. QED BY <1>2, <1>3, <2>2, <3>3, <3>5
  <2>3. QED BY <2>1, <2>2
<1>7. TakenOut(disk, E, T, L, B, P, b)
  <2>1. \A x \in T : E[x].type = disk[x].type
    BY <1>0, <1>6
  <2>2. \A x \in T \ {b} : E[x].name = disk[x].name /\ E[x].parent = disk[x].parent
    BY <1>0, <1>6
  <2>3. \A x \in T, k \in Buckets :
          E[x].ht[k] = IF P[b] = NoBlock /\ x = disk[b].parent /\ k = B[b]
                         THEN disk[b].next ELSE disk[x].ht[k]
    BY <1>0, <1>1, <1>6 DEF next
  <2>4. \A x \in L \ {b} : E[x].next = IF x = P[b] THEN disk[b].next ELSE disk[x].next
    BY <1>0, <1>6 DEF next
  <2>5. E[RootBlock].next = disk[RootBlock].next
    <3>1. P[b] # NoBlock => P[b] # RootBlock
      BY <1>3 DEF Threaded, WitnessTypes
    <3>2. b # RootBlock
      BY <1>1 DEF Threaded, WitnessTypes
    <3>3. QED BY <1>0, <1>6, <3>1, <3>2
  <2>6. QED BY <2>1, <2>2, <2>3, <2>4, <2>5 DEF TakenOut
<1>8. \E P2 : Threaded(E, T, L \ {b}, B, Q, P2)
  BY <1>1, <1>6, <1>7, TakingOut
<1>9. \A x \in Blocks \ {b} : /\ E[x].name = disk[x].name /\ E[x].type = disk[x].type
                              /\ E[x].parent = disk[x].parent
  BY <1>6
<1>10. QED
  BY <1>1, <1>6, <1>8, <1>9 DEF IsWithout

\* One of the entries in L is in the bucket of the name n of d, and has that name.
TakenIn(L, B, d, n) ==
    \E c \in L : disk[c].parent = d /\ B[c] = Hash[n] /\ Fold[disk[c].name] = Fold[n]

\* What the last image E of a rename of b to new in np has changed, other than the
\* bucket of b: linked says whether b is in its new bucket.
IsRenamed(E, linked, L, L2, B, b, np, new) ==
    /\ b \in L /\ E[b].name = new /\ E[b].parent = np
    /\ \A x \in Blocks \ {b} : E[x].name = disk[x].name /\ E[x].parent = disk[x].parent
    /\ linked => L2 = L /\ ~TakenIn(L \ {b}, B, np, new)
    /\ ~linked => /\ L2 = L \ {b}
                  /\ \/ TakenIn(L \ {b}, B, np, new)
                     \/ \E c \in L : disk[c].parent = np /\ disk[c].type = "link"

\* E is U with the block b in bucket h of np, where S was, behind t or first.
PlacedIn(U, E, S, L1, B, b, np, new, h, t) ==
    /\ IF t = NoBlock THEN U[np].ht[h] = NoBlock
       ELSE t \in L1 /\ U[t].parent = np /\ B[t] = h /\ U[t].next = NoBlock
    /\ \A c \in S : Fold[U[c].name] # Fold[new]
    /\ \A x \in Blocks : /\ E[x].type = U[x].type /\ E[x].name = U[x].name
                         /\ E[x].parent = U[x].parent
    /\ \A x \in Blocks : E[x].next = IF x = t THEN b ELSE U[x].next
    /\ \A x \in Blocks, k \in Buckets :
          E[x].ht[k] = IF t = NoBlock /\ x = np /\ k = h THEN b ELSE U[x].ht[k]

IsRelinked(E, T, L, B, b, np, new) ==
    \E L2, B2, Q2, P2 :
        /\ Threaded(E, T, L2, B2, Q2, P2)
        /\ L2 \subseteq L
        /\ OwnBuckets(disk, L, B) => OwnBuckets(E, L2, B2)
        /\ IsRenamed(E, TRUE, L, L2, B, b, np, new)

\* A rename, or a move into another directory: however it ends, every image it
\* writes has headers in its blocks, and the last one is threaded.
LEMMA RenameThreads ==
  ASSUME disk \in [Blocks -> Headers], NEW T, NEW L, NEW B, NEW Q, NEW P,
         Threaded(disk, T, L, B, Q, P), NEW p \in T, NEW np \in T,
         NEW old, Hash[old] \in Buckets, NEW new \in Names,
         adfNameToEntryBlk(disk, p, old) # NoBlock, adfNameToEntryBlk(disk, p, old) # np,
         NEW imgs, imgs = RenameImages(p, old, np, new)
  PROVE  /\ imgs \in Seq([Blocks -> Headers]) /\ Len(imgs) \in 1 .. 4 /\ imgs[1] = disk
         /\ \A x \in Blocks : /\ imgs[Len(imgs)][x].name \in {disk[x].name, new}
                             /\ imgs[Len(imgs)][x].type = disk[x].type
         /\ \E L2, B2, Q2, P2 :
              /\ Threaded(imgs[Len(imgs)], T, L2, B2, Q2, P2)
              /\ L2 \subseteq L
              /\ OwnBuckets(disk, L, B) => OwnBuckets(imgs[Len(imgs)], L2, B2)
              /\ IsRenamed(imgs[Len(imgs)], Relinked(imgs), L, L2, B,
                           adfNameToEntryBlk(disk, p, old), np, new)
<1> DEFINE b == adfNameToEntryBlk(disk, p, old)
           N == Renamed(b, np, new)
           U == Unlinked(N, p, Hash[old], UpdSect(disk, p, old), disk[b].next)
           h == Hash[new]
           bucket == Chain(U, np, h)
           tail == ChainEnd(U, np, h)
           L1 == L \ {b}
<1>0. /\ T \subseteq Blocks /\ L \subseteq T /\ RootBlock \in T /\ NoBlock \notin Blocks
      /\ h \in Buckets /\ np \in Blocks /\ RootBlock \notin L /\ B \in [Blocks -> Buckets]
  BY ConstantsAssumption DEF Threaded, WitnessTypes
<1>1. b \in L /\ b \in Blocks /\ b # np
  BY <1>0, LookupFinds
<1>2. /\ N \in [Blocks -> Headers] /\ \A x \in Blocks \ {b} : N[x] = disk[x]
      /\ N[b].type = disk[b].type /\ N[b].ht = disk[b].ht /\ N[b].name = new
      /\ N[b].parent = np /\ N[b].next = NoBlock
  <2> DEFINE R == [disk[b] EXCEPT !.name = new, !.parent = np, !.next = NoBlock]
  <2>1. N = [disk EXCEPT ![b] = R]
    BY <1>1 DEF Renamed
  <2>2. disk[b] \in Headers
    BY <1>1
  <2>3. R \in Headers /\ R.type = disk[b].type /\ R.ht = disk[b].ht /\ R.name = new
        /\ R.parent = np /\ R.next = NoBlock
    BY <1>0, <2>2 DEF Headers, Pointers
  <2> HIDE DEF R
  <2>4. QED BY <1>1, <2>1, <2>3
<1> HIDE DEF N, b
<1>3. /\ U \in [Blocks -> Headers] /\ U[b] = N[b]
      /\ \A x \in Blocks \ {b} : U[x].name = disk[x].name /\ U[x].parent = disk[x].parent
      /\ \A x \in Blocks : U[x].name \in {disk[x].name, new} /\ U[x].type = disk[x].type
      /\ \E P2 : Threaded(U, T, L1, B, Q, P2)
  <2>1. b = adfNameToEntryBlk(disk, p, old) /\ b # NoBlock
    BY DEF b
  <2> DEFINE V == U
  <2>2. V = Unlinked(N, p, Hash[old], UpdSect(disk, p, old), disk[b].next)
    OBVIOUS
  <2> HIDE DEF V
  <2>3. /\ V \in [Blocks -> Headers] /\ V[b] = N[b]
        /\ \A x \in Blocks \ {b} : /\ V[x].name = disk[x].name /\ V[x].type = disk[x].type
                                   /\ V[x].parent = disk[x].parent
        /\ \E P2 : Threaded(V, T, L \ {b}, B, Q, P2)
    <3>1. IsWithout(V, N, T, L, B, Q, b)
      BY <1>2, <2>1, <2>2, UnlinkThreads
    <3>2. QED BY <3>1 DEF IsWithout
  <2>4. \A x \in Blocks \ {b} : V[x].name = disk[x].name /\ V[x].parent = disk[x].parent
    BY <2>3
  <2>5. \A x \in Blocks : V[x].name \in {disk[x].name, new} /\ V[x].type = disk[x].type
    BY <1>1, <1>2, <2>3
  <2>6. QED BY <2>3, <2>4, <2>5 DEF V
<1>4. PICK P1 : Threaded(U, T, L1, B, Q, P1)
  BY <1>3
<1>5. imgs = IF bucket = {} THEN <<disk, N, U, SetTable(U, np, h, b)>>
             ELSE IF \/ \E c \in bucket : Match(U, c, new)
                     \/ \E c \in bucket : ~Readable(U, c)
                     \/ U[tail].type \notin {"dir", "file"}
               THEN <<disk, N, U>>
             ELSE <<disk, N, U, SetNext(U, tail, b)>>
  BY DEF RenameImages, b, N
<1> HIDE DEF U
<1>6. bucket = {c \in L1 : U[c].parent = np /\ B[c] = h}
  BY <1>0, <1>3, <1>4, ChainIsBucket
<1>7. OwnBuckets(disk, L, B) => OwnBuckets(U, L1, B)
  BY <1>0, <1>3 DEF OwnBuckets
<1>8. /\ U[b].type \in {"dir", "file", "link"} /\ U[b].name = new /\ U[b].next = NoBlock
      /\ U[b].parent = np /\ b \in T \ (L1 \cup {RootBlock}) /\ np \in T \ {b}
  BY <1>0, <1>1, <1>2, <1>3 DEF Threaded, EntryHeaders
\* Put into the table, or behind the tail: both as the entry at place t.
<1>9. ASSUME NEW t \in Pointers, NEW E \in [Blocks -> Headers],
             PlacedIn(U, E, bucket, L1, B, b, np, new, h, t)
      PROVE  IsRelinked(E, T, L, B, b, np, new)
  <2>0. /\ IF t = NoBlock THEN U[np].ht[h] = NoBlock
           ELSE t \in L1 /\ U[t].parent = np /\ B[t] = h /\ U[t].next = NoBlock
        /\ \A c \in bucket : Fold[U[c].name] # Fold[new]
        /\ \A x \in Blocks : /\ E[x].type = U[x].type /\ E[x].name = U[x].name
                             /\ E[x].parent = U[x].parent
        /\ \A x \in Blocks : E[x].next = IF x = t THEN b ELSE U[x].next
        /\ \A x \in Blocks, k \in Buckets :
              E[x].ht[k] = IF t = NoBlock /\ x = np /\ k = h THEN b ELSE U[x].ht[k]
    BY <1>9 DEF PlacedIn
  <2>1. \A c \in L1 : U[c].parent = np /\ B[c] = h => Fold[U[c].name] # Fold[U[b].name]
    BY <1>6, <1>8, <2>0
  <2> HIDE DEF bucket
  <2>2. Ready(U, T, L1, B, b, np, h, t)
    BY <1>0, <1>8, <2>0, <2>1 DEF Ready
  <2>3. PutIn(U, E, T, L1, b, np, h, t)
    BY <1>0, <1>1, <2>0 DEF PutIn
  <2>4. PICK Q2, P2 : Threaded(E, T, L1 \cup {b}, [B EXCEPT ![b] = h], Q2, P2)
    BY <1>3, <1>4, <2>0, <2>2, <2>3, PuttingIn
  <2>5. OwnBuckets(disk, L, B) => OwnBuckets(E, L1 \cup {b}, [B EXCEPT ![b] = h])
    <3> SUFFICES ASSUME OwnBuckets(disk, L, B), NEW x \in L1 \cup {b}
                 PROVE  Hash[E[x].name] = [B EXCEPT ![b] = h][x]
      BY DEF OwnBuckets
    <3>1. x \in Blocks /\ E[x].name = U[x].name
      BY <1>0, <1>1, <2>0
    <3>2. CASE x = b
      BY <1>0, <1>1, <1>8, <3>1, <3>2
    <3>3. CASE x # b
      <4>1. Hash[U[x].name] = B[x]
        BY <1>7, <3>3 DEF OwnBuckets
      <4>2. QED BY <1>0, <3>1, <3>3, <4>1
    <3>4. QED BY <3>2, <3>3
  <2>6. L1 \cup {b} \subseteq L /\ L1 \cup {b} = L
    BY <1>1
  <2>7. IsRenamed(E, TRUE, L, L1 \cup {b}, B, b, np, new)
    <3>1. \A x \in Blocks \ {b} : E[x].name = disk[x].name /\ E[x].parent = disk[x].parent
      BY <1>3, <2>0
    <3>2. E[b].name = new /\ E[b].parent = np
      BY <1>1, <1>8, <2>0
    <3>3. ~TakenIn(L \ {b}, B, np, new)
      <4>1. \A c \in L1 : U[c].name = disk[c].name /\ U[c].parent = disk[c].parent
        BY <1>0, <1>3
      <4>2. \A c \in L1 : U[c].parent = np /\ B[c] = h => Fold[U[c].name] # Fold[new]
        BY <1>8, <2>1
      <4>3. QED BY <4>1, <4>2 DEF TakenIn
    <3>4. QED BY <1>1, <2>6, <3>1, <3>2, <3>3 DEF IsRenamed
  <2>8. QED BY <2>4, <2>5, <2>6, <2>7 DEF IsRelinked
<1>10. CASE bucket = {}
  <2> DEFINE E == SetTable(U, np, h, b)
             R == [U[np] EXCEPT !.ht = [U[np].ht EXCEPT ![h] = b]]
  <2>1. E = [U EXCEPT ![np] = R] /\ U[np] \in Headers /\ U[np].ht \in [Buckets -> Pointers]
    BY <1>0, <1>3 DEF SetTable, Headers
  <2>2. /\ R \in Headers /\ R.type = U[np].type /\ R.name = U[np].name /\ R.parent = U[np].parent
        /\ R.next = U[np].next /\ \A k \in Buckets : R.ht[k] = IF k = h THEN b ELSE U[np].ht[k]
    <3>1. [U[np].ht EXCEPT ![h] = b] \in [Buckets -> Pointers]
      BY <1>1, <2>1 DEF Pointers
    <3>2. \A k \in Buckets : [U[np].ht EXCEPT ![h] = b][k] = IF k = h THEN b ELSE U[np].ht[k]
      BY <2>1
    <3> DEFINE ht == [U[np].ht EXCEPT ![h] = b]
    <3> HIDE DEF ht
    <3>3. QED BY <2>1, <3>1, <3>2 DEF Headers, ht
  <2> HIDE DEF R
  <2>3. E \in [Blocks -> Headers] /\ E[np] = R /\ \A x \in Blocks \ {np} : E[x] = U[x]
    BY <1>0, <1>3, <2>1, <2>2
  <2>4. imgs = <<disk, N, U, E>>
    BY <1>5, <1>10
  <2> HIDE DEF E
  <2>5. U[np].ht[h] = NoBlock
    <3>1. U[np].ht[h] # NoBlock => U[np].ht[h] \in bucket
      <4> HIDE DEF bucket
      <4> QED BY <1>0, <1>4, <1>6 DEF Threaded, TablesLead
    <3>2. QED BY <1>10, <3>1
  <2>6. /\ \A x \in Blocks : /\ E[x].type = U[x].type /\ E[x].name = U[x].name
                             /\ E[x].parent = U[x].parent /\ E[x].next = U[x].next
        /\ \A x \in Blocks, k \in Buckets :
              E[x].ht[k] = IF x = np /\ k = h THEN b ELSE U[x].ht[k]
    BY <2>2, <2>3
  <2>7. IsRelinked(E, T, L, B, b, np, new)
    <3>1. NoBlock \in Pointers /\ \A x \in Blocks : x # NoBlock
      BY <1>0 DEF Pointers
    <3>2. \A c \in bucket : Fold[U[c].name] # Fold[new]
      BY <1>10
    <3>3. \A x \in Blocks : E[x].next = IF x = NoBlock THEN b ELSE U[x].next
      BY <2>6, <3>1
    <3>4. PlacedIn(U, E, bucket, L1, B, b, np, new, h, NoBlock)
      BY ONLY <2>5, <2>6, <3>2, <3>3 DEF PlacedIn
    <3> HIDE DEF bucket, L1
    <3>5. QED BY <1>9, <2>3, <3>1, <3>4
  <2>8. \A x \in Blocks : E[x].name \in {disk[x].name, new} /\ E[x].type = disk[x].type
    BY <1>3, <2>6
  <2>9. /\ imgs \in Seq([Blocks -> Headers]) /\ Len(imgs) = 4 /\ imgs[1] = disk /\ imgs[4] = E
        /\ Relinked(imgs) = TRUE /\ imgs[Len(imgs)] = E /\ Len(imgs) \in 1 .. 4
    BY <1>2, <1>3, <2>3, <2>4 DEF Relinked
  <2>10. QED BY <2>7, <2>8, <2>9 DEF b, IsRelinked
<1>11. CASE bucket # {} /\ (\/ \E c \in bucket : Match(U, c, new)
                            \/ \E c \in bucket : ~Readable(U, c)
                            \/ U[tail].type \notin {"dir", "file"})
  <2>1. imgs = <<disk, N, U>>
    BY <1>5, <1>11
  <2>2. L1 \subseteq L
    OBVIOUS
  <2>3. IsRenamed(U, FALSE, L, L1, B, b, np, new)
    <3>1. /\ \A x \in Blocks \ {b} : U[x].name = disk[x].name /\ U[x].parent = disk[x].parent
          /\ U[b].name = new /\ U[b].parent = np
      BY <1>1, <1>3, <1>8
    <3>2. ASSUME NEW c \in bucket
          PROVE  /\ c \in L \ {b} /\ c \in L /\ c \in Blocks /\ disk[c].parent = np /\ B[c] = h
                 /\ U[c].name = disk[c].name /\ U[c].type = disk[c].type
                 /\ disk[c].type \in {"dir", "file", "link"}
      <4>1. c \in L1 /\ U[c].parent = np /\ B[c] = h
        BY <1>6
      <4>2. disk[c].type \in {"dir", "file", "link"}
        BY <4>1 DEF Threaded, EntryHeaders
      <4>3. QED BY <1>0, <1>3, <3>1, <4>1, <4>2
    <3>3. tail \in bucket
      <4>1. U[np].ht[h] # NoBlock
        BY <1>0, <1>3, <1>4, <1>11, BucketHasFirst
      <4>2. tail \in L1 /\ U[tail].parent = np /\ B[tail] = h
        BY <1>0, <1>3, <1>4, <4>1, ChainHasEnd
      <4> HIDE DEF bucket
      <4>3. QED BY <1>6, <4>2
    <3> HIDE DEF bucket, tail
    <3>4. (\E c \in bucket : Match(U, c, new)) => TakenIn(L \ {b}, B, np, new)
      BY <3>2 DEF TakenIn, Match
    <3>5. ~\E c \in bucket : ~Readable(U, c)
      BY <3>2 DEF Readable
    <3>6. U[tail].type \notin {"dir", "file"} => \E c \in L : disk[c].parent = np /\ disk[c].type = "link"
      BY <3>2, <3>3
    <3>7. TakenIn(L \ {b}, B, np, new) \/ \E c \in L : disk[c].parent = np /\ disk[c].type = "link"
      BY <1>11, <3>4, <3>5, <3>6
    <3>8. QED BY <1>1, <3>1, <3>7 DEF IsRenamed
  <2> HIDE DEF L1, bucket, tail
  <2>4. /\ imgs \in Seq([Blocks -> Headers]) /\ Len(imgs) = 3 /\ imgs[1] = disk /\ imgs[3] = U
        /\ Relinked(imgs) = FALSE /\ imgs[Len(imgs)] = U /\ Len(imgs) \in 1 .. 4
    BY <1>2, <1>3, <2>1 DEF Relinked
  <2>5. \A x \in Blocks : U[x].name \in {disk[x].name, new} /\ U[x].type = disk[x].type
    BY <1>3
  <2>6. QED BY <1>4, <1>7, <2>2, <2>3, <2>4, <2>5 DEF b
<1>12. CASE bucket # {} /\ ~(\/ \E c \in bucket : Match(U, c, new)
                             \/ \E c \in bucket : ~Readable(U, c)
                             \/ U[tail].type \notin {"dir", "file"})
  <2> DEFINE E == SetNext(U, tail, b)
             R == [U[tail] EXCEPT !.next = b]
  <2>1. U[np].ht[h] # NoBlock
    BY <1>0, <1>3, <1>4, <1>12, BucketHasFirst
  <2>2. /\ tail \in L1 /\ U[tail].parent = np /\ B[tail] = h /\ U[tail].next = NoBlock
    BY <1>0, <1>3, <1>4, <2>1, ChainHasEnd
  <2>3. tail \in Blocks /\ tail # NoBlock /\ tail \in Pointers /\ U[tail] \in Headers
    BY <1>0, <1>3, <2>2 DEF Pointers
  <2>4. imgs = <<disk, N, U, E>>
    BY <1>5, <1>12
  <2>5. \A c \in bucket : Fold[U[c].name] # Fold[new]
    BY <1>12 DEF Match
  <2> HIDE DEF bucket, tail
  <2>6. E = [U EXCEPT ![tail] = R]
    BY <2>3 DEF SetNext
  <2>7. /\ R \in Headers /\ R.type = U[tail].type /\ R.name = U[tail].name
        /\ R.parent = U[tail].parent /\ R.next = b /\ R.ht = U[tail].ht
    BY <1>1, <2>3 DEF Headers, Pointers
  <2> HIDE DEF E, R
  <2>8. E \in [Blocks -> Headers] /\ E[tail] = R /\ \A x \in Blocks \ {tail} : E[x] = U[x]
    BY <1>3, <2>3, <2>6, <2>7
  <2>9. /\ \A x \in Blocks : /\ E[x].type = U[x].type /\ E[x].name = U[x].name
                             /\ E[x].parent = U[x].parent
        /\ \A x \in Blocks : E[x].next = IF x = tail THEN b ELSE U[x].next
        /\ \A x \in Blocks, k \in Buckets :
              E[x].ht[k] = IF tail = NoBlock /\ x = np /\ k = h THEN b ELSE U[x].ht[k]
    BY <2>3, <2>7, <2>8
  <2>10. IsRelinked(E, T, L, B, b, np, new)
    <3>1. PlacedIn(U, E, bucket, L1, B, b, np, new, h, tail)
      BY ONLY <2>2, <2>3, <2>5, <2>9 DEF PlacedIn
    <3> HIDE DEF L1
    <3>2. QED BY <1>9, <2>3, <2>8, <3>1
  <2>11. \A x \in Blocks : E[x].name \in {disk[x].name, new} /\ E[x].type = disk[x].type
    BY <1>3, <2>9
  <2>12. /\ imgs \in Seq([Blocks -> Headers]) /\ Len(imgs) = 4 /\ imgs[1] = disk /\ imgs[4] = E
         /\ Relinked(imgs) = TRUE /\ imgs[Len(imgs)] = E /\ Len(imgs) \in 1 .. 4
    BY <1>2, <1>3, <2>4, <2>8 DEF Relinked
  <2>13. QED BY <2>10, <2>11, <2>12 DEF b, IsRelinked
<1>13. QED
  BY <1>10, <1>11, <1>12

----------------------------------------------------------------------------
(* What a threaded volume promises.                                         *)

\* The tree is made of the root and of linked entries.
LEMMA TreeIsLinked ==
  ASSUME NEW D \in [Blocks -> Headers], NEW T, NEW L, NEW B, NEW Q, NEW P,
         Threaded(D, T, L, B, Q, P)
  PROVE  Tree(D) \subseteq L \cup {RootBlock}
<1> DEFINE R == L \cup {RootBlock}
           F == LedTo(D)
<1>0. R \subseteq Blocks /\ L \subseteq T /\ RootBlock \in T
  BY DEF Threaded, WitnessTypes
<1>1. ASSUME NEW S \in SUBSET Blocks
      PROVE  F[S] = S \cup {c \in Blocks : \E b \in S : c = D[b].next
                                                          \/ \E h \in Buckets : c = D[b].ht[h]}
  BY DEF LedTo
<1> HIDE DEF F
<1>2. ASSUME NEW S \in SUBSET Blocks PROVE F[S] \in SUBSET Blocks
  BY <1>1
<1>3. ASSUME NEW b \in R, NEW c \in Blocks,
             c = D[b].next \/ \E h \in Buckets : c = D[b].ht[h]
      PROVE  c \in R
  <2>1. c # NoBlock
    BY ConstantsAssumption
  <2>2. ASSUME NEW h \in Buckets, c = D[b].ht[h] PROVE c \in R
    BY <1>0, <2>1, <2>2 DEF Threaded, TablesLead
  <2>3. ASSUME c = D[b].next PROVE c \in R
    BY <2>1, <2>3 DEF Threaded, ChainsLead, EntryHeaders
  <2>4. QED BY <1>3, <2>2, <2>3
<1>5. ASSUME NEW S \in SUBSET R PROVE F[S] \in SUBSET R
  BY <1>0, <1>1, <1>3
<1> HIDE DEF R
<1>6. \A i \in 0 .. Fuel : Walk(F, {RootBlock}, Fuel)[i] \in SUBSET R
  <2>1. {RootBlock} \in SUBSET R /\ SUBSET R \in SUBSET (SUBSET Blocks)
        /\ {RootBlock} \in SUBSET Blocks
    BY <1>0 DEF R
  <2> DEFINE SB == SUBSET Blocks
             SR == SUBSET R
  <2>2. {RootBlock} \in SR /\ {RootBlock} \in SB /\ SR \in SUBSET SB
    BY <2>1
  <2>3. (\A x \in SB : F[x] \in SB) /\ (\A x \in SR : F[x] \in SR)
    BY <1>2, <1>5
  <2> HIDE DEF SB, SR
  <2>4. \A i \in 0 .. Fuel : Walk(F, {RootBlock}, Fuel)[i] \in SR
    BY <2>2, <2>3, FuelIsNat, WalkStays
  <2>5. QED BY <2>4 DEF SR
<1>7. QED
  BY <1>6, FuelIsNat DEF Tree, F, R

\* The directories of the tree are among the blocks whose tables may be followed.
LEMMA DirsAreFollowed ==
  ASSUME NEW D \in [Blocks -> Headers], NEW T, NEW L, NEW B, NEW Q, NEW P,
         Threaded(D, T, L, B, Q, P)
  PROVE  Dirs(D) \subseteq T /\ Dirs(D) \subseteq L \cup {RootBlock}
  BY TreeIsLinked DEF Dirs, Threaded, WitnessTypes

\* A threaded volume whose entries are in their own buckets is sound.
LEMMA ThreadedIsSound ==
  ASSUME disk \in [Blocks -> Headers], NEW T, NEW L, NEW B, NEW Q, NEW P,
         Threaded(disk, T, L, B, Q, P), OwnBuckets(disk, L, B)
  PROVE  TreeSound
<1> SUFFICES ASSUME NEW d \in Dirs(disk), NEW h \in Buckets
             PROVE  /\ ChainAt(disk, d, h)[Fuel] = NoBlock
                    /\ \A b \in Chain(disk, d, h) :
                          /\ disk[b].type \in {"dir", "file", "link"}
                          /\ disk[b].parent = d
                          /\ Hash[disk[b].name] = h
  BY DEF TreeSound
<1>1. d \in T
  BY DirsAreFollowed
<1>2. ChainAt(disk, d, h)[Fuel] = NoBlock
  BY <1>1, ChainEnds
<1>3. Chain(disk, d, h) = {c \in L : disk[c].parent = d /\ B[c] = h}
  BY <1>1, ChainIsBucket
<1>4. QED
  BY <1>2, <1>3 DEF Threaded, EntryHeaders, OwnBuckets

\* What a lookup returns is a block or nothing.
LEMMA LookupType ==
  ASSUME NEW D \in [Blocks -> Headers], NEW T, NEW L, NEW B, NEW Q, NEW P,
         Threaded(D, T, L, B, Q, P), NEW d \in T, NEW n, Hash[n] \in Buckets
  PROVE  adfNameToEntryBlk(D, d, n) \in L \cup {NoBlock}
  BY LookupFinds

\* In a threaded volume an entry in its own bucket is found by its name.
LEMMA LookupOfEntry ==
  ASSUME NEW D \in [Blocks -> Headers], NEW T, NEW L, NEW B, NEW Q, NEW P,
         Threaded(D, T, L, B, Q, P), NEW d \in T, NEW b \in L, D[b].parent = d,
         Hash[D[b].name] = B[b]
  PROVE  adfNameToEntryBlk(D, d, D[b].name) = b
<1> DEFINE n == D[b].name
           e == adfNameToEntryBlk(D, d, n)
<1>0. n \in Names /\ Hash[n] \in Buckets
  BY ConstantsAssumption DEF Threaded, EntryHeaders
<1>1. e # NoBlock
  BY <1>0, LookupMisses
<1>2. e \in L /\ D[e].parent = d /\ B[e] = Hash[n] /\ Match(D, e, n)
  BY <1>0, <1>1, LookupFinds
<1> HIDE DEF e
<1>3. e = b
  BY <1>2 DEF Threaded, NoTwins, Match
<1>4. QED
  BY <1>3 DEF e

\* So every entry that a directory lists is found.
LEMMA ThreadedIsComplete ==
  ASSUME disk \in [Blocks -> Headers], NEW T, NEW L, NEW B, NEW Q, NEW P,
         Threaded(disk, T, L, B, Q, P), OwnBuckets(disk, L, B)
  PROVE  ListedEntriesAreFound
<1> SUFFICES ASSUME NEW d \in Dirs(disk), NEW b \in Children(disk, d)
             PROVE  adfNameToEntryBlk(disk, d, disk[b].name) = b
  BY DEF ListedEntriesAreFound
<1>1. d \in T
  BY DirsAreFollowed
<1>2. PICK h \in Buckets : b \in Chain(disk, d, h)
  BY DEF Children
<1>3. b \in L /\ disk[b].parent = d
  BY <1>1, <1>2, ChainIsBucket
<1>4. QED
  BY <1>1, <1>3, LookupOfEntry DEF OwnBuckets

----------------------------------------------------------------------------
(* The tree of a threaded volume: the least set that holds the root and what *)
(* is linked in the directories it holds.  So two trees are compared by the  *)
(* parents of their entries, whatever the tables and chains look like.       *)

\* R holds, with a directory, the linked entries that name it as their parent.
HoldsEntries(D, L, R) == \A c \in L : D[c].parent \in R => c \in R

\* A set of blocks and what one step along the tables and chains adds.
LEMMA LedToDef ==
  ASSUME NEW D \in [Blocks -> Headers]
  PROVE  \A S \in SUBSET Blocks :
            /\ LedTo(D)[S] = S \cup {c \in Blocks : \E b \in S : c = D[b].next
                                                          \/ \E h \in Buckets : c = D[b].ht[h]}
            /\ LedTo(D)[S] \in SUBSET Blocks /\ S \subseteq LedTo(D)[S]
<1>1. \A S \in SUBSET Blocks :
        LedTo(D)[S] = S \cup {c \in Blocks : \E b \in S : c = D[b].next
                                                          \/ \E h \in Buckets : c = D[b].ht[h]}
  BY DEF LedTo
<1> DEFINE F == LedTo(D)
<1>2. F = LedTo(D)
  OBVIOUS
<1> HIDE DEF F
<1>3. \A S \in SUBSET Blocks :
        F[S] = S \cup {c \in Blocks : \E b \in S : c = D[b].next \/ \E h \in Buckets : c = D[b].ht[h]}
  BY <1>1, <1>2
<1>4. \A S \in SUBSET Blocks : F[S] \in SUBSET Blocks /\ S \subseteq F[S]
  BY <1>3
<1>5. QED
  BY <1>2, <1>3, <1>4

\* The tree has the root, and all that its tables and chains lead to.
LEMMA TreeCloses ==
  ASSUME NEW D \in [Blocks -> Headers]
  PROVE  /\ Tree(D) \in SUBSET Blocks /\ RootBlock \in Tree(D)
         /\ \A b \in Tree(D), c \in Blocks :
               c = D[b].next \/ (\E h \in Buckets : c = D[b].ht[h]) => c \in Tree(D)
<1> DEFINE F == LedTo(D)
           a == {RootBlock}
           SB == SUBSET Blocks
           SR == {S \in SUBSET Blocks : RootBlock \in S}
<1>1. F = LedTo(D) /\ a = {RootBlock} /\ a \in SUBSET Blocks /\ IsFiniteSet(Blocks)
  BY ConstantsAssumption
<1>2. Grows(F, Blocks) /\ \A S \in SUBSET Blocks : F[S] \in SUBSET Blocks /\ S \subseteq F[S]
  BY LedToDef DEF Grows
<1>3. Tree(D) = Walk(F, a, Cardinality(Blocks))[Cardinality(Blocks)]
  BY DEF Tree, Fuel
<1>4. a \in SR /\ SR \in SUBSET SB /\ \A S \in SR : F[S] \in SR
  BY <1>1, <1>2
<1> HIDE DEF F, a
<1>5. Tree(D) \in SUBSET Blocks /\ F[Tree(D)] = Tree(D)
  <2>1. PICK f, w, s : f = F /\ w = Tree(D) /\ s = a
    OBVIOUS
  <2>2. /\ IsFiniteSet(Blocks) /\ Grows(f, Blocks) /\ s \in SUBSET Blocks
        /\ w = Walk(f, s, Cardinality(Blocks))[Cardinality(Blocks)]
    BY <1>1, <1>2, <1>3, <2>1
  <2>3. w \in SUBSET Blocks /\ f[w] = w
    BY <2>2, WalkCloses
  <2>4. QED BY <2>1, <2>3
<1>6. RootBlock \in Tree(D)
  <2>1. (\A S \in SB : F[S] \in SB) /\ a \in SB
    BY <1>1, <1>2
  <2> HIDE DEF SB, SR
  <2>2. \A i \in 0 .. Fuel : Walk(F, a, Fuel)[i] \in SR
    BY <1>4, <2>1, FuelIsNat, WalkStays
  <2>3. Tree(D) \in SR
    BY <1>3, <2>2, FuelIsNat DEF Fuel
  <2>4. QED BY <2>3 DEF SR
<1>7. Tree(D) = Tree(D) \cup {c \in Blocks : \E b \in Tree(D) : c = D[b].next
                                                     \/ \E h \in Buckets : c = D[b].ht[h]}
  BY <1>1, <1>5, LedToDef
<1>8. QED
  BY <1>5, <1>6, <1>7

\* Every set that holds the root, and the entries of its directories, holds the
\* tree; and whatever is in the tree has its parent there.
LEMMA TreeIsLeast ==
  ASSUME NEW D \in [Blocks -> Headers], NEW T, NEW L, NEW B, NEW Q, NEW P,
         Threaded(D, T, L, B, Q, P),
         NEW R, RootBlock \in R, HoldsEntries(D, L, R)
  PROVE  Tree(D) \subseteq R
<1> DEFINE F == LedTo(D)
           SB == SUBSET Blocks
           Good(S) == /\ S \subseteq (L \cup {RootBlock}) \cap R
                      /\ \A c \in S \ {RootBlock} : D[c].parent \in S
           SR == {S \in SB : Good(S)}
<1>0. L \subseteq T /\ T \subseteq Blocks /\ RootBlock \in T /\ RootBlock \notin L
      /\ NoBlock \notin Blocks
  BY ConstantsAssumption DEF Threaded, WitnessTypes
<1>1. ASSUME NEW S \in SR PROVE F[S] \in SR
  <2>1. /\ F[S] = S \cup {c \in Blocks : \E b \in S : c = D[b].next
                                                 \/ \E h \in Buckets : c = D[b].ht[h]}
        /\ F[S] \in SB /\ S \subseteq F[S]
    BY LedToDef
  <2>2. ASSUME NEW c \in F[S] \ S
        PROVE  c \in L /\ c \in R /\ D[c].parent \in S
    <3>1. PICK b \in S : c = D[b].next \/ \E h \in Buckets : c = D[b].ht[h]
      BY <2>1, <2>2
    <3>2. c \in Blocks /\ c # NoBlock /\ b \in L \cup {RootBlock} /\ b \in T /\ b \in R
      BY <1>0, <2>1, <2>2
    <3>3. c \in L /\ D[c].parent \in S
      <4>1. CASE \E h \in Buckets : c = D[b].ht[h]
        <5>1. c \in L /\ D[c].parent = b
          BY <3>2, <4>1 DEF Threaded, TablesLead
        <5>2. QED BY <5>1
      <4>2. CASE c = D[b].next
        <5>1. b \in L
          BY <3>2, <4>2 DEF Threaded, EntryHeaders
        <5>2. c \in L /\ D[c].parent = D[b].parent
          BY <3>2, <4>2, <5>1 DEF Threaded, ChainsLead
        <5>3. b # RootBlock
          BY <1>0, <5>1
        <5>4. QED BY <5>2, <5>3
      <4>3. QED BY <3>1, <4>1, <4>2
    <3>4. QED BY <3>3 DEF HoldsEntries
  <2> HIDE DEF F
  <2>3. Good(S) /\ S \in SB
    OBVIOUS
  <2>4. F[S] \subseteq (L \cup {RootBlock}) \cap R
    BY <2>2, <2>3
  <2>5. \A c \in F[S] \ {RootBlock} : D[c].parent \in F[S]
    BY <2>1, <2>2, <2>3
  <2>6. QED BY <2>1, <2>4, <2>5
<1>2. {RootBlock} \in SR /\ {RootBlock} \in SB /\ SR \in SUBSET SB
  BY <1>0
<1>3. \A S \in SB : F[S] \in SB
  BY LedToDef
<1> DEFINE a == {RootBlock}
<1>4. Tree(D) = Walk(F, a, Fuel)[Fuel] /\ a = {RootBlock}
  BY DEF Tree
<1> HIDE DEF F, SB, SR, a
<1>5. \A i \in 0 .. Fuel : Walk(F, a, Fuel)[i] \in SR
  BY <1>1, <1>2, <1>3, <1>4, FuelIsNat, WalkStays
<1>6. Tree(D) \in SR
  BY <1>4, <1>5, FuelIsNat
<1>7. QED
  BY <1>6 DEF SR

\* With a directory the tree has its entries.
LEMMA TreeHoldsEntries ==
  ASSUME NEW D \in [Blocks -> Headers], NEW T, NEW L, NEW B, NEW Q, NEW P,
         Threaded(D, T, L, B, Q, P)
  PROVE  HoldsEntries(D, L, Tree(D))
<1> SUFFICES ASSUME NEW c \in L, D[c].parent \in Tree(D) PROVE c \in Tree(D)
  BY DEF HoldsEntries
<1> DEFINE d == D[c].parent
           h == B[c]
           at == ChainAt(D, d, h)
           S == {i \in 0 .. Fuel : at[i] \in Tree(D) \cup {NoBlock}}
<1>0. d \in T /\ c \in Blocks /\ h \in Buckets /\ T \subseteq Blocks /\ c # NoBlock
  BY ConstantsAssumption DEF Threaded, WitnessTypes, AllComeFrom
<1>1. PICK n \in 0 .. Fuel : at[n] = c
  BY <1>0, ChainCovers
<1>2. /\ at \in [0 .. Fuel -> Pointers]
      /\ at[0] = D[d].ht[h]
      /\ \A i \in 1 .. Fuel : at[i] = IF at[i - 1] = NoBlock THEN NoBlock ELSE D[at[i - 1]].next
  BY <1>0, ChainSteps
<1>3. \A b \in Tree(D), x \in Pointers :
        x = D[b].next \/ (\E k \in Buckets : x = D[b].ht[k]) => x \in Tree(D) \cup {NoBlock}
  BY TreeCloses DEF Pointers
<1> HIDE DEF at
<1>4. 0 \in S
  <2>1. at[0] \in Pointers /\ 0 \in 0 .. Fuel
    BY <1>2, FuelIsNat
  <2>2. at[0] \in Tree(D) \cup {NoBlock}
    BY <1>0, <1>2, <1>3, <2>1
  <2>3. QED BY <2>1, <2>2
<1>5. ASSUME NEW i \in 0 .. Fuel - 1, i \in S PROVE i + 1 \in S
  <2>1. i + 1 \in 1 .. Fuel /\ i + 1 \in 0 .. Fuel /\ (i + 1) - 1 = i
    BY FuelIsNat
  <2>2. at[i + 1] = IF at[i] = NoBlock THEN NoBlock ELSE D[at[i]].next
    BY <1>2, <2>1
  <2>3. at[i + 1] \in Pointers
    BY <1>2, <2>1
  <2>4. at[i + 1] \in Tree(D) \cup {NoBlock}
    BY <1>3, <1>5, <2>2, <2>3
  <2>5. QED BY <2>1, <2>4
<1> HIDE DEF S
<1>6. 0 .. Fuel \subseteq S
  BY <1>4, <1>5, FuelIsNat, RangeInd
<1>7. QED
  BY <1>0, <1>1, <1>6 DEF S

\* What is in the tree, other than the root, is linked in a directory of the tree.
LEMMA TreeHasParents ==
  ASSUME NEW D \in [Blocks -> Headers], NEW T, NEW L, NEW B, NEW Q, NEW P,
         Threaded(D, T, L, B, Q, P)
  PROVE  \A c \in Tree(D) \ {RootBlock} : c \in L /\ D[c].parent \in Tree(D) /\ D[c].parent \in T
<1> DEFINE R == {c \in Tree(D) : c = RootBlock \/ (c \in L /\ D[c].parent \in Tree(D))}
<1>1. HoldsEntries(D, L, Tree(D)) /\ RootBlock \in R
  BY TreeHoldsEntries, TreeCloses
<1>2. HoldsEntries(D, L, R)
  BY <1>1 DEF HoldsEntries
<1> HIDE DEF R
<1>3. Tree(D) \subseteq R
  BY <1>1, <1>2, TreeIsLeast
<1>4. QED
  BY <1>3 DEF R, Threaded, AllComeFrom

\* The directories above b: b, and with each block its parent.
LEMMA AncestorsClose ==
  ASSUME NEW D \in [Blocks -> Headers], NEW b \in Blocks
  PROVE  /\ Ancestors(D, b) \in SUBSET Blocks /\ b \in Ancestors(D, b)
         /\ \A x \in Ancestors(D, b) : D[x].parent \in Blocks => D[x].parent \in Ancestors(D, b)
         /\ \A R : b \in R /\ (\A x \in R : x \in Blocks /\ D[x].parent \in Blocks => D[x].parent \in R)
                     => Ancestors(D, b) \subseteq R
<1> DEFINE F == WithParents(D)
           a == {b}
           SB == SUBSET Blocks
           A == Ancestors(D, b)
<1>1. \A S \in SUBSET Blocks : F[S] = S \cup {c \in Blocks : \E x \in S : c = D[x].parent}
  BY DEF WithParents
<1>2. A = Walk(F, a, Cardinality(Blocks))[Cardinality(Blocks)] /\ a = {b}
      /\ A = Walk(F, a, Fuel)[Fuel] /\ A = Ancestors(D, b)
  BY DEF Ancestors, Fuel
<1> HIDE DEF F, a, A
<1>3. Grows(F, Blocks) /\ \A S \in SUBSET Blocks : F[S] \in SUBSET Blocks
  BY <1>1 DEF Grows
<1>4. IsFiniteSet(Blocks) /\ a \in SUBSET Blocks
  BY <1>2, ConstantsAssumption
<1>5. A \in SUBSET Blocks /\ F[A] = A
  <2>1. PICK f, w, s : f = F /\ w = A /\ s = a
    OBVIOUS
  <2>2. /\ IsFiniteSet(Blocks) /\ Grows(f, Blocks) /\ s \in SUBSET Blocks
        /\ w = Walk(f, s, Cardinality(Blocks))[Cardinality(Blocks)]
    BY <1>2, <1>3, <1>4, <2>1
  <2>3. w \in SUBSET Blocks /\ f[w] = w
    BY <2>2, WalkCloses
  <2>4. QED BY <2>1, <2>3
<1>6. \A x \in A : D[x].parent \in Blocks => D[x].parent \in A
  BY <1>1, <1>5
<1>7. ASSUME NEW R, b \in R, \A x \in R : x \in Blocks /\ D[x].parent \in Blocks => D[x].parent \in R
      PROVE  A \subseteq R /\ b \in A
  <2> DEFINE SR == {S \in SB : b \in S /\ S \subseteq R}
  <2>1. a \in SR /\ a \in SB /\ SR \in SUBSET SB
    BY <1>2, <1>4, <1>7
  <2>2. \A S \in SB : F[S] \in SB
    BY <1>3
  <2>3. ASSUME NEW S \in SR PROVE F[S] \in SR
    <3>1. F[S] = S \cup {c \in Blocks : \E x \in S : c = D[x].parent} /\ F[S] \in SB
      BY <1>1, <1>3
    <3>2. QED BY <1>7, <3>1
  <2> HIDE DEF SB, SR
  <2>4. \A i \in 0 .. Fuel : Walk(F, a, Fuel)[i] \in SR
    BY <2>1, <2>2, <2>3, FuelIsNat, WalkStays
  <2>5. A \in SR
    BY <1>2, <2>4, FuelIsNat
  <2>6. QED BY <2>5 DEF SR
<1>8. b \in A
  <2>1. \A x \in Blocks : x \in Blocks /\ D[x].parent \in Blocks => D[x].parent \in Blocks
    OBVIOUS
  <2>2. QED BY <1>7, <2>1
<1>9. QED
  BY <1>2, <1>5, <1>6, <1>7, <1>8

\* Above an entry is itself and what is above its directory; above the root is
\* nothing else.
LEMMA AncestorsOfEntry ==
  ASSUME NEW D \in [Blocks -> Headers], NEW b \in Blocks, D[b].parent \in Blocks
  PROVE  Ancestors(D, b) = {b} \cup Ancestors(D, D[b].parent)
<1> DEFINE p == D[b].parent
           A == Ancestors(D, b)
           U == Ancestors(D, p)
<1>1. /\ A \in SUBSET Blocks /\ b \in A /\ \A x \in A : D[x].parent \in Blocks => D[x].parent \in A
      /\ \A R : b \in R /\ (\A x \in R : x \in Blocks /\ D[x].parent \in Blocks => D[x].parent \in R)
                  => A \subseteq R
  BY AncestorsClose
<1>2. /\ U \in SUBSET Blocks /\ p \in U /\ \A x \in U : D[x].parent \in Blocks => D[x].parent \in U
      /\ \A R : p \in R /\ (\A x \in R : x \in Blocks /\ D[x].parent \in Blocks => D[x].parent \in R)
                  => U \subseteq R
  BY AncestorsClose
<1> HIDE DEF A, U
<1>3. A \subseteq {b} \cup U
  <2> DEFINE R == {b} \cup U
  <2>1. b \in R /\ \A x \in R : x \in Blocks /\ D[x].parent \in Blocks => D[x].parent \in R
    BY <1>2
  <2> HIDE DEF R
  <2>2. QED BY <1>1, <2>1 DEF R
<1>4. U \subseteq A
  <2>1. p \in A
    BY <1>1
  <2>2. QED BY <1>1, <1>2, <2>1
<1>5. QED
  BY <1>1, <1>3, <1>4 DEF A, U

LEMMA AncestorsOfRoot ==
  ASSUME NEW D \in [Blocks -> Headers], D[RootBlock].parent = NoBlock
  PROVE  Ancestors(D, RootBlock) = {RootBlock}
<1>1. RootBlock \in Blocks /\ NoBlock \notin Blocks
  BY ConstantsAssumption
<1> DEFINE R == {RootBlock}
<1>2. RootBlock \in R /\ \A x \in R : x \in Blocks /\ D[x].parent \in Blocks => D[x].parent \in R
  BY <1>1
<1> HIDE DEF R
<1>3. Ancestors(D, RootBlock) \subseteq R /\ RootBlock \in Ancestors(D, RootBlock)
  BY <1>1, <1>2, AncestorsClose
<1>4. QED
  BY <1>3 DEF R

\* What is above a block of the tree is in the tree.
LEMMA AncestorsInTree ==
  ASSUME NEW D \in [Blocks -> Headers], NEW T, NEW L, NEW B, NEW Q, NEW P,
         Threaded(D, T, L, B, Q, P), NEW b \in Tree(D)
  PROVE  Ancestors(D, b) \subseteq Tree(D)
<1>1. b \in Blocks /\ RootBlock \in Blocks /\ NoBlock \notin Blocks /\ D[RootBlock].parent = NoBlock
  BY TreeCloses, ConstantsAssumption DEF Threaded, EntryHeaders
<1>2. \A x \in Tree(D) : x \in Blocks /\ D[x].parent \in Blocks => D[x].parent \in Tree(D)
  BY <1>1, TreeHasParents
<1>3. QED
  BY <1>1, <1>2, AncestorsClose

\* No entry of the tree is above its own directory.
LEMMA NotBelowItself ==
  ASSUME NEW D \in [Blocks -> Headers], NEW T, NEW L, NEW B, NEW Q, NEW P,
         Threaded(D, T, L, B, Q, P), NEW b \in Tree(D) \ {RootBlock}
  PROVE  b \notin Ancestors(D, D[b].parent)
<1> SUFFICES ASSUME b \in Ancestors(D, D[b].parent) PROVE FALSE
  OBVIOUS
<1> DEFINE R == {c \in Tree(D) : b \notin Ancestors(D, c)}
<1>1. /\ T \subseteq Blocks /\ L \subseteq Blocks /\ D[RootBlock].parent = NoBlock
      /\ RootBlock \in Tree(D)
  BY TreeCloses DEF Threaded, EntryHeaders, WitnessTypes
<1>2. RootBlock \in R
  BY <1>1, AncestorsOfRoot
<1>3. HoldsEntries(D, L, R)
  <2> SUFFICES ASSUME NEW c \in L, D[c].parent \in R PROVE c \in R
    BY DEF HoldsEntries
  <2>1. c \in Tree(D)
    BY TreeHoldsEntries DEF HoldsEntries
  <2>2. c \in Blocks /\ D[c].parent \in Blocks
    BY <1>1, TreeCloses
  <2>3. Ancestors(D, c) = {c} \cup Ancestors(D, D[c].parent)
    BY <2>2, AncestorsOfEntry
  <2>4. c # b
    OBVIOUS
  <2>5. QED BY <2>1, <2>3, <2>4
<1> HIDE DEF R
<1>4. Tree(D) \subseteq R
  BY <1>2, <1>3, TreeIsLeast
<1>5. b \in Ancestors(D, b)
  BY TreeCloses, AncestorsClose
<1>6. QED
  BY <1>4, <1>5 DEF R

\* What is above a directory has been met after as many steps up as there are
\* blocks.
LEMMA AncestorsAreMet ==
  ASSUME NEW D \in [Blocks -> Headers], NEW b \in Blocks, NEW up,
         IsWalk(up, Above(D), D[b].parent, Fuel)
  PROVE  \A x \in Ancestors(D, b) : x = b \/ \E k \in 0 .. Fuel - 1 : up[k] = x
<1> DEFINE F == WithParents(D)
           a == {b}
           SB == SUBSET Blocks
           w == Walk(F, a, Fuel)
           Met(i) == {b} \cup {x \in Blocks : \E k \in 0 .. i - 1 : up[k] = x}
           S == {i \in 0 .. Fuel : w[i] \subseteq Met(i)}
<1>0. Fuel \in Nat /\ NoBlock \notin Blocks
  BY FuelIsNat, ConstantsAssumption
<1>1. \A X \in SUBSET Blocks : F[X] = X \cup {c \in Blocks : \E x \in X : c = D[x].parent}
  BY DEF WithParents
<1>2. /\ up[0] = D[b].parent
      /\ \A i \in 1 .. Fuel : up[i] = Above(D)[up[i - 1]]
      /\ \A x \in Blocks : Above(D)[x] = D[x].parent
  BY <1>0 DEF IsWalk, Above, Pointers
<1>3. w \in [0 .. Fuel -> SB] /\ IsWalk(w, F, a, Fuel)
  <2>1. a \in SB /\ \A X \in SB : F[X] \in SB
    BY <1>1
  <2> HIDE DEF F, a, SB
  <2>2. QED BY <1>0, <2>1, WalkDef
<1>4. Ancestors(D, b) = w[Fuel] /\ w[0] = {b} /\ \A i \in 1 .. Fuel : w[i] = F[w[i - 1]]
  BY <1>3 DEF Ancestors, IsWalk
<1> HIDE DEF w, F
<1>5. ASSUME NEW i \in 0 .. Fuel - 1, i \in S PROVE i + 1 \in S
  <2>1. /\ i \in 0 .. Fuel /\ i + 1 \in 1 .. Fuel /\ i + 1 \in 0 .. Fuel
        /\ (i + 1) - 1 = i
    BY <1>0
  <2>2. w[i + 1] = F[w[i]] /\ w[i] \in SUBSET Blocks
    BY <1>3, <1>4, <2>1
  <2>3. w[i] \subseteq Met(i)
    BY <1>5
  <2>4. ASSUME NEW c \in w[i + 1] PROVE c \in Met(i + 1)
    <3>1. CASE c \in w[i]
      <4>1. c \in Met(i)
        BY <2>3, <3>1
      <4>2. \A k \in 0 .. i - 1 : k \in 0 .. i
        BY <2>1
      <4>3. QED BY <2>1, <4>1, <4>2
    <3>2. CASE c \notin w[i]
      <4>1. PICK x \in w[i] : c \in Blocks /\ c = D[x].parent
        BY <1>1, <2>2, <2>4, <3>2
      <4>2. CASE x = b
        <5>1. up[0] = c /\ 0 \in 0 .. i
          BY <1>2, <2>1, <4>1, <4>2
        <5>2. QED BY <2>1, <4>1, <5>1
      <4>3. CASE x # b
        <5>1. PICK k \in 0 .. i - 1 : up[k] = x
          BY <2>3, <4>1, <4>3
        <5>2. k + 1 \in 0 .. i /\ k + 1 \in 1 .. Fuel /\ (k + 1) - 1 = k
          BY <1>0, <2>1
        <5>3. up[k + 1] = D[x].parent
          BY <1>2, <2>2, <4>1, <5>1, <5>2
        <5>4. QED BY <2>1, <4>1, <5>2, <5>3
      <4>4. QED BY <4>2, <4>3
    <3>3. QED BY <3>1, <3>2
  <2>5. QED BY <2>1, <2>4
<1>6. 0 \in S
  BY <1>0, <1>4
<1>7. 0 .. Fuel \subseteq S
  <2> HIDE DEF S
  <2>1. QED BY <1>0, <1>5, <1>6, RangeInd
<1>8. QED
  BY <1>0, <1>4, <1>7

\* The walk up from a directory: its places are what is above it, and behind the
\* root there is nothing.
LEMMA UpSteps ==
  ASSUME disk \in [Blocks -> Headers], NEW dst \in Blocks
  PROVE  /\ IsWalk(Up(dst), Above(disk), disk[dst].parent, Fuel)
         /\ \A i \in 0 .. Fuel : Up(dst)[i] \in Ancestors(disk, dst) \cup {NoBlock}
         /\ \A i, j \in 0 .. Fuel : i <= j /\ Up(dst)[i] = NoBlock => Up(dst)[j] = NoBlock
         /\ \A i, j \in 0 .. Fuel : i < j /\ Up(dst)[i] \in Blocks
                /\ disk[Up(dst)[i]].parent = NoBlock => Up(dst)[j] = NoBlock
<1> DEFINE F == Above(disk)
           a == disk[dst].parent
           up == Up(dst)
           A == Ancestors(disk, dst)
           R == A \cup {NoBlock}
<1>0. Fuel \in Nat /\ NoBlock \notin Blocks
  BY FuelIsNat, ConstantsAssumption
<1>1. \A x \in Pointers : F[x] = IF x = NoBlock THEN NoBlock ELSE disk[x].parent
  BY DEF Above
<1>2. (\A x \in Pointers : F[x] \in Pointers) /\ a \in Pointers
  BY <1>1 DEF Headers, Pointers
<1>3. /\ A \in SUBSET Blocks /\ dst \in A
      /\ \A x \in A : disk[x].parent \in Blocks => disk[x].parent \in A
  BY AncestorsClose
<1>4. up = Walk(F, a, Fuel)
  BY DEF Up
<1>5. R \in SUBSET Pointers /\ a \in R /\ \A x \in R : F[x] \in R
  <2>1. R \in SUBSET Pointers
    BY <1>3 DEF Pointers
  <2>2. a \in R
    BY <1>2, <1>3 DEF Pointers
  <2>3. ASSUME NEW x \in R PROVE F[x] \in R
    BY <1>1, <1>2, <1>3, <2>1, <2>3 DEF Pointers
  <2>4. QED BY <2>1, <2>2, <2>3
<1> HIDE DEF F, a, up, R
<1>6. \A i \in 0 .. Fuel : up[i] \in R
  BY <1>0, <1>2, <1>4, <1>5, WalkStays
<1>7. up \in [0 .. Fuel -> Pointers] /\ IsWalk(up, F, a, Fuel)
  BY <1>0, <1>2, <1>4, WalkDef
<1>8. ASSUME NEW i \in 0 .. Fuel, up[i] = NoBlock
      PROVE  \A j \in i .. Fuel : up[j] = NoBlock
  <2> DEFINE S == {j \in i .. Fuel : up[j] = NoBlock}
  <2>1. ASSUME NEW j \in i .. Fuel - 1, j \in S PROVE j + 1 \in S
    <3>1. j + 1 \in 1 .. Fuel /\ j + 1 \in i .. Fuel /\ (j + 1) - 1 = j
      BY <1>0
    <3>2. up[j + 1] = F[up[j]]
      BY <1>7, <3>1 DEF IsWalk
    <3>3. F[NoBlock] = NoBlock
      BY <1>1 DEF Pointers
    <3>4. QED BY <2>1, <3>1, <3>2, <3>3
  <2>2. i \in S /\ i \in Nat
    BY <1>0, <1>8
  <2> HIDE DEF S
  <2>3. i .. Fuel \subseteq S
    BY <1>0, <2>1, <2>2, RangeInd
  <2>4. QED BY <2>3 DEF S
<1>9. ASSUME NEW i \in 0 .. Fuel, NEW j \in 0 .. Fuel, i <= j, up[i] = NoBlock
      PROVE  up[j] = NoBlock
  <2>1. j \in i .. Fuel
    BY <1>0, <1>9
  <2>2. QED BY <1>8, <1>9, <2>1
<1>10. ASSUME NEW i \in 0 .. Fuel, NEW j \in 0 .. Fuel, i < j, up[i] \in Blocks,
              disk[up[i]].parent = NoBlock
       PROVE  up[j] = NoBlock
  <2>1. i + 1 \in 1 .. Fuel /\ i + 1 \in 0 .. Fuel /\ (i + 1) - 1 = i /\ i + 1 <= j
    BY <1>0, <1>10
  <2>2. up[i + 1] = F[up[i]]
    BY <1>7, <2>1 DEF IsWalk
  <2>3. up[i + 1] = NoBlock
    BY <1>0, <1>1, <1>10, <2>2 DEF Pointers
  <2>4. QED BY <1>9, <2>1, <2>3
<1>11. QED
  BY <1>6, <1>7, <1>9, <1>10 DEF up, F, a, R

\* So the walk finds an entry on its way exactly when it is above the directory.
LEMMA MoveCheck ==
  ASSUME disk \in [Blocks -> Headers], NEW T, NEW L, NEW B, NEW Q, NEW P,
         Threaded(disk, T, L, B, Q, P)
  PROVE  MoveCheckIsExact
<1> SUFFICES ASSUME NEW src \in Tree(disk) \ {RootBlock}, NEW dst \in Dirs(disk)
             PROVE  RefusesMove(src, dst) <=> src \in Ancestors(disk, dst)
  BY DEF MoveCheckIsExact
<1> DEFINE up == Up(dst)
           A == Ancestors(disk, dst)
           turns == {i \in 1 .. Fuel : disk[dst].type # "root" /\
                                       \A j \in 0 .. i - 2 : disk[up[j]].type # "root"}
<1>0. /\ Fuel \in Nat /\ Fuel # 0 /\ NoBlock \notin Blocks /\ RootBlock \in Blocks
      /\ IsFiniteSet(Blocks)
  BY FuelIsNat, ConstantsAssumption, FS_EmptySet DEF Fuel
<1>1. src \in Blocks /\ dst \in Blocks /\ src # NoBlock /\ dst \in Tree(disk)
  BY <1>0, TreeCloses DEF Dirs
<1>2. /\ disk[RootBlock].parent = NoBlock
      /\ \A x \in Tree(disk) : disk[x].type = "root" => x = RootBlock
  BY TreeIsLinked DEF Threaded, EntryHeaders
<1>3. A \subseteq Tree(disk) /\ dst \in A
  BY <1>1, AncestorsInTree, AncestorsClose
<1>4. /\ IsWalk(up, Above(disk), disk[dst].parent, Fuel)
      /\ \A i \in 0 .. Fuel : up[i] \in A \cup {NoBlock}
      /\ \A i, j \in 0 .. Fuel : i <= j /\ up[i] = NoBlock => up[j] = NoBlock
      /\ \A i, j \in 0 .. Fuel : i < j /\ up[i] \in Blocks
             /\ disk[up[i]].parent = NoBlock => up[j] = NoBlock
  BY <1>1, UpSteps
<1>5. RefusesMove(src, dst) = \E i \in turns : dst = src \/ up[0] = src \/ up[i] = src
  BY DEF RefusesMove
<1>6. \A x \in A : x = dst \/ \E k \in 0 .. Fuel - 1 : up[k] = x
  BY <1>1, <1>4, AncestorsAreMet
<1> HIDE DEF up, A
<1>7. ASSUME RefusesMove(src, dst) PROVE src \in A
  <2>1. PICK i \in turns : dst = src \/ up[0] = src \/ up[i] = src
    BY <1>5, <1>7
  <2>2. i \in 0 .. Fuel /\ 0 \in 0 .. Fuel
    BY <1>0
  <2>3. QED BY <1>1, <1>3, <1>4, <2>1, <2>2
<1>8. ASSUME src \in A PROVE RefusesMove(src, dst)
  <2>1. dst # RootBlock
    <3>1. dst = RootBlock => A = {RootBlock}
      BY <1>2, AncestorsOfRoot DEF A
    <3>2. QED BY <1>8, <3>1
  <2>2. disk[dst].type # "root"
    BY <1>1, <1>2, <2>1
  <2>3. 1 \in turns
    BY <1>0, <2>2
  <2>4. CASE src = dst
    BY <1>5, <2>3, <2>4
  <2>5. CASE src # dst
    <3>1. PICK k \in 0 .. Fuel - 1 : up[k] = src
      BY <1>6, <1>8, <2>5
    <3>2. CASE k = 0
      BY <1>5, <2>3, <3>1, <3>2
    <3>3. CASE k # 0
      <4>1. k \in 1 .. Fuel /\ k \in 0 .. Fuel
        BY <1>0, <3>3
      <4>2. ASSUME NEW j \in 0 .. k - 2 PROVE disk[up[j]].type # "root"
        <5>1. j \in 0 .. Fuel /\ j < k /\ j <= k
          BY <1>0
        <5>2. up[j] # NoBlock
          BY <1>1, <1>4, <3>1, <4>1, <5>1
        <5>3. up[j] \in A /\ up[j] \in Tree(disk)
          BY <1>3, <1>4, <5>1, <5>2
        <5>4. up[j] # RootBlock
          BY <1>0, <1>1, <1>2, <1>4, <3>1, <4>1, <5>1
        <5>5. QED BY <1>2, <5>3, <5>4
      <4>3. k \in turns
        BY <2>2, <4>1, <4>2
      <4>4. QED BY <1>5, <3>1, <4>3
    <3>4. QED BY <3>2, <3>3
  <2>6. QED BY <2>4, <2>5
<1>9. QED
  BY <1>7, <1>8 DEF A

----------------------------------------------------------------------------
(* What the calls do to the tree.                                           *)

\* S is the tree of a volume whose linked entries are those in L.
IsTree(D, L, S) ==
    /\ RootBlock \in S /\ S \subseteq L \cup {RootBlock} /\ RootBlock \notin L
    /\ S \subseteq Blocks
    /\ HoldsEntries(D, L, S) /\ \A c \in S \ {RootBlock} : D[c].parent \in S
    /\ \A R : RootBlock \in R /\ HoldsEntries(D, L, R) => S \subseteq R

LEMMA TreeIsTree ==
  ASSUME NEW D \in [Blocks -> Headers], NEW T, NEW L, NEW B, NEW Q, NEW P,
         Threaded(D, T, L, B, Q, P)
  PROVE  IsTree(D, L, Tree(D))
<1>1. RootBlock \in Tree(D) /\ Tree(D) \subseteq Blocks
  BY TreeCloses
<1>2. Tree(D) \subseteq L \cup {RootBlock} /\ RootBlock \notin L
  BY TreeIsLinked DEF Threaded, WitnessTypes
<1>3. HoldsEntries(D, L, Tree(D))
  BY TreeHoldsEntries
<1>4. \A c \in Tree(D) \ {RootBlock} : D[c].parent \in Tree(D)
  BY TreeHasParents
<1>5. \A R : RootBlock \in R /\ HoldsEntries(D, L, R) => Tree(D) \subseteq R
  BY TreeIsLeast
<1>6. QED
  BY <1>1, <1>2, <1>3, <1>4, <1>5 DEF IsTree

\* The part S of a tree at and below the entry b: nothing that is not in a
\* directory there is in it, other than b.
IsBelow(D, L, A, b, S) ==
    /\ b \in S /\ S \subseteq A \ {RootBlock}
    /\ \A c \in L : c \in A => (c \in S <=> c = b \/ D[c].parent \in S)

Below(D, b) == {c \in Tree(D) : b \in Ancestors(D, c)}

LEMMA BelowIsBelow ==
  ASSUME NEW D \in [Blocks -> Headers], NEW T, NEW L, NEW B, NEW Q, NEW P,
         Threaded(D, T, L, B, Q, P), NEW b \in Tree(D) \ {RootBlock}
  PROVE  IsBelow(D, L, Tree(D), b, Below(D, b))
<1> DEFINE A == Tree(D)
           S == Below(D, b)
<1>1. IsTree(D, L, A) /\ D[RootBlock].parent = NoBlock
  BY TreeIsTree DEF Threaded, EntryHeaders
<1>2. b \in S
  BY <1>1, AncestorsClose DEF Below, IsTree
<1>3. RootBlock \notin S
  BY <1>1, AncestorsOfRoot DEF Below
<1>4. ASSUME NEW c \in L, c \in A PROVE c \in S <=> c = b \/ D[c].parent \in S
  <2>1. c # RootBlock /\ c \in Blocks /\ D[c].parent \in A /\ D[c].parent \in Blocks
    BY <1>1, <1>4 DEF IsTree
  <2>2. Ancestors(D, c) = {c} \cup Ancestors(D, D[c].parent)
    BY <2>1, AncestorsOfEntry
  <2>3. QED BY <1>4, <2>1, <2>2 DEF Below
<1>5. S \subseteq A
  BY DEF Below
<1>6. QED
  BY <1>2, <1>3, <1>4, <1>5 DEF IsBelow

\* A new entry x of a directory of the tree, in place of all that named the block x
\* as its parent.
LEMMA TreeWithMore ==
  ASSUME NEW D, NEW E, NEW L, NEW L2, NEW A, NEW A2, IsTree(D, L, A), IsTree(E, L2, A2),
         NEW x, x \notin L \cup {RootBlock}, x \in L2, E[x].parent \in A,
         L2 \ {x} = {c \in L : D[c].parent # x},
         \A c \in L : D[c].parent # x => E[c].parent = D[c].parent
  PROVE  A2 = A \cup {x}
<1>1. A2 \subseteq A \cup {x}
  <2> DEFINE R == A \cup {x}
  <2>1. RootBlock \in R /\ HoldsEntries(E, L2, R)
    BY DEF IsTree, HoldsEntries
  <2> HIDE DEF R
  <2>2. A2 \subseteq R
    BY <2>1 DEF IsTree
  <2>3. QED BY <2>2 DEF R
<1>2. A \subseteq A2
  <2> DEFINE R == A \cap A2
  <2>1. RootBlock \in R
    BY DEF IsTree
  <2>2. HoldsEntries(D, L, R)
    <3> SUFFICES ASSUME NEW c \in L, D[c].parent \in R PROVE c \in R
      BY DEF HoldsEntries
    <3>1. c \in A
      BY DEF IsTree, HoldsEntries
    <3>2. x \notin A
      BY DEF IsTree
    <3>3. D[c].parent # x
      BY <3>2
    <3>4. c \in L2 /\ E[c].parent = D[c].parent
      BY <3>3
    <3>5. c \in A2
      BY <3>4 DEF IsTree, HoldsEntries
    <3>6. QED BY <3>1, <3>5
  <2> HIDE DEF R
  <2>3. A \subseteq R
    BY <2>1, <2>2 DEF IsTree
  <2>4. QED BY <2>3 DEF R
<1>3. x \in A2
  BY <1>2 DEF IsTree, HoldsEntries
<1>4. QED
  BY <1>1, <1>2, <1>3

\* An entry that is linked no more takes with it what is below it.
LEMMA TreeWithLess ==
  ASSUME NEW D, NEW E, NEW L, NEW L2, NEW A, NEW A2, IsTree(D, L, A), IsTree(E, L2, A2),
         NEW b, NEW S, IsBelow(D, L, A, b, S), L2 = L \ {b},
         \A c \in L2 : E[c].parent = D[c].parent
  PROVE  A2 = A \ S
<1>1. A2 \subseteq A \ S
  <2> DEFINE R == A \ S
  <2>1. RootBlock \in R
    BY DEF IsTree, IsBelow
  <2>2. HoldsEntries(E, L2, R)
    BY DEF IsTree, IsBelow, HoldsEntries
  <2> HIDE DEF R
  <2>3. A2 \subseteq R
    BY <2>1, <2>2 DEF IsTree
  <2>4. QED BY <2>3 DEF R
<1>2. A \ S \subseteq A2
  <2> DEFINE R == {c \in A : c \in S \/ c \in A2}
  <2>1. RootBlock \in R
    BY DEF IsTree
  <2>2. HoldsEntries(D, L, R)
    BY DEF IsTree, IsBelow, HoldsEntries
  <2> HIDE DEF R
  <2>3. A \subseteq R
    BY <2>1, <2>2 DEF IsTree
  <2>4. QED BY <2>3 DEF R
<1>3. QED
  BY <1>1, <1>2

\* An entry with nothing in it goes alone.
LEMMA NothingBelow ==
  ASSUME NEW D, NEW L, NEW A, IsTree(D, L, A), NEW b, NEW S, IsBelow(D, L, A, b, S),
         \A c \in L : D[c].parent # b
  PROVE  S = {b}
<1> DEFINE R == {c \in A : c = b \/ c \notin S}
<1>1. RootBlock \in R
  BY DEF IsTree, IsBelow
<1>2. HoldsEntries(D, L, R)
  BY DEF IsTree, IsBelow, HoldsEntries
<1> HIDE DEF R
<1>3. A \subseteq R
  BY <1>1, <1>2 DEF IsTree
<1>4. QED
  BY <1>3 DEF R, IsBelow

\* An entry that is moved into a directory that is not below it stays, with all
\* that is below it.
LEMMA TreeMoved ==
  ASSUME NEW D, NEW E, NEW L, NEW A, NEW A2, IsTree(D, L, A), IsTree(E, L, A2),
         NEW b, NEW S, IsBelow(D, L, A, b, S), E[b].parent \in A \ S,
         \A c \in L \ {b} : E[c].parent = D[c].parent
  PROVE  A2 = A
<1>0. b \in L /\ b \in A
  BY DEF IsTree, IsBelow
<1>1. A2 \subseteq A
  <2>1. RootBlock \in A /\ HoldsEntries(E, L, A)
    BY <1>0 DEF IsTree, HoldsEntries
  <2>2. QED BY <2>1 DEF IsTree
<1>2. A \ S \subseteq A2
  <2> DEFINE R == {c \in A : c \in S \/ c \in A2}
  <2>1. RootBlock \in R
    BY DEF IsTree
  <2>2. HoldsEntries(D, L, R)
    BY DEF IsTree, IsBelow, HoldsEntries
  <2> HIDE DEF R
  <2>3. A \subseteq R
    BY <2>1, <2>2 DEF IsTree
  <2>4. QED BY <2>3 DEF R
<1>3. b \in A2
  BY <1>0, <1>2 DEF IsTree, HoldsEntries
<1>4. A \subseteq A2
  <2> DEFINE R == A \cap A2
  <2>1. RootBlock \in R
    BY DEF IsTree
  <2>2. HoldsEntries(D, L, R)
    BY <1>3 DEF IsTree, HoldsEntries
  <2> HIDE DEF R
  <2>3. A \subseteq R
    BY <2>1, <2>2 DEF IsTree
  <2>4. QED BY <2>3 DEF R
<1>5. QED
  BY <1>1, <1>4

----------------------------------------------------------------------------
(* The invariant of the calls.                                              *)

\* As long as no call has been cut short the bitmap on the disk is the one in
\* memory, and the volume is threaded.
Inv ==
    /\ TypeOK
    /\ cut => MayBeCut
    /\ ~cut => free = diskFree /\ \E T : Holds(disk, T, free)

\* The block that is taken is a free one.
LEMMA FirstFreeIsFree ==
  ASSUME NEW F \in SUBSET Blocks, FirstFree(F) # NoBlock
  PROVE  FirstFree(F) \in F
<1> DEFINE above == {b \in F : b >= RootBlock}
           from == IF above # {} THEN above ELSE F
           IsLeast(b) == \A c \in from : b <= c
<1>1. F # {}
  BY DEF FirstFree
<1>2. from \in SUBSET Nat /\ from # {} /\ from \subseteq F
  BY <1>1, ConstantsAssumption
<1>3. FirstFree(F) = CHOOSE b \in from : IsLeast(b)
  BY <1>1 DEF FirstFree
<1> HIDE DEF from
<1>4. \E b \in from : IsLeast(b)
  BY <1>2, NatMin
<1> HIDE DEF IsLeast
<1>5. QED
  BY <1>2, <1>3, <1>4

\* A call that is performed leaves one of its images, and in memory and on the
\* disk one of the bitmaps it had; when it is not cut short, the last ones.
LEMMA PerformLeaves ==
  ASSUME TypeOK, NEW imgs \in Seq([Blocks -> Headers]), Len(imgs) # 0,
         NEW mem, \A k \in 1 .. Len(imgs) : mem[k] \in SUBSET Blocks,
         NEW sync \in BOOLEAN, NEW call \in Calls, Perform(imgs, mem, sync, call)
  PROVE  /\ TypeOK'
         /\ last'.op = call.op
         /\ cut' => MayBeCut
         /\ ~cut' => /\ disk' = imgs[Len(imgs)] /\ free' = mem[Len(imgs)]
                     /\ diskFree' = IF sync THEN mem[Len(imgs)] ELSE diskFree
                     /\ last' = call
<1>1. PICK k \in 1 .. Len(imgs), page \in BOOLEAN, whole \in BOOLEAN, dies \in BOOLEAN :
        /\ page => sync /\ k = Len(imgs)
        /\ whole => k = Len(imgs) /\ page = sync /\ ~dies
        /\ ~whole => (k < Len(imgs) \/ sync) /\ MayBeCut
        /\ disk' = imgs[k]
        /\ diskFree' = IF page THEN mem[k] ELSE diskFree
        /\ free' = IF dies THEN diskFree' ELSE mem[k]
        /\ last' = IF whole THEN call ELSE [call EXCEPT !.rc = "error"]
        /\ cut' = ~whole
  BY DEF Perform
<1>2. imgs[k] \in [Blocks -> Headers] /\ mem[k] \in SUBSET Blocks
  OBVIOUS
<1>3. last' \in Calls /\ last'.op = call.op
  BY <1>1 DEF Calls
<1>4. disk' \in [Blocks -> Headers] /\ diskFree' \in SUBSET Blocks /\ free' \in SUBSET Blocks
      /\ cut' \in BOOLEAN
  BY <1>1, <1>2 DEF TypeOK
<1>5. TypeOK'
  BY <1>3, <1>4 DEF TypeOK
<1>6. ASSUME ~cut'
      PROVE  /\ disk' = imgs[Len(imgs)] /\ free' = mem[Len(imgs)]
             /\ diskFree' = IF sync THEN mem[Len(imgs)] ELSE diskFree
             /\ last' = call
  <2>1. whole /\ k = Len(imgs) /\ page = sync /\ ~dies
    BY <1>1, <1>6
  <2>2. QED BY <1>1, <2>1
<1>7. cut' => MayBeCut
  BY <1>1
<1>8. QED
  BY <1>3, <1>5, <1>6, <1>7

\* The image E has links only where the disk has.
NoNewLinks(E) == \A x \in Blocks : E[x].type = "link" => disk[x].type = "link"

\* What a call that starts with tables to be followed in T leaves behind: they
\* can still be followed, and it has made no links.
Keeps(T) ==
    /\ TypeOK'
    /\ cut' => MayBeCut
    /\ ~cut' => /\ free' = diskFree' /\ NoNewLinks(disk')
                /\ \E T2 : T \subseteq T2 /\ Holds(disk', T2, free')

\* A call that is refused leaves everything as it is.
LEMMA RefusedKeeps ==
  ASSUME TypeOK, ~cut, free = diskFree, NEW T, Holds(disk, T, free),
         NEW call \in Calls, Refused(call)
  PROVE  Keeps(T) /\ last'.op = call.op
  BY DEF Keeps, Refused, TypeOK, NoNewLinks

\* The records of the calls.
LEMMA ReturnedType ==
  ASSUME NEW op \in {"create", "remove", "rename"}, NEW d \in Blocks, NEW n \in Names,
         NEW rc \in {"ok", "error", "notempty"}
  PROVE  Returned(op, d, n, rc) \in Calls /\ Returned(op, d, n, rc).op = op
  BY DEF Returned, Calls

\* What a creation that can be made writes: W is the last of its disk images.
LEMMA CreationHolds ==
  ASSUME TypeOK, NEW T, Holds(disk, T, free),
         NEW d \in T, NEW n \in Names, NEW type \in {"file", "dir"}, CanCreate(d, n),
         NEW new, new = adfGet1FreeBlock,
         NEW W, W = WithEntry(type, d, n, new)
  PROVE  /\ Linked(d, n, new) \in [Blocks -> Headers] /\ W \in [Blocks -> Headers]
         /\ Holds(W, T \cup {new}, free \ {new}) /\ NoNewLinks(W)
<1>1. PICK L, B, Q, P :
        /\ Threaded(disk, T, L, B, Q, P)
        /\ Named(disk, T)
        /\ (L \cup {RootBlock}) \cap free = {}
        /\ NamesFit => OwnBuckets(disk, L, B)
  BY DEF Holds
<1>2. disk \in [Blocks -> Headers] /\ free \in SUBSET Blocks /\ d \in Blocks
  BY <1>1 DEF TypeOK, Threaded, WitnessTypes
<1>3. new \in free /\ new \in Blocks /\ new \notin L \cup {RootBlock}
  <2>1. new # NoBlock
    BY DEF CanCreate
  <2>2. new \in free
    BY <1>2, <2>1, FirstFreeIsFree DEF adfGet1FreeBlock
  <2>3. QED BY <1>1, <1>2, <2>2
<1>4. Linked(d, n, new) \in [Blocks -> Headers] /\ W \in [Blocks -> Headers]
  BY <1>1, <1>2, <1>3, LinkedTypes DEF WithEntry
<1>5. PICK L2, B2, Q2, P2 :
          /\ Threaded(W, With(T, new), L2, B2, Q2, P2)
          /\ L2 \subseteq With(L, new)
          /\ OwnBuckets(disk, L, B) /\ Hash[Cut[n]] = Hash[n] => OwnBuckets(W, L2, B2)
  BY <1>1, <1>2, <1>3, <1>4, CreateThreads
<1>6. (L2 \cup {RootBlock}) \cap (free \ {new}) = {}
  BY <1>1, <1>5 DEF With
<1>7. NamesFit => OwnBuckets(W, L2, B2)
  BY <1>1, <1>5 DEF NamesFit
<1>8. Named(W, With(T, new))
  <2>1. /\ W[new] = Header(type, Cut[n], d)
        /\ \A x \in Blocks \ {new} : W[x].name = disk[x].name
    BY <1>1, <1>2, <1>3, CreationRenamesNothing
  <2>2. W[new].name \in Names
    BY <2>1, ConstantsAssumption DEF Header
  <2>3. T \subseteq Blocks
    BY <1>1 DEF Threaded, WitnessTypes
  <2>4. QED BY <1>1, <2>1, <2>2, <2>3 DEF Named, With
<1>9. Holds(W, T \cup {new}, free \ {new})
  BY <1>5, <1>6, <1>7, <1>8 DEF Holds, With
<1>10. NoNewLinks(W)
  <2>1. /\ W[new] = Header(type, Cut[n], d)
        /\ \A x \in Blocks \ {new} : W[x].type = "link" => disk[x].type = "link"
    BY <1>1, <1>2, <1>3, CreationRenamesNothing
  <2>2. W[new].type # "link"
    BY <2>1 DEF Header
  <2>3. QED BY <2>1, <2>2 DEF NoNewLinks
<1>11. QED
  BY <1>4, <1>9, <1>10

\* adfCreateFile and adfCreateDir.
LEMMA CreateKeeps ==
  ASSUME TypeOK, ~cut, free = diskFree, NEW T, Holds(disk, T, free),
         NEW d \in T, NEW n \in Names, NEW type \in {"file", "dir"}, Create(type, d, n)
  PROVE  Keeps(T) /\ last'.op = "create"
<1>1. disk \in [Blocks -> Headers] /\ free \in SUBSET Blocks /\ d \in Blocks
  BY DEF TypeOK, Holds, Threaded, WitnessTypes
<1>2. CASE ~CanCreate(d, n)
  <2>1. Refused(Returned("create", d, n, "error"))
    BY <1>2 DEF Create
  <2>2. QED BY <1>1, <2>1, RefusedKeeps, ReturnedType
<1>3. CASE CanCreate(d, n)
  <2> DEFINE new == adfGet1FreeBlock
             linked == Linked(d, n, new)
             written == [linked EXCEPT ![new] = Header(type, Cut[n], d)]
             imgs == <<disk, linked, written>>
             mem == <<free, free \ {new}, free \ {new}>>
             call == Returned("create", d, n, "ok")
  <2>1. Perform(imgs, mem, TRUE, call)
    BY <1>3 DEF Create
  <2>2. /\ linked \in [Blocks -> Headers] /\ written \in [Blocks -> Headers]
        /\ Holds(written, T \cup {new}, free \ {new}) /\ NoNewLinks(written)
    <3>1. written = WithEntry(type, d, n, new)
      BY DEF WithEntry
    <3> HIDE DEF new, written
    <3>2. linked = Linked(d, n, new) /\ new = adfGet1FreeBlock
      BY DEF new
    <3> HIDE DEF linked
    <3>3. QED BY <1>3, <3>1, <3>2, CreationHolds
  <2> HIDE DEF new, linked, written
  <2>3. /\ imgs \in Seq([Blocks -> Headers]) /\ Len(imgs) = 3 /\ imgs[3] = written
        /\ Len(imgs) # 0 /\ mem[3] = free \ {new}
        /\ \A k \in 1 .. Len(imgs) : mem[k] \in SUBSET Blocks
    BY <1>1, <2>2
  <2>4. call \in Calls /\ call.op = "create"
    BY <1>1, ReturnedType
  <2> HIDE DEF imgs, mem, call
  <2>5. /\ TypeOK' /\ (cut' => MayBeCut) /\ last'.op = "create"
        /\ ~cut' => disk' = written /\ free' = free \ {new} /\ diskFree' = free \ {new}
    BY <2>1, <2>3, <2>4, PerformLeaves
  <2>6. QED BY <2>2, <2>5 DEF Keeps
<1>4. QED
  BY <1>2, <1>3

\* adfRemoveEntry.
LEMMA RemoveKeeps ==
  ASSUME TypeOK, ~cut, free = diskFree, NEW T, Holds(disk, T, free),
         NEW d \in T, NEW n \in Names, adfRemoveEntry(d, n)
  PROVE  /\ Keeps(T) /\ last'.op = "remove"
         /\ Tree(disk') \cap (free' \cup diskFree') = {}
<1>1. PICK L, B, Q, P :
        /\ Threaded(disk, T, L, B, Q, P)
        /\ Named(disk, T)
        /\ (L \cup {RootBlock}) \cap free = {}
        /\ NamesFit => OwnBuckets(disk, L, B)
  BY DEF Holds
<1> DEFINE b == adfNameToEntryBlk(disk, d, n)
           unlinked == Unlinked(disk, d, Hash[n], UpdSect(disk, d, n), disk[b].next)
<1>0. disk \in [Blocks -> Headers] /\ free \in SUBSET Blocks /\ d \in Blocks
      /\ Hash[n] \in Buckets /\ diskFree \in SUBSET Blocks
  BY <1>1, ConstantsAssumption DEF TypeOK, Threaded, WitnessTypes
<1>2. Tree(disk) \cap free = {}
  BY <1>0, <1>1, TreeIsLinked
<1>3. ASSUME NEW call \in Calls, call.op = "remove", Refused(call)
      PROVE  Keeps(T) /\ last'.op = "remove" /\ Tree(disk') \cap (free' \cup diskFree') = {}
  <2>1. Keeps(T) /\ last'.op = "remove"
    BY <1>3, RefusedKeeps
  <2>2. disk' = disk /\ free' = free /\ diskFree' = diskFree
    BY <1>3 DEF Refused
  <2>3. Tree(disk') \cap (free' \cup diskFree') = {}
    BY <1>2, <2>2
  <2>4. QED BY <2>1, <2>3
<1>4. CASE b = NoBlock \/ (disk[b].type = "dir" /\ ~isDirEmpty(b))
  <2>1. \/ Refused(Returned("remove", d, n, "error"))
        \/ Refused(Returned("remove", d, n, "notempty"))
    BY <1>4 DEF adfRemoveEntry
  <2>2. QED BY <1>0, <1>3, <2>1, ReturnedType
<1>5. CASE ~(b = NoBlock \/ (disk[b].type = "dir" /\ ~isDirEmpty(b)))
  <2> DEFINE freed == disk[b].type \in {"dir", "file"}
             imgs == <<disk, unlinked>>
             mem == <<free, IF freed THEN free \cup {b} ELSE free>>
             call == Returned("remove", d, n, IF freed THEN "ok" ELSE "error")
  <2>1. Perform(imgs, mem, freed, call)
    <3>1. CASE freed
      BY <1>5, <3>1 DEF adfRemoveEntry
    <3>2. CASE ~freed
      <4>1. Perform(<<disk, unlinked>>, <<free, free>>, FALSE, Returned("remove", d, n, "error"))
        BY <1>5, <3>2 DEF adfRemoveEntry
      <4>2. freed = FALSE /\ mem = <<free, free>> /\ call = Returned("remove", d, n, "error")
        BY <3>2
      <4>3. QED BY <4>1, <4>2
    <3>3. QED BY <3>1, <3>2
  <2>2. /\ unlinked \in [Blocks -> Headers] /\ b \in L
        /\ \A x \in Blocks : unlinked[x].name = disk[x].name
        /\ NoNewLinks(unlinked)
        /\ \E P2 : Threaded(unlinked, T, L \ {b}, B, Q, P2)
    <3> DEFINE bb == b
               E == unlinked
    <3>1. bb = adfNameToEntryBlk(disk, d, n) /\ bb # NoBlock
          /\ E = Unlinked(disk, d, Hash[n], UpdSect(disk, d, n), disk[bb].next)
      BY <1>5
    <3> HIDE DEF bb, E
    <3>2. IsWithout(E, disk, T, L, B, Q, bb)
      BY <1>0, <1>1, <3>1, UnlinkThreads
    <3>3. \A x \in Blocks : E[x].name = disk[x].name /\ E[x].type = disk[x].type
      BY <3>2 DEF IsWithout
    <3>4. NoNewLinks(E)
      BY <3>3 DEF NoNewLinks
    <3>5. QED BY <3>2, <3>3, <3>4 DEF bb, E, IsWithout
  <2>3. PICK P2 : Threaded(unlinked, T, L \ {b}, B, Q, P2)
    BY <2>2
  <2>4. b \in Blocks
    BY <1>1, <2>2 DEF Threaded, WitnessTypes
  <2> DEFINE mem2 == IF freed THEN free \cup {b} ELSE free
  <2>5. ((L \ {b}) \cup {RootBlock}) \cap mem2 = {} /\ mem2 \in SUBSET Blocks
    BY <1>0, <1>1, <2>2, <2>4 DEF Threaded, WitnessTypes
  <2>6. NamesFit => OwnBuckets(unlinked, L \ {b}, B)
    <3> HIDE DEF b, unlinked
    <3> QED BY <1>1, <2>2 DEF OwnBuckets, Threaded, WitnessTypes
  <2> HIDE DEF b, unlinked, freed
  <2>7. /\ imgs \in Seq([Blocks -> Headers]) /\ Len(imgs) = 2 /\ imgs[1] = disk /\ imgs[2] = unlinked
        /\ Len(imgs) # 0 /\ mem[1] = free /\ mem[2] = mem2
        /\ \A k \in 1 .. Len(imgs) : mem[k] \in SUBSET Blocks
    BY <1>0, <2>2, <2>5
  <2>8. call \in Calls /\ call.op = "remove" /\ freed \in BOOLEAN
    BY <1>0, ReturnedType DEF freed
  <2>9. Holds(unlinked, T, mem2)
    <3>1. Named(unlinked, T)
      BY <1>1, <2>2 DEF Named, Threaded, WitnessTypes
    <3>2. QED BY <2>3, <2>5, <2>6, <3>1 DEF Holds
  <2>10. Tree(unlinked) \cap mem2 = {} /\ Tree(unlinked) \cap free = {}
    <3>1. Tree(unlinked) \subseteq (L \ {b}) \cup {RootBlock}
      BY <2>2, <2>3, TreeIsLinked
    <3>2. QED BY <2>5, <3>1
  <2> DEFINE sync == freed
  <2>11. mem2 = IF sync THEN mem2 ELSE diskFree
    BY DEF freed
  <2> HIDE DEF imgs, mem, mem2, call
  <2>12. /\ TypeOK' /\ (cut' => MayBeCut) /\ last'.op = "remove"
         /\ ~cut' => /\ disk' = unlinked /\ free' = mem2
                     /\ diskFree' = IF sync THEN mem2 ELSE diskFree
    BY <2>1, <2>7, <2>8, PerformLeaves
  <2>13. Keeps(T)
    BY <2>2, <2>9, <2>11, <2>12 DEF Keeps
  <2>14. Tree(disk') \cap (free' \cup diskFree') = {}
    <3>1. PICK k \in 1 .. 2, page \in BOOLEAN, dies \in BOOLEAN :
            /\ page => k = 2
            /\ disk' = imgs[k]
            /\ diskFree' = IF page THEN mem[k] ELSE diskFree
            /\ free' = IF dies THEN diskFree' ELSE mem[k]
      BY <2>1, <2>7 DEF Perform
    <3>2. CASE k = 1
      BY <1>2, <2>7, <3>1, <3>2
    <3>3. CASE k = 2
      BY <2>7, <2>10, <3>1, <3>3
    <3>4. QED BY <3>2, <3>3
  <2>15. QED BY <2>12, <2>13, <2>14
<1>6. QED
  BY <1>4, <1>5

\* adfRenameEntry, unless it would move an entry into itself.
LEMMA RenameKeeps ==
  ASSUME TypeOK, ~cut, free = diskFree, NEW T, Holds(disk, T, free),
         NEW p \in T, NEW np \in T, NEW old \in Names, NEW new \in Names,
         adfNameToEntryBlk(disk, p, old) # np, adfRenameEntry(p, old, np, new)
  PROVE  Keeps(T) /\ last'.op = "rename"
<1>1. PICK L, B, Q, P :
        /\ Threaded(disk, T, L, B, Q, P)
        /\ Named(disk, T)
        /\ (L \cup {RootBlock}) \cap free = {}
        /\ NamesFit => OwnBuckets(disk, L, B)
  BY DEF Holds
<1>0. disk \in [Blocks -> Headers] /\ free \in SUBSET Blocks /\ p \in Blocks
      /\ Hash[old] \in Buckets
  BY <1>1, ConstantsAssumption DEF TypeOK, Threaded, WitnessTypes
<1>2. CASE (p = np /\ old = new) \/ adfNameToEntryBlk(disk, p, old) = NoBlock
  <2>1. Refused(Returned("rename", p, old, "ok")) \/ Refused(Returned("rename", p, old, "error"))
    BY <1>2 DEF adfRenameEntry
  <2>2. QED BY <1>0, <2>1, RefusedKeeps, ReturnedType
<1>3. CASE ~((p = np /\ old = new) \/ adfNameToEntryBlk(disk, p, old) = NoBlock)
  <2> DEFINE imgs == RenameImages(p, old, np, new)
             mem == [i \in DOMAIN imgs |-> free]
             call == Returned("rename", p, old, IF Relinked(imgs) THEN "ok" ELSE "error")
  <2>1. Perform(imgs, mem, FALSE, call)
    BY <1>3 DEF adfRenameEntry
  <2>2. call \in Calls /\ call.op = "rename"
    BY <1>0, ReturnedType
  <2>3. imgs = RenameImages(p, old, np, new)
    OBVIOUS
  <2> HIDE DEF imgs
  <2>4. /\ imgs \in Seq([Blocks -> Headers]) /\ Len(imgs) \in 1 .. 4
        /\ \A x \in Blocks : /\ imgs[Len(imgs)][x].name \in {disk[x].name, new}
                            /\ imgs[Len(imgs)][x].type = disk[x].type
        /\ \E L2, B2, Q2, P2 :
              /\ Threaded(imgs[Len(imgs)], T, L2, B2, Q2, P2)
              /\ L2 \subseteq L
              /\ OwnBuckets(disk, L, B) => OwnBuckets(imgs[Len(imgs)], L2, B2)
    BY <1>0, <1>1, <1>3, <2>3, RenameThreads
  <2>5. PICK L2, B2, Q2, P2 :
          /\ Threaded(imgs[Len(imgs)], T, L2, B2, Q2, P2)
          /\ L2 \subseteq L
          /\ OwnBuckets(disk, L, B) => OwnBuckets(imgs[Len(imgs)], L2, B2)
    BY <2>4
  <2>6. Holds(imgs[Len(imgs)], T, free)
    <3>1. (L2 \cup {RootBlock}) \cap free = {}
      BY <1>1, <2>5
    <3>2. Named(imgs[Len(imgs)], T)
      BY <1>1, <2>4 DEF Named, Threaded, WitnessTypes
    <3>3. QED BY <1>1, <2>5, <3>1, <3>2 DEF Holds
  <2>7. (\A k \in 1 .. Len(imgs) : mem[k] = free) /\ Len(imgs) # 0 /\ Len(imgs) \in 1 .. Len(imgs)
    BY <2>4, SMTT(30)
  <2> HIDE DEF mem, call
  <2>8. /\ TypeOK' /\ (cut' => MayBeCut) /\ last'.op = "rename"
        /\ ~cut' => disk' = imgs[Len(imgs)] /\ free' = free /\ diskFree' = diskFree
    BY <1>0, <2>1, <2>2, <2>4, <2>7, PerformLeaves
  <2>9. NoNewLinks(imgs[Len(imgs)])
    BY <2>4 DEF NoNewLinks
  <2>10. QED BY <2>6, <2>8, <2>9 DEF Keeps
<1>4. QED
  BY <1>2, <1>3

----------------------------------------------------------------------------
(* What a call that is not cut short does to the entries of a volume that has *)
(* no links, and no entries but those in directories: the volumes that the    *)
(* calls make of an empty one.                                                *)

PlainTree(D) ==
    \A c \in Tree(D) \ {RootBlock} : D[c].type \in {"dir", "file"} /\ D[D[c].parent].type \in DirTypes

\* A volume between calls.
Steady(T, L, B, Q, P) ==
    /\ TypeOK /\ ~cut /\ free = diskFree
    /\ Threaded(disk, T, L, B, Q, P)
    /\ (L \cup {RootBlock}) \cap free = {}
    /\ NamesFit => OwnBuckets(disk, L, B)
    /\ PlainTree(disk)

SameEntry(D, E, c) == E[c].type = D[c].type /\ E[c].name = D[c].name /\ E[c].parent = D[c].parent

\* No entry of d, other than b, is called n.
NoOther(d, n, b) ==
    \A c \in Tree(disk) \ {RootBlock, b} : disk[c].parent = d => Fold[disk[c].name] # Fold[n]

\* x is made, b is dropped, b is renamed, b is lost: E is the image left on the
\* disk, F the free blocks.
Makes(E, F, x, type, d, n) ==
    /\ x \in Blocks \ Tree(disk) /\ Tree(E) = Tree(disk) \cup {x} /\ F = free \ {x}
    /\ E[x].type = type /\ E[x].name = Cut[n] /\ E[x].parent = d
    /\ \A c \in Tree(disk) : SameEntry(disk, E, c)
    /\ NamesFit => NoOther(d, n, x)

Drops(E, F, b) ==
    /\ b \in Tree(disk) \ {RootBlock} /\ Tree(E) = Tree(disk) \ {b} /\ F = free \cup {b}
    /\ \A c \in Tree(disk) \ {RootBlock} : disk[c].parent # b
    /\ \A c \in Tree(disk) : SameEntry(disk, E, c)

Moves(E, F, b, d, n) ==
    /\ b \in Tree(disk) \ {RootBlock} /\ Tree(E) = Tree(disk) /\ F = free
    /\ E[b].type = disk[b].type /\ E[b].name = n /\ E[b].parent = d /\ d \notin Below(disk, b)
    /\ \A c \in Tree(disk) \ {b} : SameEntry(disk, E, c)
    /\ NamesFit => NoOther(d, n, b)

Loses(E, F, b, d, n) ==
    /\ b \in Tree(disk) \ {RootBlock} /\ Tree(E) = Tree(disk) \ Below(disk, b) /\ F = free
    /\ \A c \in Tree(disk) \ {b} : SameEntry(disk, E, c)
    /\ E[b].type = disk[b].type
    /\ ~NoOther(d, n, b)

\* What is between calls, about the tree and the entries linked.
LEMMA SteadyTree ==
  ASSUME NEW T, NEW L, NEW B, NEW Q, NEW P, Steady(T, L, B, Q, P)
  PROVE  /\ disk \in [Blocks -> Headers] /\ free \in SUBSET Blocks /\ diskFree \in SUBSET Blocks
         /\ T \subseteq Blocks /\ L \subseteq T /\ RootBlock \in T /\ RootBlock \notin L
         /\ NoBlock \notin Blocks
         /\ IsTree(disk, L, Tree(disk))
         /\ Dirs(disk) \subseteq T /\ Dirs(disk) \subseteq Tree(disk)
         /\ \A c \in L : disk[c].parent \in Tree(disk) =>
               c \in Tree(disk) /\ c # RootBlock /\ disk[c].type \in {"dir", "file"}
                 /\ disk[disk[c].parent].type \in DirTypes
<1>1. disk \in [Blocks -> Headers] /\ free \in SUBSET Blocks /\ diskFree \in SUBSET Blocks
  BY DEF Steady, TypeOK
<1>2. Threaded(disk, T, L, B, Q, P) /\ PlainTree(disk)
  BY DEF Steady
<1>3. T \subseteq Blocks /\ L \subseteq T /\ RootBlock \in T /\ RootBlock \notin L
      /\ NoBlock \notin Blocks
  BY <1>2, ConstantsAssumption DEF Threaded, WitnessTypes
<1>4. IsTree(disk, L, Tree(disk))
  BY <1>1, <1>2, TreeIsTree
<1>5. Dirs(disk) \subseteq T /\ Dirs(disk) \subseteq Tree(disk)
  BY <1>1, <1>2, DirsAreFollowed DEF Dirs
<1>6. \A c \in L : disk[c].parent \in Tree(disk) => c \in Tree(disk) /\ c # RootBlock
  BY <1>3, <1>4 DEF IsTree, HoldsEntries
<1>7. QED
  BY <1>1, <1>2, <1>3, <1>4, <1>5, <1>6 DEF PlainTree

\* Names that are the same in upper case have the same hash.
LEMMA HashOfFold ==
  ASSUME NamesFit, NEW m \in Names, NEW n \in Names, Fold[m] = Fold[n]
  PROVE  Hash[m] = Hash[n]
<1>1. Cut[m] \in Range(Cut) /\ Cut[n] \in Range(Cut) /\ Fold[Cut[m]] = Fold[Cut[n]]
  BY ConstantsAssumption DEF Range
<1>2. Hash[Cut[m]] = Hash[Cut[n]]
  BY <1>1, ConstantsAssumption
<1>3. QED
  BY <1>2 DEF NamesFit

\* So it is enough to look for a name in its bucket.
LEMMA NotTakenMeans ==
  ASSUME NEW T, NEW L, NEW B, NEW Q, NEW P, Steady(T, L, B, Q, P),
         NEW d, NEW n \in Names, NEW b, ~TakenIn(L \ {b}, B, d, n)
  PROVE  NamesFit => NoOther(d, n, b)
<1> SUFFICES ASSUME NamesFit, NEW c \in Tree(disk) \ {RootBlock, b}, disk[c].parent = d,
                    Fold[disk[c].name] = Fold[n]
             PROVE  FALSE
  BY DEF NoOther
<1>1. c \in L /\ c # b
  BY SteadyTree DEF IsTree
<1>2. disk[c].name \in Names /\ B[c] = Hash[disk[c].name]
  BY <1>1 DEF Steady, Threaded, EntryHeaders, OwnBuckets
<1>3. B[c] = Hash[n]
  BY <1>2, HashOfFold
<1>4. QED
  BY <1>1, <1>3 DEF TakenIn

\* adfCreateFile and adfCreateDir.
LEMMA CreateMakes ==
  ASSUME NEW T, NEW L, NEW B, NEW Q, NEW P, Steady(T, L, B, Q, P),
         NEW d \in Dirs(disk), NEW n \in Names, NEW type \in {"file", "dir"}, CanCreate(d, n),
         NEW x, x = adfGet1FreeBlock, NEW W, W = WithEntry(type, d, n, x)
  PROVE  Makes(W, free \ {x}, x, type, d, n)
<1>0. /\ disk \in [Blocks -> Headers] /\ free \in SUBSET Blocks
      /\ T \subseteq Blocks /\ L \subseteq T /\ RootBlock \in T /\ NoBlock \notin Blocks
      /\ IsTree(disk, L, Tree(disk)) /\ d \in T /\ d \in Tree(disk)
      /\ \A c \in L : disk[c].parent \in Tree(disk) =>
            c \in Tree(disk) /\ c # RootBlock /\ disk[c].type \in {"dir", "file"}
  BY SteadyTree
<1>1. Threaded(disk, T, L, B, Q, P) /\ (L \cup {RootBlock}) \cap free = {}
  BY DEF Steady
<1>2. x \in free /\ x \in Blocks /\ x \notin L \cup {RootBlock}
  <2>1. x # NoBlock
    BY DEF CanCreate
  <2>2. x \in free
    BY <1>0, <2>1, FirstFreeIsFree DEF adfGet1FreeBlock
  <2>3. QED BY <1>0, <1>1, <2>2
<1>3. x \notin Tree(disk) /\ d # x /\ d \in Blocks /\ Hash[n] \in Buckets
  BY <1>0, <1>2, ConstantsAssumption DEF IsTree
<1>4. TakesSuccessor(d, n)
  <2> SUFFICES ASSUME disk[d].ht[Hash[n]] # NoBlock
               PROVE  disk[ChainEnd(disk, d, Hash[n])].type \in {"dir", "file"}
    BY DEF TakesSuccessor
  <2>1. ChainEnd(disk, d, Hash[n]) \in L /\ disk[ChainEnd(disk, d, Hash[n])].parent = d
    BY <1>0, <1>1, <1>3, ChainHasEnd
  <2>2. QED BY <1>0, <2>1
<1>5. W \in [Blocks -> Headers]
  BY <1>0, <1>1, <1>2, <1>3, LinkedTypes DEF WithEntry
<1>6. PICK L2, B2, Q2, P2 :
            /\ Threaded(W, With(T, x), L2, B2, Q2, P2)
            /\ L2 \ {x} = {c \in L : disk[c].parent # x}
            /\ x \in L2
  BY <1>0, <1>1, <1>2, <1>3, <1>4, <1>5, CreateThreads
<1>7. /\ W[x] = Header(type, Cut[n], d)
      /\ \A c \in Blocks \ {x} : /\ W[c].name = disk[c].name /\ W[c].parent = disk[c].parent
                                 /\ disk[d].type \in DirTypes => W[c].type = disk[c].type
  BY <1>0, <1>1, <1>2, <1>3, CreationRenamesNothing
<1>8. W[x].type = type /\ W[x].name = Cut[n] /\ W[x].parent = d
  BY <1>7 DEF Header
<1>9. \A c \in Tree(disk) : SameEntry(disk, W, c)
  BY <1>0, <1>3, <1>7 DEF SameEntry, IsTree, Dirs
<1>10. Tree(W) = Tree(disk) \cup {x}
  <2>1. IsTree(W, L2, Tree(W))
    BY <1>5, <1>6, TreeIsTree
  <2>2. \A c \in L : disk[c].parent # x => W[c].parent = disk[c].parent
    BY <1>0, <1>2, <1>7
  <2>3. QED BY <1>0, <1>2, <1>6, <1>8, <2>1, <2>2, TreeWithMore
<1>11. NamesFit => NoOther(d, n, x)
  <2>1. \A c \in L : disk[c].parent = d /\ B[c] = Hash[n] => Fold[disk[c].name] # Fold[n]
    BY <1>0, <1>1, <1>3, LookupMisses DEF CanCreate
  <2>2. ~TakenIn(L \ {x}, B, d, n)
    BY <2>1 DEF TakenIn
  <2>3. QED BY <2>2, NotTakenMeans
<1>12. QED
  BY <1>2, <1>3, <1>8, <1>9, <1>10, <1>11 DEF Makes

\* adfRemoveEntry.
LEMMA RemoveDrops ==
  ASSUME NEW T, NEW L, NEW B, NEW Q, NEW P, Steady(T, L, B, Q, P),
         NEW d \in Dirs(disk), NEW n \in Names,
         NEW b, b = adfNameToEntryBlk(disk, d, n), b # NoBlock,
         disk[b].type = "dir" => isDirEmpty(b),
         NEW E, E = Unlinked(disk, d, Hash[n], UpdSect(disk, d, n), disk[b].next)
  PROVE  /\ disk[b].type \in {"dir", "file"} /\ b \in Blocks /\ E \in [Blocks -> Headers]
         /\ Drops(E, free \cup {b}, b)
<1>0. /\ disk \in [Blocks -> Headers] /\ free \in SUBSET Blocks
      /\ T \subseteq Blocks /\ L \subseteq T /\ RootBlock \in T /\ NoBlock \notin Blocks
      /\ IsTree(disk, L, Tree(disk)) /\ d \in T /\ d \in Tree(disk)
      /\ \A c \in L : disk[c].parent \in Tree(disk) =>
            c \in Tree(disk) /\ c # RootBlock /\ disk[c].type \in {"dir", "file"}
              /\ disk[disk[c].parent].type \in DirTypes
      /\ Hash[n] \in Buckets
  BY SteadyTree, ConstantsAssumption
<1>1. Threaded(disk, T, L, B, Q, P)
  BY DEF Steady
<1>2. b \in L /\ disk[b].parent = d
  BY <1>0, <1>1, LookupFinds
<1>3. b \in Tree(disk) \ {RootBlock} /\ disk[b].type \in {"dir", "file"} /\ b \in Blocks
  BY <1>0, <1>2
<1>4. IsWithout(E, disk, T, L, B, Q, b)
  BY <1>0, <1>1, UnlinkThreads
<1>5. PICK P2 : Threaded(E, T, L \ {b}, B, Q, P2)
  BY <1>4 DEF IsWithout
<1>6. E \in [Blocks -> Headers] /\ \A c \in Blocks : SameEntry(disk, E, c)
  BY <1>4 DEF IsWithout, SameEntry
<1>7. \A c \in L : disk[c].parent # b
  <2> SUFFICES ASSUME NEW c \in L, disk[c].parent = b PROVE FALSE
    OBVIOUS
  <2>1. disk[b].type \in DirTypes
    BY <1>0, <1>3
  <2>2. disk[b].ht = EmptyTable
    BY <1>3, <2>1 DEF DirTypes, isDirEmpty
  <2>3. b \in T /\ B[c] \in Buckets
    BY <1>0, <1>1, <1>2 DEF Threaded, WitnessTypes
  <2>4. c \in Chain(disk, b, B[c])
    BY <1>0, <1>1, <2>3, ChainIsBucket
  <2>5. disk[b].ht[B[c]] # NoBlock
    BY <1>0, <1>1, <2>3, <2>4, BucketHasFirst
  <2>6. QED BY <2>2, <2>3, <2>5 DEF EmptyTable
<1>8. Tree(E) = Tree(disk) \ {b}
  <2>1. IsTree(E, L \ {b}, Tree(E))
    BY <1>5, <1>6, TreeIsTree
  <2>2. IsBelow(disk, L, Tree(disk), b, Below(disk, b))
    BY <1>0, <1>1, <1>3, BelowIsBelow
  <2>3. Below(disk, b) = {b}
    BY <1>0, <1>7, <2>2, NothingBelow
  <2>4. \A c \in L \ {b} : E[c].parent = disk[c].parent
    BY <1>0, <1>6 DEF SameEntry
  <2>5. PICK L2 : L2 = L \ {b}
    OBVIOUS
  <2>6. Tree(E) = Tree(disk) \ Below(disk, b)
    BY <1>0, <2>1, <2>2, <2>4, <2>5, TreeWithLess
  <2>7. QED BY <2>3, <2>6
<1>9. \A c \in Tree(disk) \ {RootBlock} : disk[c].parent # b
  BY <1>0, <1>7 DEF IsTree
<1>10. \A c \in Tree(disk) : SameEntry(disk, E, c)
  BY <1>0, <1>6 DEF IsTree
<1>11. QED
  BY <1>3, <1>6, <1>8, <1>9, <1>10 DEF Drops

\* adfRenameEntry, of an entry that is not above the directory it goes to.
LEMMA RenameMoves ==
  ASSUME NEW T, NEW L, NEW B, NEW Q, NEW P, Steady(T, L, B, Q, P),
         NEW p \in Dirs(disk), NEW np \in Dirs(disk), NEW old \in Names, NEW new \in Names,
         NEW b, b = adfNameToEntryBlk(disk, p, old), b # NoBlock, b \notin Ancestors(disk, np),
         NEW imgs, imgs = RenameImages(p, old, np, new), NEW E, E = imgs[Len(imgs)]
  PROVE  /\ Relinked(imgs) => Moves(E, free, b, np, new)
         /\ ~Relinked(imgs) => Loses(E, free, b, np, new)
<1>0. /\ disk \in [Blocks -> Headers] /\ free \in SUBSET Blocks
      /\ T \subseteq Blocks /\ L \subseteq T /\ RootBlock \in T /\ NoBlock \notin Blocks
      /\ IsTree(disk, L, Tree(disk)) /\ p \in T /\ p \in Tree(disk) /\ np \in T /\ np \in Tree(disk)
      /\ \A c \in L : disk[c].parent \in Tree(disk) =>
            c \in Tree(disk) /\ c # RootBlock /\ disk[c].type \in {"dir", "file"}
      /\ Hash[old] \in Buckets
  BY SteadyTree, ConstantsAssumption
<1>1. Threaded(disk, T, L, B, Q, P)
  BY DEF Steady
<1>2. b \in L /\ disk[b].parent = p
  BY <1>0, <1>1, LookupFinds
<1>3. b \in Tree(disk) \ {RootBlock} /\ b \in Blocks
  BY <1>0, <1>2
<1>4. np \notin Below(disk, b) /\ b # np
  BY <1>0, AncestorsClose DEF Below, IsTree
<1>5. IsBelow(disk, L, Tree(disk), b, Below(disk, b))
  BY <1>0, <1>1, <1>3, BelowIsBelow
<1>6. /\ imgs \in Seq([Blocks -> Headers]) /\ Len(imgs) \in 1 .. 4
      /\ \A x \in Blocks : imgs[Len(imgs)][x].type = disk[x].type
      /\ \E L2, B2, Q2, P2 :
              /\ Threaded(imgs[Len(imgs)], T, L2, B2, Q2, P2)
              /\ IsRenamed(imgs[Len(imgs)], Relinked(imgs), L, L2, B,
                           adfNameToEntryBlk(disk, p, old), np, new)
  <2>1. adfNameToEntryBlk(disk, p, old) # NoBlock /\ adfNameToEntryBlk(disk, p, old) # np
    BY <1>4
  <2>2. QED BY <1>0, <1>1, <2>1, RenameThreads
<1>7. PICK L2, B2, Q2, P2 :
          Threaded(E, T, L2, B2, Q2, P2) /\ IsRenamed(E, Relinked(imgs), L, L2, B, b, np, new)
  BY <1>6
<1>8. E \in [Blocks -> Headers] /\ \A x \in Blocks : E[x].type = disk[x].type
  <2>1. imgs \in Seq([Blocks -> Headers]) /\ Len(imgs) \in 1 .. 4
    BY <1>6
  <2>2. PICK n : n = Len(imgs)
    OBVIOUS
  <2>3. imgs[Len(imgs)] \in [Blocks -> Headers]
    <3>1. n \in 1 .. 4
      BY ONLY <2>1, <2>2
    <3>2. n \in 1 .. n
      BY ONLY <3>1
    <3>3. \A i \in 1 .. Len(imgs) : imgs[i] \in [Blocks -> Headers]
      BY ONLY <2>1
    <3>4. QED BY ONLY <2>2, <3>2, <3>3
  <2>4. E = imgs[Len(imgs)] /\ \A x \in Blocks : imgs[Len(imgs)][x].type = disk[x].type
    BY <1>6
  <2>5. QED BY ONLY <2>3, <2>4
<1>9. Threaded(E, T, L2, B2, Q2, P2)
  BY <1>7
<1>10. IsTree(E, L2, Tree(E))
  BY ONLY <1>8, <1>9, TreeIsTree
<1>11. \A c \in Tree(disk) \ {b} : SameEntry(disk, E, c)
  BY <1>0, <1>7, <1>8 DEF IsRenamed, SameEntry, IsTree
<1>12. \A c \in L \ {b} : E[c].parent = disk[c].parent
  BY <1>0, <1>7 DEF IsRenamed
<1>13. ASSUME Relinked(imgs) PROVE Moves(E, free, b, np, new)
  <2>1. L2 = L /\ ~TakenIn(L \ {b}, B, np, new) /\ E[b].name = new /\ E[b].parent = np
    BY <1>7, <1>13 DEF IsRenamed
  <2>2. E[b].parent \in Tree(disk) \ Below(disk, b)
    BY <1>0, <1>4, <2>1
  <2>3. Tree(E) = Tree(disk)
    BY <1>0, <1>5, <1>10, <1>12, <2>1, <2>2, TreeMoved
  <2>4. NamesFit => NoOther(np, new, b)
    BY <2>1, NotTakenMeans
  <2>5. QED BY <1>3, <1>4, <1>11, <1>8, <2>1, <2>3, <2>4 DEF Moves
<1>14. ASSUME ~Relinked(imgs) PROVE Loses(E, free, b, np, new)
  <2>1. L2 = L \ {b} /\ (TakenIn(L \ {b}, B, np, new)
                           \/ \E c \in L : disk[c].parent = np /\ disk[c].type = "link")
    BY <1>7, <1>14 DEF IsRenamed
  <2>2. Tree(E) = Tree(disk) \ Below(disk, b)
    BY <1>0, <1>5, <1>10, <1>12, <2>1, TreeWithLess
  <2>3. \A c \in L : disk[c].parent = np => disk[c].type # "link"
    BY <1>0
  <2>4. PICK c \in L \ {b} : disk[c].parent = np /\ Fold[disk[c].name] = Fold[new]
    BY <2>1, <2>3 DEF TakenIn
  <2>5. c \in Tree(disk) \ {RootBlock, b}
    BY <1>0, <2>4
  <2>6. ~NoOther(np, new, b)
    BY <2>4, <2>5 DEF NoOther
  <2>7. QED BY <1>3, <1>11, <1>8, <2>2, <2>6 DEF Loses
<1>15. QED
  BY <1>13, <1>14

\* What a call that is not cut short has done, E and F as above and rc what it
\* returned.
MakesOne(E, F) ==
    \E x \in Blocks, d \in Dirs(disk), n \in Names, type \in {"file", "dir"} : Makes(E, F, x, type, d, n)
DropsOne(E, F) == \E b \in Blocks : Drops(E, F, b)
MovesOne(E, F) == \E b \in Blocks, d \in Dirs(disk), n \in Names : Moves(E, F, b, d, n)
LosesOne(E, F) == \E b \in Blocks, d \in Dirs(disk), n \in Names : Loses(E, F, b, d, n)
Does(E, F, rc) ==
    \/ E = disk /\ F = free
    \/ MakesOne(E, F) \/ DropsOne(E, F) \/ MovesOne(E, F)
    \/ LosesOne(E, F) /\ rc = "error"

SteadyState == \E T, L, B, Q, P : Steady(T, L, B, Q, P)

LEMMA CreateDoes ==
  ASSUME SteadyState, NEW d \in Dirs(disk), NEW n \in Names, NEW type \in {"file", "dir"},
         Create(type, d, n), ~cut'
  PROVE  Does(disk', free', last'.rc)
<1>1. PICK T, L, B, Q, P : Steady(T, L, B, Q, P)
  BY DEF SteadyState
<1>2. TypeOK /\ disk \in [Blocks -> Headers] /\ free \in SUBSET Blocks /\ d \in Blocks /\ d \in T
  BY <1>1, SteadyTree DEF Steady
<1>3. CASE ~CanCreate(d, n)
  <2>1. Refused(Returned("create", d, n, "error"))
    BY <1>3 DEF Create
  <2>2. QED BY <2>1 DEF Refused, Does
<1>4. CASE CanCreate(d, n)
  <2> DEFINE new == adfGet1FreeBlock
             linked == Linked(d, n, new)
             written == [linked EXCEPT ![new] = Header(type, Cut[n], d)]
             imgs == <<disk, linked, written>>
             mem == <<free, free \ {new}, free \ {new}>>
             call == Returned("create", d, n, "ok")
  <2>1. Perform(imgs, mem, TRUE, call)
    BY <1>4 DEF Create
  <2>2. written = WithEntry(type, d, n, new) /\ new = adfGet1FreeBlock /\ linked = Linked(d, n, new)
    BY DEF WithEntry
  <2> HIDE DEF new, linked, written
  <2>3. linked \in [Blocks -> Headers] /\ written \in [Blocks -> Headers]
    <3>2. new \in free
      <4>1. new # NoBlock
        BY <1>4, <2>2 DEF CanCreate
      <4>2. QED BY <1>2, <2>2, <4>1, FirstFreeIsFree DEF adfGet1FreeBlock
    <3>3. Threaded(disk, T, L, B, Q, P) /\ (L \cup {RootBlock}) \cap free = {}
      BY <1>1 DEF Steady
    <3>4. new \in Blocks /\ new \notin L \cup {RootBlock}
      BY <1>2, <3>2, <3>3
    <3>5. linked \in [Blocks -> Headers]
      BY <1>2, <2>2, <3>3, <3>4, LinkedTypes
    <3>6. Header(type, Cut[n], d) \in Headers
      BY <1>2, ConstantsAssumption DEF Header, Headers, EmptyTable, Pointers
    <3>7. written = [linked EXCEPT ![new] = Header(type, Cut[n], d)]
      BY DEF written
    <3>8. QED BY <3>5, <3>6, <3>7
  <2>4. Makes(written, free \ {new}, new, type, d, n)
    BY <1>1, <1>4, <2>2, CreateMakes
  <2>5. /\ imgs \in Seq([Blocks -> Headers]) /\ Len(imgs) = 3 /\ imgs[3] = written
        /\ Len(imgs) # 0 /\ mem[3] = free \ {new}
        /\ \A k \in 1 .. Len(imgs) : mem[k] \in SUBSET Blocks
    BY <1>2, <2>3
  <2>6. call \in Calls
    BY <1>2, ReturnedType
  <2> HIDE DEF imgs, mem, call
  <2>7. disk' = written /\ free' = free \ {new}
    BY <1>2, <2>1, <2>5, <2>6, PerformLeaves
  <2>8. PICK x, W : x = new /\ W = written
    OBVIOUS
  <2>9. MakesOne(W, free \ {x})
    <3>1. Makes(W, free \ {x}, x, type, d, n)
      BY <2>4, <2>8
    <3>2. x \in Blocks
      BY <3>1 DEF Makes
    <3>3. QED BY <3>1, <3>2 DEF MakesOne
  <2>10. QED BY <2>7, <2>8, <2>9 DEF Does
<1>5. QED
  BY <1>3, <1>4

LEMMA RemoveDoes ==
  ASSUME SteadyState, NEW d \in Dirs(disk), NEW n \in Names, adfRemoveEntry(d, n), ~cut'
  PROVE  Does(disk', free', last'.rc)
<1>1. PICK T, L, B, Q, P : Steady(T, L, B, Q, P)
  BY DEF SteadyState
<1>2. /\ TypeOK /\ disk \in [Blocks -> Headers] /\ free \in SUBSET Blocks /\ d \in Blocks /\ d \in T
      /\ Hash[n] \in Buckets
  BY <1>1, SteadyTree, ConstantsAssumption DEF Steady
<1> DEFINE b == adfNameToEntryBlk(disk, d, n)
           unlinked == Unlinked(disk, d, Hash[n], UpdSect(disk, d, n), disk[b].next)
<1>3. CASE b = NoBlock \/ (disk[b].type = "dir" /\ ~isDirEmpty(b))
  <2>1. \/ Refused(Returned("remove", d, n, "error"))
        \/ Refused(Returned("remove", d, n, "notempty"))
    BY <1>3 DEF adfRemoveEntry
  <2>2. QED BY <2>1 DEF Refused, Does
<1>4. CASE b # NoBlock /\ (disk[b].type = "dir" => isDirEmpty(b))
  <2> DEFINE imgs == <<disk, unlinked>>
             mem == <<free, free \cup {b}>>
             call == Returned("remove", d, n, "ok")
  <2>1. Threaded(disk, T, L, B, Q, P)
    BY <1>1 DEF Steady
  <2>2. PICK bb, E : /\ bb = b /\ E = unlinked /\ bb = adfNameToEntryBlk(disk, d, n) /\ bb # NoBlock
                     /\ E = Unlinked(disk, d, Hash[n], UpdSect(disk, d, n), disk[bb].next)
    BY <1>4
  <2>3. bb \in L /\ disk[bb].parent = d /\ d \in Tree(disk)
    BY <1>1, <1>2, <2>1, <2>2, LookupFinds, SteadyTree
  <2>4. disk[bb].type \in {"dir", "file"} /\ bb \in Blocks
    BY <1>1, <2>3, SteadyTree
  <2>5. Drops(E, free \cup {bb}, bb)
    BY <1>1, <1>4, <2>2, RemoveDrops
  <2>6. IsWithout(E, disk, T, L, B, Q, bb)
    BY <1>2, <2>1, <2>2, UnlinkThreads
  <2>7. E \in [Blocks -> Headers]
    BY <2>6 DEF IsWithout
  <2>8. Perform(imgs, mem, TRUE, call)
    BY <1>4, <2>2, <2>4 DEF adfRemoveEntry
  <2> HIDE DEF b, unlinked
  <2>9. /\ imgs \in Seq([Blocks -> Headers]) /\ Len(imgs) = 2 /\ imgs[2] = E
        /\ Len(imgs) # 0 /\ mem[2] = free \cup {bb}
        /\ \A k \in 1 .. Len(imgs) : mem[k] \in SUBSET Blocks
    BY <1>2, <2>2, <2>4, <2>7
  <2>10. call \in Calls
    BY <1>2, ReturnedType
  <2> HIDE DEF imgs, mem, call
  <2>11. disk' = E /\ free' = free \cup {bb}
    BY <1>2, <2>8, <2>9, <2>10, PerformLeaves
  <2>12. DropsOne(E, free \cup {bb})
    BY <2>4, <2>5 DEF DropsOne
  <2>13. QED BY <2>11, <2>12 DEF Does
<1>5. QED
  BY <1>3, <1>4

LEMMA RenameDoes ==
  ASSUME SteadyState, NEW p \in Dirs(disk), NEW np \in Dirs(disk), NEW old \in Names, NEW new \in Names,
         adfNameToEntryBlk(disk, p, old) \notin Ancestors(disk, np),
         adfRenameEntry(p, old, np, new), ~cut'
  PROVE  Does(disk', free', last'.rc)
<1>1. PICK T, L, B, Q, P : Steady(T, L, B, Q, P)
  BY DEF SteadyState
<1>2. /\ TypeOK /\ disk \in [Blocks -> Headers] /\ free \in SUBSET Blocks /\ p \in Blocks /\ p \in T
      /\ np \in T /\ np \in Blocks /\ Hash[old] \in Buckets
  BY <1>1, SteadyTree, ConstantsAssumption DEF Steady
<1>3. CASE (p = np /\ old = new) \/ adfNameToEntryBlk(disk, p, old) = NoBlock
  <2>1. Refused(Returned("rename", p, old, "ok")) \/ Refused(Returned("rename", p, old, "error"))
    BY <1>3 DEF adfRenameEntry
  <2>2. QED BY <2>1 DEF Refused, Does
<1>4. CASE ~((p = np /\ old = new) \/ adfNameToEntryBlk(disk, p, old) = NoBlock)
  <2> DEFINE imgs == RenameImages(p, old, np, new)
             E == imgs[Len(imgs)]
             mem == [i \in DOMAIN imgs |-> free]
             call == Returned("rename", p, old, IF Relinked(imgs) THEN "ok" ELSE "error")
  <2>1. Perform(imgs, mem, FALSE, call)
    BY <1>4 DEF adfRenameEntry
  <2>2. call \in Calls /\ (~Relinked(imgs) => call.rc = "error")
    BY <1>2, ReturnedType DEF Returned
  <2>3. imgs = RenameImages(p, old, np, new)
    OBVIOUS
  <2> HIDE DEF imgs
  <2>4. adfNameToEntryBlk(disk, p, old) # np /\ adfNameToEntryBlk(disk, p, old) # NoBlock
        /\ Threaded(disk, T, L, B, Q, P)
    BY <1>1, <1>2, <1>4, AncestorsClose DEF Steady
  <2>5. imgs \in Seq([Blocks -> Headers]) /\ Len(imgs) \in 1 .. 4
    BY <1>2, <2>3, <2>4, RenameThreads
  <2>6. (\A k \in 1 .. Len(imgs) : mem[k] = free) /\ Len(imgs) # 0 /\ Len(imgs) \in 1 .. Len(imgs)
    BY <2>5, SMTT(30)
  <2>7. (Relinked(imgs) => MovesOne(E, free)) /\ (~Relinked(imgs) => LosesOne(E, free))
    <3>1. PICK bb, e : bb = adfNameToEntryBlk(disk, p, old) /\ e = imgs[Len(imgs)]
      OBVIOUS
    <3>2. /\ Relinked(imgs) => Moves(e, free, bb, np, new)
          /\ ~Relinked(imgs) => Loses(e, free, bb, np, new)
      BY <1>1, <2>3, <2>4, <3>1, RenameMoves
    <3>3. (Relinked(imgs) => MovesOne(e, free)) /\ (~Relinked(imgs) => LosesOne(e, free))
      <4>1. bb \in Blocks
        BY <1>1, <1>2, <2>4, <3>1, LookupFinds DEF Threaded, WitnessTypes
      <4>2. QED BY <3>2, <4>1 DEF MovesOne, LosesOne
    <3>4. QED BY <3>1, <3>3
  <2> HIDE DEF mem, call
  <2>8. disk' = E /\ free' = free /\ last' = call
    BY <1>2, <2>1, <2>2, <2>5, <2>6, PerformLeaves
  <2> HIDE DEF E
  <2>9. CASE Relinked(imgs)
    <3>1. MovesOne(E, free)
      BY <2>7, <2>9
    <3>2. QED BY <2>8, <3>1 DEF Does
  <2>10. CASE ~Relinked(imgs)
    <3>1. LosesOne(E, free)
      BY <2>7, <2>10
    <3>2. QED BY <2>2, <2>8, <2>10, <3>1 DEF Does
  <2>11. QED BY <2>9, <2>10
<1>5. QED
  BY <1>3, <1>4

\* Every call that is not cut short.
LEMMA CallDoes ==
  ASSUME SteadyState, Call, ~cut'
  PROVE  Does(disk', free', last'.rc)
<1>1. PICK T, L, B, Q, P : Steady(T, L, B, Q, P)
  BY DEF SteadyState
<1>2. /\ disk \in [Blocks -> Headers] /\ Threaded(disk, T, L, B, Q, P)
      /\ Dirs(disk) \subseteq T /\ Dirs(disk) \subseteq Tree(disk) /\ T \subseteq Blocks
      /\ NoBlock \notin Blocks /\ IsTree(disk, L, Tree(disk))
  BY <1>1, SteadyTree DEF Steady
<1>3. ASSUME NEW p \in Dirs(disk), NEW old \in ShortNames, NEW new \in ShortNames,
             NEW np \in Targets(p, old), adfRenameEntry(p, old, np, new)
      PROVE  Does(disk', free', last'.rc)
  <2>1. old \in Names /\ new \in Names /\ Hash[old] \in Buckets
    BY ConstantsAssumption DEF ShortNames, Range
  <2>2. np \in Dirs(disk)
    BY <1>3 DEF Targets
  <2>3. adfNameToEntryBlk(disk, p, old) \notin Ancestors(disk, np)
    <3>1. CASE MoveAcross
      BY <3>1 DEF Targets
    <3>2. CASE ~MoveAcross
      <4>1. np = p /\ p \in T /\ p \in Tree(disk) /\ p \in Blocks
        BY <1>2, <3>2 DEF Targets
      <4>2. CASE adfNameToEntryBlk(disk, p, old) = NoBlock
        <5>1. Ancestors(disk, p) \subseteq Blocks
          BY <1>2, <4>1, AncestorsClose
        <5>2. QED BY <1>2, <4>1, <4>2, <5>1
      <4>3. CASE adfNameToEntryBlk(disk, p, old) # NoBlock
        <5>1. PICK b : b = adfNameToEntryBlk(disk, p, old)
          OBVIOUS
        <5>2. b \in L /\ disk[b].parent = p
          BY <1>2, <2>1, <4>1, <4>3, <5>1, LookupFinds
        <5>3. b \in Tree(disk) \ {RootBlock}
          BY <1>1, <4>1, <5>2, SteadyTree
        <5>4. b \notin Ancestors(disk, disk[b].parent)
          BY <1>2, <5>3, NotBelowItself
        <5>5. QED BY <4>1, <5>1, <5>2, <5>4
      <4>4. QED BY <4>2, <4>3
    <3>3. QED BY <3>1, <3>2
  <2>4. QED BY <1>3, <2>1, <2>2, <2>3, RenameDoes
<1>4. CASE \E d \in Dirs(disk), n \in Names : adfCreateFile(d, n) \/ adfCreateDir(d, n)
  BY <1>4, CreateDoes DEF adfCreateFile, adfCreateDir
<1>5. CASE \E d \in Dirs(disk), n \in Names : adfRemoveEntry(d, n)
  BY <1>5, RemoveDoes
<1>6. CASE \E p \in Dirs(disk), old, new \in ShortNames : \E np \in Targets(p, old) :
              adfRenameEntry(p, old, np, new)
  BY <1>3, <1>6
<1>7. QED
  BY <1>4, <1>5, <1>6 DEF Call

\* The tree stays plain.
LEMMA DoesPlain ==
  ASSUME SteadyState, NEW E, NEW F, NEW rc, Does(E, F, rc)
  PROVE  PlainTree(E)
<1>1. PICK T, L, B, Q, P : Steady(T, L, B, Q, P)
  BY DEF SteadyState
<1>2. IsTree(disk, L, Tree(disk)) /\ PlainTree(disk) /\ disk \in [Blocks -> Headers]
      /\ Threaded(disk, T, L, B, Q, P)
  BY <1>1, SteadyTree DEF Steady
<1>3. \A c \in Tree(disk) \ {RootBlock} :
         c \in Tree(disk) /\ disk[c].type \in {"dir", "file"}
         /\ disk[c].parent \in Tree(disk) /\ disk[disk[c].parent].type \in DirTypes
  BY <1>2 DEF IsTree, PlainTree
<1>4. CASE MakesOne(E, F)
  <2>1. PICK x \in Blocks, d \in Dirs(disk), n \in Names, type \in {"file", "dir"} : Makes(E, F, x, type, d, n)
    BY <1>4 DEF MakesOne
  <2>2. d \in Tree(disk) /\ disk[d].type \in DirTypes
    BY DEF Dirs
  <2>3. QED BY <1>3, <2>1, <2>2 DEF PlainTree, Makes, SameEntry
<1>5. CASE DropsOne(E, F)
  BY <1>3, <1>5 DEF PlainTree, DropsOne, Drops, SameEntry
<1>6. CASE MovesOne(E, F)
  <2>1. PICK b \in Blocks, d \in Dirs(disk), n \in Names : Moves(E, F, b, d, n)
    BY <1>6 DEF MovesOne
  <2>2. d \in Tree(disk) /\ disk[d].type \in DirTypes
    BY DEF Dirs
  <2>3. \A c \in Tree(disk) : E[c].type = disk[c].type
    BY <2>1 DEF Moves, SameEntry
  <2>4. \A c \in Tree(disk) \ {RootBlock} : E[c].parent = d \/ E[c].parent = disk[c].parent
    BY <2>1 DEF Moves, SameEntry
  <2>5. QED BY <1>3, <2>1, <2>2, <2>3, <2>4 DEF PlainTree, Moves
<1>7. CASE LosesOne(E, F)
  <2>1. PICK b \in Blocks, d \in Dirs(disk), n \in Names : Loses(E, F, b, d, n)
    BY <1>7 DEF LosesOne
  <2>2. b \in Below(disk, b)
    <3>1. b \in Tree(disk) \ {RootBlock}
      BY <2>1 DEF Loses
    <3>2. IsBelow(disk, L, Tree(disk), b, Below(disk, b))
      BY <1>2, <3>1, BelowIsBelow
    <3>3. QED BY <3>2 DEF IsBelow
  <2>3. \A c \in Tree(disk) : E[c].type = disk[c].type
    BY <2>1 DEF Loses, SameEntry
  <2>4. \A c \in Tree(E) : c \in Tree(disk) /\ E[c].parent = disk[c].parent
    BY <2>1, <2>2 DEF Loses, SameEntry
  <2>5. QED BY <1>3, <2>3, <2>4 DEF PlainTree
<1>8. QED
  BY <1>2, <1>4, <1>5, <1>6, <1>7 DEF Does

\* What leaves the tree is free, what leaves the free blocks is in the tree,
\* unless the call fails.
LEMMA DoesLeakNothing ==
  ASSUME NEW E, NEW F, Does(E, F, "ok")
  PROVE  free \cup Tree(disk) \subseteq F \cup Tree(E)
  BY DEF Does, MakesOne, Makes, DropsOne, Drops, MovesOne, Moves

----------------------------------------------------------------------------
(* The invariant, and what follows from it.                                 *)

\* The invariant holds at the start.
LEMMA InitInv ==
  ASSUME SoundVolume(InitDisk), Init
  PROVE  Inv
<1>1. PICK T, L, B, Q, P : /\ Threaded(InitDisk, T, L, B, Q, P) /\ Named(InitDisk, T)
                           /\ NamesFit => OwnBuckets(InitDisk, L, B)
  BY DEF SoundVolume
<1>2. \A b \in L \cup {RootBlock} : Readable(InitDisk, b)
  BY <1>1 DEF Threaded, EntryHeaders, Readable
<1>3. (L \cup {RootBlock}) \cap free = {}
  BY <1>2 DEF Init
<1>4. TypeOK
  BY ConstantsAssumption DEF Init, TypeOK, SoundVolume, Mounted, Calls
<1>5. Holds(disk, T, free)
  BY <1>1, <1>3 DEF Init, Holds
<1>6. QED
  BY <1>4, <1>5 DEF Init, Inv

\* Every call keeps what the invariant says, and a removal exposes nothing.
LEMMA CallKeeps ==
  ASSUME Inv, ~cut, Call
  PROVE  /\ \E T : Keeps(T)
         /\ last'.op = "remove" => Tree(disk') \cap (free' \cup diskFree') = {}
<1>1. TypeOK /\ free = diskFree /\ disk \in [Blocks -> Headers]
  BY DEF Inv, TypeOK
<1>2. PICK T : Holds(disk, T, free)
  BY DEF Inv
<1>3. PICK L, B, Q, P : Threaded(disk, T, L, B, Q, P)
  BY <1>2 DEF Holds
<1>4. Dirs(disk) \subseteq T /\ Dirs(disk) \subseteq Blocks
  BY <1>1, <1>3, DirsAreFollowed DEF Threaded, WitnessTypes
<1>5. ASSUME NEW d \in Dirs(disk), NEW n \in Names, NEW type \in {"file", "dir"}, Create(type, d, n)
      PROVE  Keeps(T) /\ last'.op = "create"
  BY <1>1, <1>2, <1>4, <1>5, CreateKeeps
<1>6. ASSUME NEW d \in Dirs(disk), NEW n \in Names, adfRemoveEntry(d, n)
      PROVE  Keeps(T) /\ Tree(disk') \cap (free' \cup diskFree') = {}
  BY <1>1, <1>2, <1>4, <1>6, RemoveKeeps
<1>7. ASSUME NEW p \in Dirs(disk), NEW old \in ShortNames, NEW new \in ShortNames,
             NEW np \in Targets(p, old), adfRenameEntry(p, old, np, new)
      PROVE  Keeps(T) /\ last'.op = "rename"
  <2>1. old \in Names /\ new \in Names /\ Hash[old] \in Buckets
    BY ConstantsAssumption DEF ShortNames, Range
  <2>2. np \in Dirs(disk)
    BY <1>7 DEF Targets
  <2>3. adfNameToEntryBlk(disk, p, old) # np
    <3>1. CASE MoveAcross
      <4>1. adfNameToEntryBlk(disk, p, old) \notin Ancestors(disk, np)
        BY <3>1 DEF Targets
      <4>2. np \in Ancestors(disk, np)
        BY <1>1, <1>4, <2>2, AncestorsClose
      <4>3. QED BY <4>1, <4>2
    <3>2. CASE ~MoveAcross
      <4>1. np = p
        BY <3>2 DEF Targets
      <4>2. ASSUME adfNameToEntryBlk(disk, p, old) = p PROVE FALSE
        <5>1. p # NoBlock /\ p \in T
          BY <1>4, ConstantsAssumption
        <5>2. p \in L /\ disk[p].parent = p
          BY <1>1, <1>3, <2>1, <4>2, <5>1, LookupFinds
        <5>3. QED BY <1>3, <5>2 DEF Threaded, EntryHeaders
      <4>3. QED BY <4>1, <4>2
    <3>3. QED BY <3>1, <3>2
  <2>4. QED BY <1>1, <1>2, <1>4, <1>7, <2>1, <2>2, <2>3, RenameKeeps
<1>8. CASE \E d \in Dirs(disk), n \in Names : adfCreateFile(d, n) \/ adfCreateDir(d, n)
  BY <1>5, <1>8 DEF adfCreateFile, adfCreateDir
<1>9. CASE \E d \in Dirs(disk), n \in Names : adfRemoveEntry(d, n)
  BY <1>6, <1>9
<1>10. CASE \E p \in Dirs(disk), old, new \in ShortNames : \E np \in Targets(p, old) :
              adfRenameEntry(p, old, np, new)
  BY <1>7, <1>10
<1>11. QED
  BY <1>8, <1>9, <1>10 DEF Call

\* Every step keeps the invariant.
LEMMA NextInv ==
  ASSUME Inv, [Next]_vars
  PROVE  Inv'
<1>1. CASE ~cut /\ Call
  <2>1. PICK T : Keeps(T)
    BY <1>1, CallKeeps
  <2>2. QED BY <2>1 DEF Keeps, Inv
<1>2. CASE Reconnect
  <2>1. TypeOK'
    BY <1>2, ConstantsAssumption DEF Inv, TypeOK, Reconnect, Mounted, Calls
  <2>2. (cut' => MayBeCut) /\ disk' = disk /\ diskFree' = diskFree /\ cut' = cut /\ free' = diskFree
    BY <1>2 DEF Inv, Reconnect
  <2>3. QED BY <2>1, <2>2 DEF Inv
<1>3. CASE UNCHANGED vars
  <2>1. TypeOK'
    BY <1>3 DEF Inv, TypeOK, vars
  <2>2. disk' = disk /\ diskFree' = diskFree /\ cut' = cut /\ free' = free
    BY <1>3 DEF vars
  <2>3. QED BY <2>1, <2>2 DEF Inv
<1>4. QED
  BY <1>1, <1>2, <1>3 DEF Next

\* From a plain volume the tree stays plain.
PlainInv == Inv /\ (~cut => PlainTree(disk))

LEMMA PlainIsSteady ==
  ASSUME PlainInv, ~cut
  PROVE  SteadyState
<1>1. TypeOK /\ free = diskFree /\ PlainTree(disk)
  BY DEF PlainInv, Inv
<1>2. PICK T, L, B, Q, P :
        /\ Threaded(disk, T, L, B, Q, P)
        /\ (L \cup {RootBlock}) \cap free = {}
        /\ NamesFit => OwnBuckets(disk, L, B)
  BY DEF PlainInv, Inv, Holds
<1>3. Steady(T, L, B, Q, P)
  BY <1>1, <1>2 DEF Steady
<1>4. QED
  BY <1>3 DEF SteadyState

LEMMA PlainNext ==
  ASSUME PlainInv, [Next]_vars
  PROVE  /\ PlainInv'
         /\ \/ ~cut /\ SteadyState /\ (~cut' => Does(disk', free', last'.rc))
            \/ disk' = disk /\ free' = diskFree /\ cut' = cut
            \/ UNCHANGED vars
<1>1. Inv'
  BY NextInv DEF PlainInv
<1>2. CASE ~cut /\ Call
  <2>1. SteadyState
    BY <1>2, PlainIsSteady
  <2>2. ~cut' => Does(disk', free', last'.rc)
    BY <1>2, <2>1, CallDoes
  <2>3. ~cut' => PlainTree(disk')
    BY <2>1, <2>2, DoesPlain
  <2>4. QED BY <1>1, <1>2, <2>1, <2>2, <2>3 DEF PlainInv
<1>3. CASE Reconnect
  BY <1>1, <1>3 DEF Reconnect, PlainInv
<1>4. CASE UNCHANGED vars
  BY <1>1, <1>4 DEF vars, PlainInv
<1>5. QED
  BY <1>2, <1>3, <1>4 DEF Next

----------------------------------------------------------------------------
(* The calls as those of a namespace: a volume whose tree is plain has one    *)
(* entry for each block of the tree other than the root.                     *)

EntryAt(D, c) == [dir |-> D[c].parent, name |-> D[c].name, node |-> c, kind |-> D[c].type]

LEMMA EntriesAre ==
  ASSUME NEW D \in [Blocks -> Headers], NEW T, NEW L, NEW B, NEW Q, NEW P,
         Threaded(D, T, L, B, Q, P), PlainTree(D)
  PROVE  EntriesOf(D) = {EntryAt(D, c) : c \in Tree(D) \ {RootBlock}}
<1>0. /\ IsTree(D, L, Tree(D)) /\ Dirs(D) \subseteq T
      /\ \A c \in L : B[c] \in Buckets
  BY TreeIsTree, DirsAreFollowed DEF Threaded, WitnessTypes
<1>1. \A d \in Dirs(D) : Children(D, d) = {c \in L : D[c].parent = d}
  <2> SUFFICES ASSUME NEW d \in Dirs(D) PROVE Children(D, d) = {c \in L : D[c].parent = d}
    OBVIOUS
  <2>1. \A h \in Buckets : Chain(D, d, h) = {c \in L : D[c].parent = d /\ B[c] = h}
    BY <1>0, ChainIsBucket
  <2>2. QED BY <1>0, <2>1 DEF Children
<1>2. \A c \in Tree(D) \ {RootBlock} : c \in L /\ D[c].parent \in Dirs(D)
  BY <1>0 DEF IsTree, PlainTree, Dirs
<1>3. \A c \in L : D[c].parent \in Dirs(D) => c \in Tree(D) \ {RootBlock}
  BY <1>0 DEF IsTree, HoldsEntries, Dirs
<1>4. EntriesOf(D) = UNION {{EntryAt(D, c) : c \in {x \in L : D[x].parent = d}} : d \in Dirs(D)}
  <2>1. \A d \in Dirs(D) :
          {[dir |-> d, name |-> D[b].name, node |-> b, kind |-> D[b].type] : b \in Children(D, d)}
             = {EntryAt(D, c) : c \in {x \in L : D[x].parent = d}}
    BY <1>1 DEF EntryAt
  <2>2. QED BY <2>1 DEF EntriesOf
<1> HIDE DEF EntryAt
<1>5. QED
  BY <1>2, <1>3, <1>4

\* The entries before and after a call.
IsEntries(X, D) == X = {EntryAt(D, c) : c \in Tree(D) \ {RootBlock}}

LEMMA DirsAreDirectories ==
  ASSUME NEW X, IsEntries(X, disk), PlainTree(disk), NEW d \in Dirs(disk)
  PROVE  d \in {RootBlock} \cup {e.node : e \in {x \in X : x.kind = "dir"}}
<1>1. CASE d = RootBlock
  BY <1>1
<1>2. CASE d # RootBlock
  <2>1. d \in Tree(disk) \ {RootBlock} /\ disk[d].type = "dir"
    BY <1>2 DEF Dirs, PlainTree, DirTypes
  <2>2. EntryAt(disk, d) \in X /\ EntryAt(disk, d).kind = "dir" /\ EntryAt(disk, d).node = d
    BY <2>1 DEF IsEntries, EntryAt
  <2>3. QED BY <2>2
<1>3. QED
  BY <1>1, <1>2

LEMMA SameEntries ==
  ASSUME NEW E, NEW c, SameEntry(disk, E, c)
  PROVE  EntryAt(E, c) = EntryAt(disk, c)
  BY DEF SameEntry, EntryAt

\* What is within an entry is what is below its block.
LEMMA WithinIsBelow ==
  ASSUME SteadyState, NEW X, IsEntries(X, disk), NEW b \in Tree(disk) \ {RootBlock}
  PROVE  \A x \in X : (\A S \in {R \in SUBSET Blocks : b \in R /\ \A y \in X : y.dir \in R => y.node \in R} :
                              x.node \in S)
                           <=> x.node \in Below(disk, b)
<1>1. PICK T, L, B, Q, P : Steady(T, L, B, Q, P)
  BY DEF SteadyState
<1>2. IsTree(disk, L, Tree(disk)) /\ IsBelow(disk, L, Tree(disk), b, Below(disk, b))
  BY <1>1, SteadyTree, BelowIsBelow DEF Steady
<1> DEFINE A == Tree(disk)
           W == Below(disk, b)
           Closed(R) == b \in R /\ \A y \in X : y.dir \in R => y.node \in R
<1>3. \A c \in A \ {RootBlock} : c \in L /\ EntryAt(disk, c) \in X
         /\ EntryAt(disk, c).dir = disk[c].parent /\ EntryAt(disk, c).node = c
  BY <1>2 DEF IsTree, IsEntries, EntryAt
<1>4. \A x \in X : x.node \in A \ {RootBlock} /\ x.dir = disk[x.node].parent
  BY DEF IsEntries, EntryAt
<1>5. W \in SUBSET Blocks /\ Closed(W)
  <2>1. W \subseteq A /\ A \subseteq Blocks /\ b \in W
    BY <1>2 DEF IsBelow, IsTree
  <2>2. ASSUME NEW y \in X, y.dir \in W PROVE y.node \in W
    BY <1>2, <1>3, <1>4, <2>2 DEF IsBelow
  <2>3. QED BY <2>1, <2>2
<1>6. ASSUME NEW S \in SUBSET Blocks, Closed(S) PROVE W \subseteq S
  <2> DEFINE R == {c \in A : c \in W => c \in S}
  <2>1. RootBlock \in R
    BY <1>2 DEF IsTree, IsBelow
  <2>2. HoldsEntries(disk, L, R)
    <3> SUFFICES ASSUME NEW c \in L, disk[c].parent \in R PROVE c \in R
      BY DEF HoldsEntries
    <3>1. c \in A /\ c # RootBlock
      BY <1>2 DEF IsTree, HoldsEntries
    <3>2. c \in W => c = b \/ disk[c].parent \in W
      BY <1>2, <3>1 DEF IsBelow
    <3>3. c \in W => c \in S
      BY <1>3, <1>6, <3>1, <3>2
    <3>4. QED BY <3>1, <3>3
  <2> HIDE DEF R
  <2>3. A \subseteq R
    BY <1>2, <2>1, <2>2 DEF IsTree
  <2>4. QED BY <1>2, <2>3 DEF R, IsBelow
<1> HIDE DEF W
<1>7. QED
  BY <1>5, <1>6 DEF W

\* What it takes for a step to be one of the namespace's: X and Y are the entries
\* before and after.
Makings(X, Y, f) ==
    /\ f \in Y \ X /\ Y = X \cup {f} /\ f.kind # "link"
    /\ f = [dir |-> f.dir, name |-> f.name, node |-> f.node, kind |-> f.kind]
    /\ f.dir \in {RootBlock} \cup {e.node : e \in {x \in X : x.kind = "dir"}}
    /\ \A e \in X : e.dir = f.dir => Fold[e.name] # Fold[f.name]
    /\ f.node \notin {RootBlock} \cup {e.node : e \in X}

Droppings(X, Y, e) == e \in X \ Y /\ Y = X \ {e} /\ \A x \in X : x.dir # e.node

Movings(X, Y, e, f) ==
    /\ e \in X \ Y /\ f \in Y \ X /\ Y = (X \ {e}) \cup {f}
    /\ f = [dir |-> f.dir, name |-> f.name, node |-> e.node, kind |-> e.kind]
    /\ f.dir \in {RootBlock} \cup {x.node : x \in {y \in X : y.kind = "dir"}}
    /\ f.dir \notin Below(disk, e.node)
    /\ \A x \in X \ {e} : x.dir = f.dir => Fold[x.name] # Fold[f.name]

Losings(X, Y, e, d, n) ==
    /\ e \in X \ Y /\ Y = {x \in X : x.node \notin Below(disk, e.node)}
    /\ d \in {RootBlock} \cup {x.node : x \in {y \in X : y.kind = "dir"}} /\ n \in Names
    /\ \E x \in X \ {e} : x.dir = d /\ Fold[x.name] = Fold[n]

LEMMA MakesAdds ==
  ASSUME SteadyState, NamesFit, NEW E, NEW F, NEW X, IsEntries(X, disk), NEW Y, IsEntries(Y, E),
         MakesOne(E, F)
  PROVE  \E f : Makings(X, Y, f)
<1>1. PICK x \in Blocks, d \in Dirs(disk), n \in Names, type \in {"file", "dir"} : Makes(E, F, x, type, d, n)
  BY DEF MakesOne
<1>2. RootBlock \in Tree(disk) /\ PlainTree(disk)
  BY SteadyTree DEF SteadyState, Steady, IsTree
<1> DEFINE f == EntryAt(E, x)
<1>3. f = [dir |-> d, name |-> Cut[n], node |-> x, kind |-> type] /\ Fold[Cut[n]] = Fold[n]
  BY <1>1, ConstantsAssumption DEF Makes, EntryAt
<1>4. \A c \in Tree(disk) : EntryAt(E, c) = EntryAt(disk, c)
  BY <1>1, SameEntries DEF Makes
<1>5. x \notin Tree(disk) /\ Tree(E) = Tree(disk) \cup {x} /\ NoOther(d, n, x)
  BY <1>1 DEF Makes
<1>6. Y = X \cup {f}
  BY <1>2, <1>4, <1>5 DEF IsEntries
<1>7. \A e \in X : e.node \in Tree(disk) \ {RootBlock} /\ e.dir = disk[e.node].parent /\ e.name = disk[e.node].name
  BY DEF IsEntries, EntryAt
<1>8. d \in {RootBlock} \cup {e.node : e \in {y \in X : y.kind = "dir"}}
  BY <1>2, DirsAreDirectories
<1> HIDE DEF f
<1>9. f.node = x /\ f.dir = d /\ f.name = Cut[n] /\ f.kind = type
      /\ f = [dir |-> f.dir, name |-> f.name, node |-> f.node, kind |-> f.kind]
  BY <1>3
<1>10. f \notin X /\ f.node \notin {RootBlock} \cup {e.node : e \in X}
  BY <1>2, <1>5, <1>7, <1>9
<1>11. \A e \in X : e.dir = f.dir => Fold[e.name] # Fold[f.name]
  BY <1>3, <1>5, <1>7, <1>9 DEF NoOther
<1>12. Makings(X, Y, f)
  BY <1>6, <1>8, <1>9, <1>10, <1>11 DEF Makings
<1>13. QED
  BY <1>12

LEMMA DropsTakes ==
  ASSUME NEW E, NEW F, NEW X, IsEntries(X, disk), NEW Y, IsEntries(Y, E), DropsOne(E, F)
  PROVE  \E e : Droppings(X, Y, e)
<1>1. PICK b \in Blocks : Drops(E, F, b)
  BY DEF DropsOne
<1> DEFINE e == EntryAt(disk, b)
<1>2. \A c \in Tree(disk) : EntryAt(E, c) = EntryAt(disk, c)
  BY <1>1, SameEntries DEF Drops
<1>3. b \in Tree(disk) \ {RootBlock} /\ Tree(E) = Tree(disk) \ {b}
      /\ \A c \in Tree(disk) \ {RootBlock} : disk[c].parent # b
  BY <1>1 DEF Drops
<1>4. \A c : EntryAt(disk, c).node = c /\ EntryAt(disk, c).dir = disk[c].parent
  BY DEF EntryAt
<1>5. e.node = b
  BY <1>4
<1>6. e \in X /\ e \notin Y /\ Y = X \ {e}
  BY <1>2, <1>3, <1>4 DEF IsEntries
<1>7. \A x \in X : x.dir # b
  BY <1>3, <1>4 DEF IsEntries
<1>8. Droppings(X, Y, e)
  BY <1>5, <1>6, <1>7 DEF Droppings
<1>9. QED
  BY <1>8

LEMMA MovesRenames ==
  ASSUME SteadyState, NamesFit, NEW E, NEW F, NEW X, IsEntries(X, disk), NEW Y, IsEntries(Y, E),
         MovesOne(E, F)
  PROVE  X = Y \/ \E e, f : Movings(X, Y, e, f)
<1>1. PICK b \in Blocks, d \in Dirs(disk), n \in Names : Moves(E, F, b, d, n)
  BY DEF MovesOne
<1>2. PlainTree(disk)
  BY DEF SteadyState, Steady
<1> DEFINE e == EntryAt(disk, b)
           f == EntryAt(E, b)
<1>3. \A c \in Tree(disk) \ {b} : EntryAt(E, c) = EntryAt(disk, c)
  BY <1>1, SameEntries DEF Moves
<1>4. b \in Tree(disk) \ {RootBlock} /\ Tree(E) = Tree(disk) /\ NoOther(d, n, b) /\ d \notin Below(disk, b)
  BY <1>1 DEF Moves
<1>5. \A c : EntryAt(disk, c).node = c /\ EntryAt(disk, c).dir = disk[c].parent
             /\ EntryAt(disk, c).name = disk[c].name
  BY DEF EntryAt
<1>6. /\ f = [dir |-> d, name |-> n, node |-> e.node, kind |-> e.kind]
      /\ f.node = b /\ f.dir = d /\ f.name = n /\ e.node = b
  <2>1. e = [dir |-> disk[b].parent, name |-> disk[b].name, node |-> b, kind |-> disk[b].type]
    BY DEF EntryAt
  <2>2. f = [dir |-> d, name |-> n, node |-> b, kind |-> disk[b].type]
    BY <1>1 DEF Moves, EntryAt
  <2> HIDE DEF e, f
  <2>3. QED BY <2>1, <2>2
<1> HIDE DEF e, f
<1>7. e \in X /\ f \in Y /\ Y = (X \ {e}) \cup {f} /\ \A x \in X : x.node = b => x = e
  <2>1. X = {EntryAt(disk, c) : c \in Tree(disk) \ {RootBlock}} /\ e = EntryAt(disk, b)
    BY DEF IsEntries, e
  <2>2. Y = {EntryAt(E, c) : c \in Tree(disk) \ {RootBlock}} /\ f = EntryAt(E, b)
    BY <1>4 DEF IsEntries, f
  <2>3. \A x \in X : x.node = b => x = e
    BY <1>5, <2>1
  <2>4. e \in X /\ f \in Y
    BY <1>4, <2>1, <2>2
  <2>5. ASSUME NEW x \in Y, x # f PROVE x \in X \ {e}
    <3>1. PICK c \in Tree(disk) \ {RootBlock} : x = EntryAt(E, c)
      BY <2>2
    <3>2. c # b
      BY <2>2, <2>5, <3>1
    <3>3. x = EntryAt(disk, c)
      BY <1>3, <3>1, <3>2
    <3>4. x.node = c
      BY <1>5, <3>3
    <3>5. QED BY <1>6, <2>1, <3>2, <3>3, <3>4
  <2>6. ASSUME NEW x \in X \ {e} PROVE x \in Y
    <3>1. PICK c \in Tree(disk) \ {RootBlock} : x = EntryAt(disk, c)
      BY <2>1
    <3>2. c # b
      BY <2>1, <2>6, <3>1
    <3>3. QED BY <1>3, <2>2, <3>1, <3>2
  <2>7. QED BY <2>3, <2>4, <2>5, <2>6
<1>8. d \in {RootBlock} \cup {x.node : x \in {y \in X : y.kind = "dir"}}
  BY <1>2, DirsAreDirectories
<1>9. \A x \in X \ {e} : x.dir = d => Fold[x.name] # Fold[n]
  <2>1. \A x \in X : x.node \in Tree(disk) \ {RootBlock} /\ x.dir = disk[x.node].parent
                       /\ x.name = disk[x.node].name
    BY DEF IsEntries, EntryAt
  <2>2. QED BY <1>4, <1>7, <2>1 DEF NoOther
<1>10. CASE e = f
  BY <1>7, <1>10
<1>11. CASE e # f
  <2>1. e \notin Y /\ f \notin X
    BY <1>6, <1>7, <1>11
  <2>2. Movings(X, Y, e, f)
    BY <1>4, <1>6, <1>7, <1>8, <1>9, <2>1 DEF Movings
  <2>3. QED BY <2>2
<1>12. QED
  BY <1>10, <1>11

LEMMA LosesMany ==
  ASSUME SteadyState, NEW E, NEW F, NEW X, IsEntries(X, disk), NEW Y, IsEntries(Y, E),
         LosesOne(E, F)
  PROVE  \E e, d, n : Losings(X, Y, e, d, n)
<1>1. PICK b \in Blocks, d \in Dirs(disk), n \in Names : Loses(E, F, b, d, n)
  BY DEF LosesOne
<1>2. PICK T, L, B, Q, P : Steady(T, L, B, Q, P)
  BY DEF SteadyState
<1> DEFINE e == EntryAt(disk, b)
<1>3. b \in Tree(disk) \ {RootBlock} /\ Tree(E) = Tree(disk) \ Below(disk, b)
  BY <1>1 DEF Loses
<1>4. b \in Below(disk, b) /\ PlainTree(disk)
  BY <1>2, <1>3, SteadyTree, BelowIsBelow DEF Steady, IsBelow
<1>5. \A c \in Tree(E) : c \in Tree(disk) /\ EntryAt(E, c) = EntryAt(disk, c)
  BY <1>1, <1>3, <1>4, SameEntries DEF Loses
<1>6. \A c : EntryAt(disk, c).node = c /\ EntryAt(disk, c).dir = disk[c].parent
             /\ EntryAt(disk, c).name = disk[c].name
  BY DEF EntryAt
<1>7. e \in X /\ e.node = b
  BY <1>3, <1>6 DEF IsEntries
<1>8. Y = {x \in X : x.node \notin Below(disk, b)}
  <2>1. ASSUME NEW x \in Y PROVE x \in X /\ x.node \notin Below(disk, b)
    <3>1. PICK c \in Tree(E) \ {RootBlock} : x = EntryAt(E, c)
      BY DEF IsEntries
    <3>2. x = EntryAt(disk, c) /\ c \in Tree(disk) \ {RootBlock} /\ c \notin Below(disk, b)
      BY <1>3, <1>5, <3>1
    <3>3. QED BY <1>6, <3>2 DEF IsEntries
  <2>2. ASSUME NEW x \in X, x.node \notin Below(disk, b) PROVE x \in Y
    <3>1. PICK c \in Tree(disk) \ {RootBlock} : x = EntryAt(disk, c)
      BY DEF IsEntries
    <3>2. c \in Tree(E) \ {RootBlock}
      BY <1>3, <1>6, <2>2, <3>1
    <3>3. QED BY <1>5, <3>1, <3>2 DEF IsEntries
  <2>3. QED BY <2>1, <2>2
<1>9. d \in {RootBlock} \cup {x.node : x \in {y \in X : y.kind = "dir"}}
  BY <1>4, DirsAreDirectories
<1>10. \E x \in X \ {e} : x.dir = d /\ Fold[x.name] = Fold[n]
  <2>1. PICK c \in Tree(disk) \ {RootBlock, b} : disk[c].parent = d /\ Fold[disk[c].name] = Fold[n]
    BY <1>1 DEF Loses, NoOther
  <2>2. EntryAt(disk, c) \in X \ {e}
    BY <1>6, <2>1 DEF IsEntries
  <2>3. QED BY <1>6, <2>1, <2>2
<1> HIDE DEF e
<1>11. Losings(X, Y, e, d, n)
  BY <1>4, <1>7, <1>8, <1>9, <1>10 DEF Losings
<1>12. QED
  BY <1>11

\* A root with an empty table has nothing below it.
LEMMA EmptyIsPlain ==
  ASSUME NEW D, SoundVolume(D), D[RootBlock].ht = EmptyTable
  PROVE  Tree(D) = {RootBlock} /\ PlainTree(D) /\ EntriesOf(D) = {}
<1>1. PICK T, L, B, Q, P : Threaded(D, T, L, B, Q, P)
  BY DEF SoundVolume
<1>2. D \in [Blocks -> Headers] /\ IsTree(D, L, Tree(D)) /\ RootBlock \in T /\ B \in [Blocks -> Buckets]
      /\ L \subseteq Blocks
  BY <1>1, TreeIsTree DEF SoundVolume, Threaded, WitnessTypes
<1>3. \A c \in L : D[c].parent # RootBlock
  <2> SUFFICES ASSUME NEW c \in L, D[c].parent = RootBlock PROVE FALSE
    OBVIOUS
  <2>1. B[c] \in Buckets
    BY <1>2
  <2>2. c \in Chain(D, RootBlock, B[c])
    BY <1>1, <1>2, <2>1, ChainIsBucket
  <2>3. D[RootBlock].ht[B[c]] # NoBlock
    BY <1>1, <1>2, <2>1, <2>2, BucketHasFirst
  <2>4. QED BY <2>1, <2>3 DEF EmptyTable
<1>4. Tree(D) = {RootBlock}
  <2> DEFINE R == {RootBlock}
  <2>1. RootBlock \in R /\ HoldsEntries(D, L, R)
    BY <1>3 DEF HoldsEntries
  <2> HIDE DEF R
  <2>2. Tree(D) \subseteq R
    BY <1>2, <2>1 DEF IsTree
  <2>3. QED BY <1>2, <2>2 DEF R, IsTree
<1>5. PlainTree(D)
  BY <1>4 DEF PlainTree
<1>6. EntriesOf(D) = {}
  BY <1>1, <1>2, <1>4, <1>5, EntriesAre
<1>7. QED
  BY <1>4, <1>5, <1>6

\* The steps are those of the namespace.
LEMMA StepIsNamespace ==
  ASSUME SteadyState, NamesFit, Does(disk', free', last'.rc), disk' # disk, PlainInv', ~cut'
  PROVE  Volume!Next \/ EntriesOf(disk)' = EntriesOf(disk)
<1>1. PICK X, Y : X = EntriesOf(disk) /\ Y = EntriesOf(disk')
  OBVIOUS
<1>2. IsEntries(X, disk)
  <2>1. PICK T, L, B, Q, P : Steady(T, L, B, Q, P)
    BY DEF SteadyState
  <2>2. disk \in [Blocks -> Headers] /\ Threaded(disk, T, L, B, Q, P) /\ PlainTree(disk)
    BY <2>1, SteadyTree DEF Steady
  <2>3. QED BY <1>1, <2>2, EntriesAre DEF IsEntries
<1>3. IsEntries(Y, disk')
  <2>1. disk' \in [Blocks -> Headers] /\ PlainTree(disk') /\ \E T : Holds(disk', T, free')
    BY DEF PlainInv, Inv, TypeOK
  <2>2. PICK T, L, B, Q, P : Threaded(disk', T, L, B, Q, P)
    BY <2>1 DEF Holds
  <2>3. EntriesOf(disk') = {EntryAt(disk', c) : c \in Tree(disk') \ {RootBlock}}
    BY <2>1, <2>2, EntriesAre
  <2>4. QED BY <1>1, <2>3 DEF IsEntries
<1>4. X = EntriesOf(disk) /\ Y = EntriesOf(disk)'
  BY <1>1
<1>5. ASSUME NEW f, Makings(X, Y, f) PROVE Volume!Next
  <2>1. f \in Y \ X /\ Y # X
    BY <1>5 DEF Makings
  <2>2. Volume!Named(f.dir, f.name) = {}
    BY <1>1, <1>5 DEF Makings, Volume!Named
  <2>3. Volume!Make(f.dir, f.name, f.node, f.kind)
    BY <1>4, <1>5, <2>2 DEF Makings, Volume!Make, Volume!Directories
  <2>4. QED BY <1>4, <2>1, <2>3 DEF Volume!Next
<1>6. ASSUME NEW e, Droppings(X, Y, e) PROVE Volume!Next
  <2>1. e \in X \ Y /\ Y # X
    BY <1>6 DEF Droppings
  <2>2. Volume!Drop(e)
    BY <1>4, <1>6 DEF Droppings, Volume!Drop
  <2>3. QED BY <1>4, <2>1, <2>2 DEF Volume!Next
<1>7. ASSUME NEW e, e \in X
      PROVE  Volume!Within(e) = {x \in X : x.node \in Below(disk, e.node)}
  <2>1. PICK b : b = e.node
    OBVIOUS
  <2>2. b \in Tree(disk) \ {RootBlock}
    BY <1>2, <1>7, <2>1 DEF IsEntries, EntryAt
  <2>3. \A x \in X : (\A S \in {R \in SUBSET Blocks : b \in R /\ \A y \in X : y.dir \in R => y.node \in R} :
                              x.node \in S)
                           <=> x.node \in Below(disk, b)
    BY <1>2, <2>2, WithinIsBelow
  <2>4. Volume!Holding(b) = {R \in SUBSET Blocks : b \in R /\ \A y \in X : y.dir \in R => y.node \in R}
    BY <1>1 DEF Volume!Holding
  <2>5. Volume!Within(e) = {x \in X : \A S \in Volume!Holding(b) : x.node \in S}
    BY <1>1, <2>1 DEF Volume!Within
  <2>6. QED BY <2>1, <2>3, <2>4, <2>5
<1>8. ASSUME NEW e, NEW f, Movings(X, Y, e, f) PROVE Volume!Next
  <2>1. e \in X \ Y /\ f \in Y \ X /\ Y # X
    BY <1>8 DEF Movings
  <2>2. f.dir \notin {x.node : x \in Volume!Within(e)}
    <3>1. Volume!Within(e) = {x \in X : x.node \in Below(disk, e.node)}
      BY <1>7, <2>1
    <3>2. f.dir \notin Below(disk, e.node)
      BY <1>8 DEF Movings
    <3>3. QED BY <3>1, <3>2
  <2>3. Volume!Named(f.dir, f.name) \subseteq {e}
    BY <1>1, <1>8 DEF Movings, Volume!Named
  <2>4. Volume!Rename(e, f.dir, f.name)
    BY <1>4, <1>8, <2>2, <2>3 DEF Movings, Volume!Rename, Volume!Directories
  <2>5. QED BY <1>4, <2>1, <2>4 DEF Volume!Next
<1>9. ASSUME NEW e, NEW d, NEW n, Losings(X, Y, e, d, n) PROVE Volume!Next
  <2>1. e \in X \ Y /\ Y # X /\ n \in Names /\ d \in Volume!Directories
    BY <1>1, <1>9 DEF Losings, Volume!Directories
  <2>2. Volume!Named(d, n) \ {e} # {}
    BY <1>1, <1>9 DEF Losings, Volume!Named
  <2>3. Y = X \ Volume!Within(e)
    <3>1. Volume!Within(e) = {x \in X : x.node \in Below(disk, e.node)}
      BY <1>7, <2>1
    <3>2. Y = {x \in X : x.node \notin Below(disk, e.node)}
      BY <1>9 DEF Losings
    <3>3. QED BY <3>1, <3>2
  <2>4. Volume!Lose(e, d, n)
    BY <1>4, <2>2, <2>3 DEF Volume!Lose
  <2>5. QED BY <1>4, <2>1, <2>4 DEF Volume!Next
<1>10. \/ MakesOne(disk', free') \/ DropsOne(disk', free') \/ MovesOne(disk', free')
       \/ LosesOne(disk', free')
  BY DEF Does
<1>11. CASE MakesOne(disk', free')
  BY <1>2, <1>3, <1>5, <1>11, MakesAdds
<1>12. CASE DropsOne(disk', free')
  BY <1>2, <1>3, <1>6, <1>12, DropsTakes
<1>13. CASE MovesOne(disk', free')
  BY <1>2, <1>3, <1>4, <1>8, <1>13, MovesRenames
<1>14. CASE LosesOne(disk', free')
  BY <1>2, <1>3, <1>9, <1>14, LosesMany
<1>15. QED
  BY <1>10, <1>11, <1>12, <1>13, <1>14

----------------------------------------------------------------------------
(* The theorems.                                                            *)

\* The invariant holds in every state of every behaviour that starts from a
\* sound volume.
THEOREM Invariance == SoundVolume(InitDisk) => (Spec => []Inv)
<1> SUFFICES ASSUME SoundVolume(InitDisk) PROVE Spec => []Inv
  OBVIOUS
<1>1. Init => Inv
  BY InitInv
<1>2. Inv /\ [Next]_vars => Inv'
  BY NextInv
<1>3. QED
  BY <1>1, <1>2, PTL DEF Spec

\* Headers, bitmaps and the record of the last call have their types, whatever
\* is made, removed, renamed and moved, and wherever a call is cut short.
THEOREM TypeCorrect == SoundVolume(InitDisk) => (Spec => []TypeOK)
<1> SUFFICES ASSUME SoundVolume(InitDisk) PROVE Spec => []TypeOK
  OBVIOUS
<1>1. Inv => TypeOK
  BY DEF Inv
<1>2. QED
  BY <1>1, Invariance, PTL

\* However long the chains, as long as no call has been cut short they end, and
\* hold entries of their directory and bucket only: for names that are hashed
\* as they are stored.
THEOREM DirectoriesAreSound ==
  SoundVolume(InitDisk) /\ NamesFit => (Spec => [](~cut => TreeSound))
<1> SUFFICES ASSUME SoundVolume(InitDisk), NamesFit PROVE Spec => [](~cut => TreeSound)
  OBVIOUS
<1>1. Inv /\ ~cut => TreeSound
  BY ThreadedIsSound DEF Inv, Holds, TypeOK
<1>2. QED
  BY <1>1, Invariance, PTL

\* Every entry that a directory lists is found by its name, for names that are
\* hashed as they are stored.
THEOREM EntriesAreFound ==
  SoundVolume(InitDisk) /\ NamesFit => (Spec => []ListedEntriesAreFound)
<1> SUFFICES ASSUME SoundVolume(InitDisk), NamesFit PROVE Spec => []ListedEntriesAreFound
  OBVIOUS
<1>1. Inv => ListedEntriesAreFound
  <2> SUFFICES ASSUME Inv PROVE ListedEntriesAreFound
    OBVIOUS
  <2>1. CASE cut
    BY <2>1 DEF ListedEntriesAreFound
  <2>2. CASE ~cut
    BY <2>2, ThreadedIsComplete DEF Inv, Holds, TypeOK
  <2>3. QED BY <2>1, <2>2
<1>2. QED
  BY <1>1, Invariance, PTL

\* Between calls that have not been cut short no block of the tree is free,
\* neither in memory nor for a later mount: names of any length.
THEOREM TreeStaysUsed ==
  SoundVolume(InitDisk) => (Spec => [](~cut => TreeIsMarkedUsed))
<1> SUFFICES ASSUME SoundVolume(InitDisk) PROVE Spec => [](~cut => TreeIsMarkedUsed)
  OBVIOUS
<1>1. Inv /\ ~cut => TreeIsMarkedUsed
  <2> SUFFICES ASSUME Inv, ~cut PROVE TreeIsMarkedUsed
    OBVIOUS
  <2>1. PICK T, L, B, Q, P : Threaded(disk, T, L, B, Q, P) /\ (L \cup {RootBlock}) \cap free = {}
    BY DEF Inv, Holds
  <2>2. Tree(disk) \subseteq L \cup {RootBlock}
    BY <2>1, TreeIsLinked DEF Inv, TypeOK
  <2>3. QED BY <2>1, <2>2 DEF Inv, TreeIsMarkedUsed
<1>2. QED
  BY <1>1, Invariance, PTL

\* The walk of move_adf_internal stops at the root and looks two parents ahead of
\* its test, and still finds the entry to be moved exactly when it is the target
\* or above it: for trees of any depth, the failsafe of 1000 turns aside.
THEOREM MoveChecksAreExact ==
  SoundVolume(InitDisk) => (Spec => [](~cut => MoveCheckIsExact))
<1> SUFFICES ASSUME SoundVolume(InitDisk) PROVE Spec => [](~cut => MoveCheckIsExact)
  OBVIOUS
<1>1. Inv /\ ~cut => MoveCheckIsExact
  BY MoveCheck DEF Inv, Holds, TypeOK
<1>2. QED
  BY <1>1, Invariance, PTL

\* Without cut calls all four hold in every state: what the run of the calls
\* checks for three names and five blocks.
THEOREM WholeCallsAreSound ==
  SoundVolume(InitDisk) /\ NamesFit /\ ~MayBeCut
    => (Spec => [](TreeSound /\ ListedEntriesAreFound /\ TreeIsMarkedUsed /\ MoveCheckIsExact))
<1> SUFFICES ASSUME SoundVolume(InitDisk), NamesFit, ~MayBeCut
             PROVE  Spec => [](TreeSound /\ ListedEntriesAreFound /\ TreeIsMarkedUsed /\ MoveCheckIsExact)
  OBVIOUS
<1>1. Inv => ~cut
  BY DEF Inv
<1>2. QED
  BY <1>1, Invariance, DirectoriesAreSound, EntriesAreFound, TreeStaysUsed, MoveChecksAreExact, PTL

\* A removal cut short at any write, or whose bitmap cannot be saved, leaves no
\* block of the tree free: the entry is unlinked before its block is freed.
THEOREM RemovalIsSafe == SoundVolume(InitDisk) => (Spec => RemoveExposesNothing)
<1> SUFFICES ASSUME SoundVolume(InitDisk) PROVE Spec => RemoveExposesNothing
  OBVIOUS
<1>1. Inv /\ [Next]_vars =>
        [CutShort("remove") => Tree(disk') \cap (free' \cup diskFree') = {}]_vars
  <2> SUFFICES ASSUME Inv, [Next]_vars, CutShort("remove")
               PROVE  Tree(disk') \cap (free' \cup diskFree') = {}
    OBVIOUS
  <2>1. ~cut /\ cut' /\ last'.op = "remove"
    BY DEF CutShort
  <2>2. Call
    BY <2>1 DEF Next, Reconnect, vars
  <2>3. QED BY <2>1, <2>2, CallKeeps
<1>2. QED
  BY <1>1, Invariance, PTL DEF Spec, RemoveExposesNothing

\* From a volume that has no links, and no entries but those in directories, no
\* call that reports success leaves a block behind that is marked used and that
\* nothing leads to; neither does mounting the volume again.
THEOREM NothingIsLeaked ==
  SoundVolume(InitDisk) /\ PlainTree(InitDisk) => (Spec => SuccessLeaksNothing)
<1> SUFFICES ASSUME SoundVolume(InitDisk), PlainTree(InitDisk) PROVE Spec => SuccessLeaksNothing
  OBVIOUS
<1>1. Init => PlainInv
  BY InitInv DEF PlainInv, Init
<1>2. PlainInv /\ [Next]_vars => PlainInv'
  BY PlainNext
<1>3. PlainInv /\ [Next]_vars => [last'.rc = "ok" /\ ~cut' => Leaked' \subseteq Leaked]_vars
  <2> SUFFICES ASSUME PlainInv, [Next]_vars, last'.rc = "ok", ~cut'
               PROVE  Leaked' \subseteq Leaked
    OBVIOUS
  <2>1. CASE ~cut /\ SteadyState /\ (~cut' => Does(disk', free', last'.rc))
    <3>1. Does(disk', free', "ok")
      BY <2>1
    <3>2. free \cup Tree(disk) \subseteq free' \cup Tree(disk')
      BY <3>1, DoesLeakNothing
    <3>3. QED BY <3>2 DEF Leaked
  <2>2. CASE disk' = disk /\ free' = diskFree /\ cut' = cut
    <3>1. free' = free
      BY <2>2 DEF PlainInv, Inv
    <3>2. QED BY <2>2, <3>1 DEF Leaked
  <2>3. CASE UNCHANGED vars
    BY <2>3 DEF vars, Leaked
  <2>4. QED BY <2>1, <2>2, <2>3, PlainNext
<1>4. QED
  BY <1>1, <1>2, <1>3, PTL DEF Spec, SuccessLeaksNothing

\* From an empty volume on, every call that is not cut short makes, drops, renames
\* or loses exactly one entry of the namespace or does nothing, for names that are
\* hashed as they are stored.  What is lost is what a rename to a taken name loses.
THEOREM CallsAreANamespace ==
  SoundVolume(InitDisk) /\ NamesFit /\ InitDisk[RootBlock].ht = EmptyTable
    => (Spec => ImplementsNamespace)
<1> SUFFICES ASSUME SoundVolume(InitDisk), NamesFit, InitDisk[RootBlock].ht = EmptyTable
             PROVE  Spec => ImplementsNamespace
  OBVIOUS
<1>1. Tree(InitDisk) = {RootBlock} /\ PlainTree(InitDisk) /\ EntriesOf(InitDisk) = {}
  BY EmptyIsPlain
<1>2. Init => PlainInv /\ EntriesOf(disk) = {}
  BY <1>1, InitInv DEF PlainInv, Init
<1>3. PlainInv /\ [Next]_vars => PlainInv'
  BY PlainNext
<1>4. PlainInv /\ [Next]_vars =>
        [cut' \/ disk' = disk \/ [Volume!Next]_(EntriesOf(disk))]_vars
  <2> SUFFICES ASSUME PlainInv, [Next]_vars, ~cut', disk' # disk
               PROVE  Volume!Next \/ EntriesOf(disk)' = EntriesOf(disk)
    OBVIOUS
  <2>1. SteadyState /\ Does(disk', free', last'.rc) /\ PlainInv'
    BY PlainNext DEF vars
  <2>2. QED BY <2>1, StepIsNamespace
<1>5. QED
  BY <1>2, <1>3, <1>4, PTL DEF Spec, ImplementsNamespace, Volume!Init

\* The theorems are about every volume that adfCreateVol leaves behind: an empty
\* root and blocks that hold no headers are a sound volume.
THEOREM FormattedIsSound ==
  ASSUME Buckets # {}, NEW name \in Names \cup {"-"},
         NEW D, D = [b \in Blocks |-> IF b = RootBlock THEN Header("root", name, NoBlock) ELSE Garbage]
  PROVE  SoundVolume(D)
<1>1. D \in [Blocks -> Headers]
  BY DEF Headers, Header, Garbage, EmptyTable, Pointers
<1>2. /\ RootBlock \in Blocks /\ D[RootBlock].type = "root" /\ D[RootBlock].next = NoBlock
      /\ D[RootBlock].parent = NoBlock
      /\ \A h \in Buckets : D[RootBlock].ht[h] = NoBlock
  BY ConstantsAssumption DEF Header, EmptyTable
<1>3. PICK h \in Buckets : TRUE
  OBVIOUS
<1> DEFINE B == [b \in Blocks |-> h]
           Q == [b \in Blocks |-> 0]
           P == [b \in Blocks |-> NoBlock]
<1>4. B \in [Blocks -> Buckets] /\ Q \in [Blocks -> Nat] /\ P \in [Blocks -> Pointers]
  BY DEF Pointers
<1> HIDE DEF B, Q, P
<1>5. Threaded(D, {RootBlock}, {}, B, Q, P)
  BY <1>2, <1>4 DEF Threaded, WitnessTypes, TablesLead, ChainsLead, AllComeFrom, EntryHeaders, NoTwins
<1>6. OwnBuckets(D, {}, B) /\ Named(D, {RootBlock})
  BY DEF OwnBuckets, Named
<1>7. QED
  BY <1>1, <1>5, <1>6 DEF SoundVolume
=============================================================================
