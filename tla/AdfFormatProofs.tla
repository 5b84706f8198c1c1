-------------------------- MODULE AdfFormatProofs --------------------------
(***************************************************************************)
(* Theorems about AdfFormat: floppies of any size, formatted any number of *)
(* times, with writes refused and sessions ended anywhere.                 *)
(***************************************************************************)
EXTENDS AdfFormat, FiniteSetTheorems, TLAPS

----------------------------------------------------------------------------
(* The geometry of an image of kind k with c cylinders, apart from the      *)
(* state.                                                                   *)

LastOf(k, c) == c * PerCylinder[k] - 1
BlocksOf(k, c) == 2 .. LastOf(k, c)
RootOf(k, c) == (LastOf(k, c) + 1) \div 2
NBlocks(k, c) == LastOf(k, c) - 1
PagesOf(k, c) == nBlock2bitmapSize(NBlocks(k, c))

\* The block that is i steps from the root, and the steps to a block.
At(k, c, i) == IF RootOf(k, c) + i <= LastOf(k, c) THEN RootOf(k, c) + i
                                                   ELSE RootOf(k, c) + i - NBlocks(k, c)
TurnOf(k, c, b) == IF b >= RootOf(k, c) THEN b - RootOf(k, c) ELSE b - RootOf(k, c) + NBlocks(k, c)

\* The n blocks from the i-th on, and the blocks that are further away.
Stretch(k, c, i, n) == [j \in 1 .. n |-> At(k, c, i + j - 1)]
Further(k, c, n) == {b \in BlocksOf(k, c) : TurnOf(k, c, b) >= n}

\* The page that is written for the blocks that are left over.
BitsOf(free, p) == {BitOf(b) : b \in {x \in free : PageOf(x) = p}}
PageFor(k, c, n, p) == Page(BitsOf(Further(k, c, n), p))

----------------------------------------------------------------------------
(* Arithmetic.                                                              *)

LEMMA DivMod ==
  ASSUME NEW K \in Nat, K > 0, NEW x \in Int
  PROVE  /\ x \div K \in Int
         /\ x % K \in 0 .. K - 1
         /\ x = K * (x \div K) + (x % K)
<1>1. x \div K \in Int
  BY SMT
<1>2. x % K \in 0 .. K - 1
  BY SMT
<1>3. x = K * (x \div K) + (x % K)
  BY SMT
<1>4. QED
  BY <1>1, <1>2, <1>3

\* Quotients are ordered as the numbers are, and they are one's own.
LEMMA QuotientOrder ==
  ASSUME NEW K \in Nat, K > 0, NEW p \in Int, NEW q \in Int, NEW r \in 0 .. K - 1, NEW s \in 0 .. K - 1
  PROVE  /\ K * p + r <= K * q + s => p <= q
         /\ K * p + r = K * q + s => p = q /\ r = s
<1>1. ASSUME p > q PROVE K * p + r > K * q + s
  <2>1. K * (p - q) >= K
    BY <1>1
  <2>2. K * (p - q) = K * p - K * q
    OBVIOUS
  <2> DEFINE P == K * p
             Q == K * q
  <2>3. P \in Int /\ Q \in Int /\ P - Q >= K
    BY <2>1, <2>2
  <2> HIDE DEF P, Q
  <2>4. P + r > Q + s
    BY <2>3
  <2>5. QED BY <2>4 DEF P, Q
<1>2. ASSUME q > p PROVE K * q + s > K * p + r
  <2>1. K * (q - p) >= K
    BY <1>2
  <2>2. K * (q - p) = K * q - K * p
    OBVIOUS
  <2> DEFINE P == K * p
             Q == K * q
  <2>3. P \in Int /\ Q \in Int /\ Q - P >= K
    BY <2>1, <2>2
  <2> HIDE DEF P, Q
  <2>4. Q + s > P + r
    BY <2>3
  <2>5. QED BY <2>4 DEF P, Q
<1> DEFINE P == K * p
           Q == K * q
<1>3. P \in Int /\ Q \in Int /\ (p > q => P + r > Q + s) /\ (q > p => Q + s > P + r) /\ (p = q => P = Q)
  BY <1>1, <1>2
<1> HIDE DEF P, Q
<1>4. (P + r <= Q + s => p <= q) /\ (P + r = Q + s => p = q /\ r = s)
  BY <1>3
<1>5. QED BY <1>4 DEF P, Q

LEMMA DivModIs ==
  ASSUME NEW K \in Nat, K > 0, NEW q \in Int, NEW r \in 0 .. K - 1, NEW x \in Int, x = K * q + r
  PROVE  x \div K = q /\ x % K = r
<1>1. x \div K \in Int /\ x % K \in 0 .. K - 1 /\ x = K * (x \div K) + (x % K)
  BY DivMod
<1>2. QED
  BY <1>1, QuotientOrder

\* An image has room for a root block, a cache block and the pages.
LEMMA Geometry ==
  ASSUME NEW k \in Kinds, NEW c \in Nat, c >= Cylinders
  PROVE  /\ LastOf(k, c) \in Nat /\ LastOf(k, c) >= 5
         /\ RootOf(k, c) \in Nat /\ NBlocks(k, c) \in Nat
         /\ 2 * RootOf(k, c) <= LastOf(k, c) + 1 /\ LastOf(k, c) <= 2 * RootOf(k, c)
         /\ PagesOf(k, c) \in 1 .. NBlocks(k, c) - 2
<1> DEFINE X == c * PerCylinder[k]
           N == NBlocks(k, c)
           K == BlocksPerPage
           q == N \div K
           r == N % K
<1>1. X \in Nat /\ X >= 6
  <2>1. c >= 1 /\ PerCylinder[k] \in Nat /\ PerCylinder[k] >= 6
    BY FormatAssumption
  <2>2. X \in Nat /\ (c - 1) * PerCylinder[k] >= 0
    BY <2>1
  <2>3. (c - 1) * PerCylinder[k] = X - PerCylinder[k]
    BY <2>1
  <2> HIDE DEF X
  <2>4. QED BY <2>1, <2>2, <2>3
<1>2. LastOf(k, c) = X - 1 /\ RootOf(k, c) = (X - 1 + 1) \div 2 /\ N = X - 1 - 1
  BY DEF LastOf, RootOf, NBlocks
<1> HIDE DEF X
<1>3. /\ LastOf(k, c) \in Nat /\ LastOf(k, c) >= 5
      /\ RootOf(k, c) \in Nat /\ 2 * RootOf(k, c) <= LastOf(k, c) + 1 /\ LastOf(k, c) <= 2 * RootOf(k, c)
  BY <1>1, <1>2
<1>4. N \in Nat /\ N >= 4
  BY <1>1, <1>2
<1>5. K \in Nat /\ K >= 2
  BY FormatAssumption
<1>6. PagesOf(k, c) = q + IF r # 0 THEN 1 ELSE 0
  BY DEF PagesOf, nBlock2bitmapSize
<1> HIDE DEF N, K
<1>7. q \in Int /\ r \in 0 .. K - 1 /\ N = K * q + r
  BY <1>4, <1>5, DivMod
<1> HIDE DEF q, r
<1>8. q >= 0
  <2>1. K * 0 + 0 <= K * q + r
    BY <1>4, <1>5, <1>7
  <2>2. 0 \in 0 .. K - 1 /\ 0 \in Int
    BY <1>5
  <2>3. QED BY <1>5, <1>7, <2>1, <2>2, QuotientOrder
<1>9. 2 * q <= K * q
  <2>1. (K - 2) * q >= 0
    BY <1>5, <1>7, <1>8
  <2>2. (K - 2) * q = K * q - 2 * q
    BY <1>5, <1>7
  <2> DEFINE Y == K * q
  <2>3. Y \in Int /\ Y - 2 * q >= 0
    BY <1>5, <1>7, <2>1, <2>2
  <2> HIDE DEF Y
  <2>4. 2 * q <= Y
    BY <1>7, <2>3
  <2>5. QED BY <2>4 DEF Y
<1>10. (q > 0 \/ r # 0) /\ 2 * q + r <= N
  <2> DEFINE Y == K * q
  <2>1. q = 0 => Y = 0
    BY <1>5
  <2>2. Y \in Int /\ N = Y + r /\ 2 * q <= Y
    BY <1>5, <1>7, <1>9
  <2> HIDE DEF Y
  <2>3. QED BY <1>4, <1>7, <1>8, <2>1, <2>2
<1>11. PagesOf(k, c) \in 1 .. N - 2
  BY <1>4, <1>6, <1>7, <1>8, <1>10
<1>12. QED
  BY <1>3, <1>4, <1>11 DEF N

\* Going around the volume from the root meets every block once.
LEMMA AtIs ==
  ASSUME NEW k \in Kinds, NEW c \in Nat, c >= Cylinders
  PROVE  /\ \A i \in 0 .. NBlocks(k, c) - 1 :
               At(k, c, i) \in BlocksOf(k, c) /\ TurnOf(k, c, At(k, c, i)) = i
         /\ \A b \in BlocksOf(k, c) :
               TurnOf(k, c, b) \in 0 .. NBlocks(k, c) - 1 /\ At(k, c, TurnOf(k, c, b)) = b
         /\ At(k, c, 0) = RootOf(k, c)
<1> DEFINE L == LastOf(k, c)
           R == RootOf(k, c)
           N == NBlocks(k, c)
<1>1. L \in Nat /\ L >= 5 /\ R \in Nat /\ 2 * R <= L + 1 /\ L <= 2 * R /\ N = L - 1
  BY Geometry DEF NBlocks
<1>2. /\ \A i : At(k, c, i) = IF R + i <= L THEN R + i ELSE R + i - N
      /\ \A b : TurnOf(k, c, b) = IF b >= R THEN b - R ELSE b - R + N
      /\ BlocksOf(k, c) = 2 .. L
  BY DEF At, TurnOf, BlocksOf
<1> HIDE DEF L, R, N
<1>3. ASSUME NEW i \in 0 .. N - 1
      PROVE  At(k, c, i) \in BlocksOf(k, c) /\ TurnOf(k, c, At(k, c, i)) = i
  BY <1>1, <1>2
<1>4. ASSUME NEW b \in BlocksOf(k, c)
      PROVE  TurnOf(k, c, b) \in 0 .. N - 1 /\ At(k, c, TurnOf(k, c, b)) = b
  BY <1>1, <1>2
<1>5. At(k, c, 0) = R
  BY <1>1, <1>2
<1>6. QED
  BY <1>3, <1>4, <1>5 DEF N, R

\* The roots of images of different lengths are at least three blocks apart.
LEMMA RootsApart ==
  ASSUME NEW k \in Kinds, NEW c \in Nat, c > Cylinders
  PROVE  /\ RootOf(k, c) >= RootOf(k, Cylinders) + 3
         /\ LastOf(k, c) > LastOf(k, Cylinders)
<1> DEFINE X == c * PerCylinder[k]
           Y == Cylinders * PerCylinder[k]
<1>1. X \in Nat /\ Y \in Nat /\ X >= Y + 6
  <2>1. Cylinders \in Nat /\ PerCylinder[k] \in Nat /\ PerCylinder[k] >= 6
    BY FormatAssumption
  <2>2. X \in Nat /\ Y \in Nat /\ (c - Cylinders - 1) * PerCylinder[k] >= 0
    BY <2>1
  <2>3. (c - Cylinders - 1) * PerCylinder[k] = X - Y - PerCylinder[k]
    BY <2>1
  <2> HIDE DEF X, Y
  <2>4. QED BY <2>1, <2>2, <2>3
<1>2. /\ LastOf(k, c) = X - 1 /\ RootOf(k, c) = (X - 1 + 1) \div 2
      /\ LastOf(k, Cylinders) = Y - 1 /\ RootOf(k, Cylinders) = (Y - 1 + 1) \div 2
  BY DEF LastOf, RootOf
<1> HIDE DEF X, Y
<1>3. QED
  BY <1>1, <1>2

\* What the state says of an image, in these terms.
LEMMA GeometryIs ==
  ASSUME kind \in Kinds, NEW c \in Nat, c >= Cylinders
  PROVE  /\ LastBlock(c) = LastOf(kind, c) /\ Blocks(c) = BlocksOf(kind, c)
         /\ RootBlock(c) = RootOf(kind, c)
         /\ BitmapSize(c) = PagesOf(kind, c)
<1>1. LastBlock(c) = LastOf(kind, c)
  BY DEF LastBlock, LastOf
<1>2. LastOf(kind, c) + 1 - 2 = NBlocks(kind, c)
  BY Geometry DEF NBlocks
<1>3. QED
  BY <1>1, <1>2 DEF Blocks, BlocksOf, RootBlock, RootOf, BitmapSize, PagesOf

LEMMA TurnIs ==
  ASSUME kind \in Kinds, NEW c \in Nat, c >= Cylinders, new.cylinders = c,
         NEW b \in BlocksOf(kind, c)
  PROVE  Turn(b) = TurnOf(kind, c, b)
<1> DEFINE L == LastOf(kind, c)
           R == RootOf(kind, c)
           N == NBlocks(kind, c)
           t == TurnOf(kind, c, b)
<1>1. L \in Nat /\ L >= 5 /\ R \in Nat /\ N = L - 1 /\ b \in 2 .. L
  BY Geometry DEF NBlocks, BlocksOf
<1>2. t \in 0 .. N - 1 /\ t = IF b >= R THEN b - R ELSE b - R + N
  BY AtIs DEF TurnOf
<1>3. Turn(b) = (b - R) % (L - 1)
  BY GeometryIs DEF Turn
<1> HIDE DEF L, R, N, t
<1>4. (b - R) % N = t
  <2>1. CASE b >= R
    <3>1. N * 0 = 0 /\ b - R = N * 0 + t
      BY <1>1, <1>2, <2>1
    <3>2. QED BY <1>1, <1>2, <3>1, DivModIs
  <2>2. CASE ~(b >= R)
    <3>1. N * (-1) = -N /\ b - R = N * (-1) + t
      BY <1>1, <1>2, <2>2
    <3>2. QED BY <1>1, <1>2, <3>1, DivModIs
  <2>3. QED BY <2>1, <2>2
<1>5. QED
  BY <1>1, <1>3, <1>4 DEF t

\* How many of the blocks from the n-th on are closer than the one at t.
LEMMA CloserCount ==
  ASSUME NEW k \in Kinds, NEW c \in Nat, c >= Cylinders, NEW n \in Nat, NEW t \in n .. NBlocks(k, c)
  PROVE  LET S == {a \in Further(k, c, n) : TurnOf(k, c, a) < t} IN
         IsFiniteSet(S) /\ Cardinality(S) = t - n
<1> DEFINE N == NBlocks(k, c)
           S == {a \in Further(k, c, n) : TurnOf(k, c, a) < t}
           f == [i \in n .. t - 1 |-> At(k, c, i)]
<1>1. N \in Nat /\ n .. t - 1 \subseteq 0 .. N - 1
  BY Geometry
<1>2. ASSUME NEW i \in n .. t - 1 PROVE f[i] \in S /\ TurnOf(k, c, f[i]) = i
  <2>1. At(k, c, i) \in BlocksOf(k, c) /\ TurnOf(k, c, At(k, c, i)) = i
    BY <1>1, AtIs
  <2>2. QED BY <2>1 DEF Further
<1>3. ASSUME NEW b \in S PROVE \E i \in n .. t - 1 : f[i] = b
  <2>1. b \in BlocksOf(k, c) /\ TurnOf(k, c, b) >= n /\ TurnOf(k, c, b) < t
    BY DEF Further
  <2>2. TurnOf(k, c, b) \in Nat /\ At(k, c, TurnOf(k, c, b)) = b
    BY <2>1, AtIs
  <2>3. TurnOf(k, c, b) \in n .. t - 1
    BY <1>1, <2>1, <2>2
  <2>4. f[TurnOf(k, c, b)] = b
    BY <2>2, <2>3
  <2>5. QED BY <2>3, <2>4
<1> HIDE DEF S
<1>4. f \in [n .. t - 1 -> S]
  BY <1>2
<1>5. \A i, j \in n .. t - 1 : f[i] = f[j] => i = j
  BY <1>2
<1> HIDE DEF f
<1>6. f \in Bijection(n .. t - 1, S)
  BY <1>3, <1>4, <1>5 DEF Bijection, Injection, Surjection, IsInjective
<1>7. n \in Int /\ t - 1 \in Int /\ (IF n > t - 1 THEN 0 ELSE t - 1 - n + 1) = t - n
  BY <1>1
<1>8. IsFiniteSet(n .. t - 1) /\ Cardinality(n .. t - 1) = t - n
  BY <1>7, FS_Interval
<1>9. IsFiniteSet(S) /\ Cardinality(S) = t - n
  BY <1>6, <1>8, FS_Bijection DEF ExistsBijection
<1>10. QED
  BY <1>9 DEF S

\* Taking the nearest m of these blocks takes the next m, and leaves the rest.
LEMMA NearestIs ==
  ASSUME kind \in Kinds, NEW c \in Nat, c >= Cylinders, new.cylinders = c,
         NEW n \in Nat, NEW m \in Nat, n + m <= NBlocks(kind, c)
  PROVE  Nearest(Further(kind, c, n), m) = Stretch(kind, c, n, m)
<1> DEFINE N == NBlocks(kind, c)
           F == Further(kind, c, n)
<1>1. ASSUME NEW i \in 1 .. m
      PROVE  (CHOOSE b \in F : Cardinality({a \in F : Turn(a) < Turn(b)}) = i - 1)
               = At(kind, c, n + i - 1)
  <2> DEFINE b0 == At(kind, c, n + i - 1)
  <2>1. N \in Nat /\ n + i - 1 \in 0 .. N - 1
    BY Geometry
  <2>2. b0 \in F /\ TurnOf(kind, c, b0) = n + i - 1
    BY <2>1, AtIs DEF Further
  <2>3. ASSUME NEW b \in F
        PROVE  Cardinality({a \in F : Turn(a) < Turn(b)}) = i - 1 <=> b = b0
    <3>1. b \in BlocksOf(kind, c) /\ F \subseteq BlocksOf(kind, c)
      BY DEF Further
    <3>2. {a \in F : Turn(a) < Turn(b)} = {a \in F : TurnOf(kind, c, a) < TurnOf(kind, c, b)}
      BY <3>1, TurnIs
    <3>3. /\ TurnOf(kind, c, b) \in 0 .. N - 1 /\ TurnOf(kind, c, b) >= n
          /\ At(kind, c, TurnOf(kind, c, b)) = b
      BY <3>1, AtIs DEF Further
    <3>4. Cardinality({a \in F : TurnOf(kind, c, a) < TurnOf(kind, c, b)}) = TurnOf(kind, c, b) - n
      <4>1. TurnOf(kind, c, b) \in n .. N
        BY <2>1, <3>3
      <4>2. QED BY <4>1, CloserCount
    <3>5. TurnOf(kind, c, b) - n = i - 1 <=> TurnOf(kind, c, b) = n + i - 1
      BY <2>1, <3>3
    <3>6. QED BY <2>2, <3>2, <3>3, <3>4, <3>5
  <2> HIDE DEF b0, F
  <2>4. QED BY <2>2, <2>3 DEF b0
<1>2. QED
  BY <1>1 DEF Nearest, Stretch

LEMMA RestIs ==
  ASSUME NEW k \in Kinds, NEW c \in Nat, c >= Cylinders,
         NEW n \in Nat, NEW m \in Nat, n + m <= NBlocks(k, c)
  PROVE  /\ BlocksOf(k, c) = Further(k, c, 0)
         /\ Further(k, c, n) \ ToSet(Stretch(k, c, n, m)) = Further(k, c, n + m)
         /\ ToSet(Stretch(k, c, n, m)) = {b \in Further(k, c, n) : TurnOf(k, c, b) < n + m}
         /\ IsFiniteSet(Further(k, c, n)) /\ Cardinality(Further(k, c, n)) = NBlocks(k, c) - n
<1> DEFINE N == NBlocks(k, c)
           S == Stretch(k, c, n, m)
<1>1. N \in Nat
  BY Geometry
<1>2. BlocksOf(k, c) = Further(k, c, 0)
  BY <1>1, AtIs DEF Further
<1>3. ASSUME NEW b
      PROVE  b \in ToSet(S) <=> b \in BlocksOf(k, c) /\ TurnOf(k, c, b) \in n .. n + m - 1
  <2>1. b \in ToSet(S) <=> \E j \in 1 .. m : b = At(k, c, n + j - 1)
    BY DEF ToSet, Stretch
  <2>2. ASSUME NEW j \in 1 .. m, b = At(k, c, n + j - 1)
        PROVE  b \in BlocksOf(k, c) /\ TurnOf(k, c, b) \in n .. n + m - 1
    <3>1. n + j - 1 \in 0 .. N - 1
      BY <1>1
    <3>2. QED BY <1>1, <2>2, <3>1, AtIs
  <2>3. ASSUME b \in BlocksOf(k, c), TurnOf(k, c, b) \in n .. n + m - 1
        PROVE  \E j \in 1 .. m : b = At(k, c, n + j - 1)
    <3>1. At(k, c, TurnOf(k, c, b)) = b
      BY <2>3, AtIs
    <3>2. TurnOf(k, c, b) - n + 1 \in 1 .. m /\ n + (TurnOf(k, c, b) - n + 1) - 1 = TurnOf(k, c, b)
      BY <2>3
    <3>3. QED BY <3>1, <3>2
  <2>4. QED BY <2>1, <2>2, <2>3
<1>4. \A b \in BlocksOf(k, c) : TurnOf(k, c, b) \in 0 .. N - 1
  BY AtIs
<1>5. Further(k, c, n) = {a \in Further(k, c, n) : TurnOf(k, c, a) < N}
  BY <1>1, <1>4 DEF Further
<1>6. N \in n .. N
  BY <1>1
<1>7. IsFiniteSet(Further(k, c, n)) /\ Cardinality(Further(k, c, n)) = N - n
  BY <1>5, <1>6, CloserCount
<1> HIDE DEF S
<1>8. Further(k, c, n) \ ToSet(S) = Further(k, c, n + m)
  BY <1>1, <1>3, <1>4 DEF Further
<1>9. ToSet(S) = {b \in Further(k, c, n) : TurnOf(k, c, b) < n + m}
  BY <1>1, <1>3, <1>4 DEF Further
<1>10. QED
  BY <1>2, <1>7, <1>8, <1>9 DEF S

----------------------------------------------------------------------------
(* The inductive invariant.                                                 *)

\* The root block and the cache, in a volume with d or without cache.
Heads(d) == IF d THEN 2 ELSE 1
ExtensionOf(k, c, d) == IF d THEN At(k, c, 1) ELSE 0
Sectors(k, c, d) == Stretch(k, c, Heads(d), PagesOf(k, c))
Taken(k, c, d) == Heads(d) + PagesOf(k, c)
RootMade(k, c, d, flag) == Root(Sectors(k, c, d), ExtensionOf(k, c, d), flag)

Phases == {"idle", "boot", "cache", "root", "bmPages", "invalid", "page", "valid",
           "mount", "install", "sum"}
\* Those in which the volume is being made, before it is mounted.
Making == Phases \ {"idle", "install", "sum"}
AfterRoot == {"bmPages", "invalid", "page", "valid", "mount"}

Bare(c) == [open |-> TRUE, cylinders |-> c, nVol |-> 0]

\* The root block that mounting looks for.
Home == RootOf(kind, Cylinders)

ImageOK ==
    /\ kind \in Kinds /\ cyls \in ImageCylinders[kind]
    /\ DOMAIN img = BlocksOf(kind, cyls)
    /\ boot \in BOOLEAN /\ blank \in BOOLEAN

DeviceOK ==
    /\ pc \in Phases
    /\ dev \in {NoDevice, WithVolume, Bare(cyls), Bare(Cylinders)}
    /\ dev = NoDevice => pc = "idle" /\ vol = NoVolume
    /\ pc \in Making => dev = Bare(new.cylinders)
    /\ pc \in {"install", "sum"} => dev = WithVolume
    /\ dev = WithVolume => IsRoot(Home)
    /\ vol # NoVolume => dev = WithVolume /\ vol = adfMount

\* What is known of the volume under construction.
NewOK ==
    LET c == new.cylinders
        d == new.dircache
    IN
    /\ new = [cylinders |-> c, dircache |-> d, free |-> new.free, blkList |-> new.blkList,
              sectList |-> new.sectList, page |-> new.page]
    /\ c \in {cyls, Cylinders} /\ d \in BOOLEAN
    /\ pc \in {"boot", "cache", "root", "bmPages", "invalid"} => new.page = 0
    /\ pc \in Making \ {"boot"} => boot /\ new.blkList = Stretch(kind, c, 0, Heads(d))
    /\ pc = "cache" => d
    /\ pc \in {"cache", "root"} => new.free = Further(kind, c, Heads(d))
    /\ pc \in AfterRoot => /\ new.free = Further(kind, c, Taken(kind, c, d))
                           /\ new.sectList = Sectors(kind, c, d)

\* What has been written of it.
WrittenOK ==
    LET c == new.cylinders
        d == new.dircache
        root == RootOf(kind, c)
    IN
    /\ pc = "bmPages" => img[root] = Root(<<>>, ExtensionOf(kind, c, d), "invalid")
    /\ pc \in {"invalid", "page", "valid"} => img[root] = RootMade(kind, c, d, "invalid")
    /\ pc = "mount" => img[root] = RootMade(kind, c, d, "valid")
    /\ pc = "page" => new.page \in 0 .. PagesOf(kind, c) - 1
    /\ pc \in {"page", "valid", "mount"} =>
          \A p \in 0 .. PagesOf(kind, c) - 1 :
             pc # "page" \/ p < new.page =>
                img[At(kind, c, Heads(d) + p)] = PageFor(kind, c, Taken(kind, c, d), p)
    /\ pc \in {"root"} \cup AfterRoot /\ d /\ "cache" \notin failed =>
          img[At(kind, c, 1)] = Cache

\* A device that was opened without a volume has none that mounting would find,
\* unless formatting has put one there, and none with a valid flag.
NothingMissed ==
    /\ dev.open /\ dev.cylinders # Cylinders => ~IsRoot(Home)
    /\ dev.open /\ dev.nVol = 0 /\ IsRoot(Home) /\ img[Home].bmFlag = "valid" =>
          pc = "mount" /\ new.cylinders = Cylinders

\* A root block in its place is one that formatting has written; one with a
\* valid flag has its pages.
HomeOK ==
    IsRoot(Home) =>
        \E d \in BOOLEAN :
            /\ \/ \E flag \in {"invalid", "valid"} : img[Home] = RootMade(kind, Cylinders, d, flag)
               \/ img[Home] = Root(<<>>, ExtensionOf(kind, Cylinders, d), "invalid")
            /\ img[Home].bmFlag = "valid" =>
                  /\ boot
                  /\ \A p \in 0 .. PagesOf(kind, Cylinders) - 1 :
                        img[At(kind, Cylinders, Heads(d) + p)]
                          = PageFor(kind, Cylinders, Taken(kind, Cylinders, d), p)
                  /\ d /\ "cache" \notin failed => img[At(kind, Cylinders, 1)] = Cache

\* On an image that was blank, and when pages are one for every volume: where
\* the page of a volume would be, there is one without free blocks or its own.
OnePage == \A k \in Kinds : \A c \in ImageCylinders[k] : PagesOf(k, c) = 1
BlankOK ==
    OnePage /\ blank =>
        \A d \in BOOLEAN :
            LET b == At(kind, Cylinders, Heads(d)) IN
            img[b].is = "page" =>
                \/ img[b] = Page({})
                \/ img[b] = PageFor(kind, Cylinders, Taken(kind, Cylinders, d), 0)

Inv == ImageOK /\ DeviceOK /\ NewOK /\ WrittenOK /\ NothingMissed /\ HomeOK /\ BlankOK

----------------------------------------------------------------------------
(* What mounting reads of a volume that is made.                            *)

\* Every block has a bit of its own, in one of the pages.
LEMMA PageBit ==
  ASSUME NEW k \in Kinds, NEW c \in Nat, c >= Cylinders
  PROVE  /\ \A b \in BlocksOf(k, c) : PageOf(b) \in 0 .. PagesOf(k, c) - 1
         /\ \A b, x \in BlocksOf(k, c) : PageOf(b) = PageOf(x) /\ BitOf(b) = BitOf(x) => b = x
<1> DEFINE K == BlocksPerPage
           N == NBlocks(k, c)
           q == N \div K
           r == N % K
<1>1. K \in Nat /\ K > 0
  BY FormatAssumption
<1>2. N \in Nat /\ PagesOf(k, c) = q + IF r # 0 THEN 1 ELSE 0
  BY Geometry DEF PagesOf, nBlock2bitmapSize
<1>3. \A b \in BlocksOf(k, c) : b - 2 \in 0 .. N - 1
  BY Geometry DEF BlocksOf, NBlocks
<1>4. \A b : PageOf(b) = (b - 2) \div K /\ BitOf(b) = (b - 2) % K
  BY DEF PageOf, BitOf
<1> HIDE DEF K, N
<1>5. q \in Int /\ r \in 0 .. K - 1 /\ N = K * q + r
  BY <1>1, <1>2, DivMod
<1> HIDE DEF q, r
<1>6. ASSUME NEW b \in BlocksOf(k, c)
      PROVE  /\ PageOf(b) \in Int /\ BitOf(b) \in 0 .. K - 1
             /\ b - 2 = K * PageOf(b) + BitOf(b)
  <2>1. b - 2 \in Int
    BY <1>2, <1>3
  <2>2. QED BY <1>1, <1>4, <2>1, DivMod
<1>7. ASSUME NEW b \in BlocksOf(k, c) PROVE PageOf(b) \in 0 .. PagesOf(k, c) - 1
  <2> DEFINE p == PageOf(b)
             s == BitOf(b)
  <2>1. p \in Int /\ s \in 0 .. K - 1 /\ b - 2 = K * p + s /\ b - 2 \in 0 .. N - 1
    BY <1>3, <1>6
  <2> HIDE DEF p, s
  <2>2. 0 \in 0 .. K - 1 /\ 0 \in Int /\ K * 0 = 0
    BY <1>1
  <2>3. p >= 0
    <3>1. K * 0 + 0 <= K * p + s
      BY <1>2, <2>1, <2>2
    <3>2. QED BY <1>1, <2>1, <2>2, <3>1, QuotientOrder
  <2>4. p <= q /\ K * p + s < K * q + r
    <3>1. K * p + s <= K * q + r /\ K * p + s < K * q + r
      BY <1>2, <1>5, <2>1
    <3>2. QED BY <1>1, <1>5, <2>1, <3>1, QuotientOrder
  <2>5. r = 0 => p # q
    <3> SUFFICES ASSUME r = 0, p = q PROVE FALSE
      OBVIOUS
    <3> DEFINE Y == K * p
    <3>1. Y \in Int /\ Y + s < Y + 0
      BY <1>1, <2>1, <2>4
    <3> HIDE DEF Y
    <3>2. QED BY <2>1, <3>1
  <2>6. p \in 0 .. PagesOf(k, c) - 1
    BY <1>2, <1>5, <2>1, <2>3, <2>4, <2>5
  <2>7. QED BY <2>6 DEF p
<1>8. ASSUME NEW b \in BlocksOf(k, c), NEW x \in BlocksOf(k, c),
             PageOf(b) = PageOf(x), BitOf(b) = BitOf(x)
      PROVE  b = x
  <2>1. b - 2 = x - 2
    BY <1>6, <1>8
  <2>2. QED BY <1>2, <1>3, <2>1 DEF BlocksOf
<1>9. QED
  BY <1>7, <1>8

\* A block is free in its page if it is free.
LEMMA ReadsBack ==
  ASSUME NEW k \in Kinds, NEW c \in Nat, c >= Cylinders,
         NEW F, F \subseteq BlocksOf(k, c), NEW b \in BlocksOf(k, c)
  PROVE  BitOf(b) \in BitsOf(F, PageOf(b)) <=> b \in F
<1>1. b \in F => BitOf(b) \in BitsOf(F, PageOf(b))
  BY DEF BitsOf
<1>2. ASSUME BitOf(b) \in BitsOf(F, PageOf(b)) PROVE b \in F
  <2>1. PICK x \in F : PageOf(x) = PageOf(b) /\ BitOf(x) = BitOf(b)
    BY <1>2 DEF BitsOf
  <2>2. QED BY <2>1, PageBit
<1>3. QED
  BY <1>1, <1>2

LEMMA SectorsAre ==
  ASSUME NEW k \in Kinds, NEW c \in Nat, c >= Cylinders, NEW d \in BOOLEAN
  PROVE  /\ Heads(d) \in 1 .. 2 /\ PagesOf(k, c) \in Nat \ {0}
         /\ Taken(k, c, d) \in Nat /\ Taken(k, c, d) <= NBlocks(k, c)
         /\ Taken(k, c, d) = Heads(d) + PagesOf(k, c)
         /\ Len(Sectors(k, c, d)) = PagesOf(k, c)
         /\ DOMAIN Sectors(k, c, d) = 1 .. PagesOf(k, c)
         /\ \A p \in 0 .. PagesOf(k, c) - 1 :
               /\ Sectors(k, c, d)[p + 1] = At(k, c, Heads(d) + p)
               /\ At(k, c, Heads(d) + p) \in BlocksOf(k, c) \ {RootOf(k, c)}
               /\ d => At(k, c, Heads(d) + p) # At(k, c, 1)
               /\ TurnOf(k, c, At(k, c, Heads(d) + p)) = Heads(d) + p
<1> DEFINE m == PagesOf(k, c)
           N == NBlocks(k, c)
           h == Heads(d)
<1>1. h \in 1 .. 2 /\ m \in Nat \ {0} /\ h + m <= N /\ N \in Nat /\ (d => h = 2)
  BY Geometry DEF Heads
<1>2. Taken(k, c, d) = h + m
  BY DEF Taken
<1>3. Sectors(k, c, d) = [j \in 1 .. m |-> At(k, c, h + j - 1)]
  BY DEF Sectors, Stretch
<1>4. Len(Sectors(k, c, d)) = m /\ DOMAIN Sectors(k, c, d) = 1 .. m
  BY <1>1, <1>3
<1>5. ASSUME NEW p \in 0 .. m - 1
      PROVE  /\ Sectors(k, c, d)[p + 1] = At(k, c, h + p)
             /\ At(k, c, h + p) \in BlocksOf(k, c) \ {RootOf(k, c)}
             /\ d => At(k, c, h + p) # At(k, c, 1)
             /\ TurnOf(k, c, At(k, c, h + p)) = h + p
  <2>1. p + 1 \in 1 .. m /\ h + (p + 1) - 1 = h + p /\ h + p \in 0 .. N - 1
        /\ 0 \in 0 .. N - 1 /\ 1 \in 0 .. N - 1 /\ h + p # 0 /\ (d => h + p # 1)
    BY <1>1
  <2>2. Sectors(k, c, d)[p + 1] = At(k, c, h + p)
    BY <1>3, <2>1
  <2>3. At(k, c, h + p) \in BlocksOf(k, c) /\ TurnOf(k, c, At(k, c, h + p)) = h + p
    BY <2>1, AtIs
  <2>4. TurnOf(k, c, RootOf(k, c)) = 0 /\ TurnOf(k, c, At(k, c, 1)) = 1
    BY <2>1, AtIs
  <2>5. QED BY <2>1, <2>2, <2>3, <2>4
<1>6. QED
  BY <1>1, <1>2, <1>4, <1>5

\* The volume that formatting makes, mounted.
LEMMA MadeIsRead ==
  ASSUME kind \in Kinds, NEW d \in BOOLEAN, NEW flag, img[Home] = RootMade(kind, Cylinders, d, flag), boot,
         \A p \in 0 .. PagesOf(kind, Cylinders) - 1 :
            img[At(kind, Cylinders, Heads(d) + p)]
              = PageFor(kind, Cylinders, Taken(kind, Cylinders, d), p)
  PROVE  adfMount = [table |-> "read", free |-> Further(kind, Cylinders, Taken(kind, Cylinders, d))]
<1> DEFINE c == Cylinders
           m == PagesOf(kind, c)
           S == Sectors(kind, c, d)
           F == Further(kind, c, Taken(kind, c, d))
<1>1. c \in Nat /\ c >= Cylinders
  BY FormatAssumption
<1>2. Home = RootBlock(c) /\ Blocks(c) = BlocksOf(kind, c)
  BY <1>1, GeometryIs DEF Home
<1>3. img[Home].bmPages = S
  BY DEF RootMade, Root
<1>4. /\ m \in Nat /\ Len(S) = m /\ DOMAIN S = 1 .. m
      /\ \A p \in 0 .. m - 1 : S[p + 1] = At(kind, c, Heads(d) + p)
  BY <1>1, SectorsAre
<1>5. \A p \in 0 .. m - 1 : img[S[p + 1]] = Page(BitsOf(F, p))
  BY <1>4 DEF PageFor
<1>6. F \subseteq BlocksOf(kind, c)
  BY DEF Further
<1>7. \A b \in BlocksOf(kind, c) : PageOf(b) \in 0 .. m - 1
  BY <1>1, PageBit
<1> HIDE DEF m, S, F
<1>8. \A i \in DOMAIN S : img[S[i]].is = "page"
  <2> SUFFICES ASSUME NEW i \in DOMAIN S PROVE img[S[i]].is = "page"
    OBVIOUS
  <2>1. i - 1 \in 0 .. m - 1 /\ i - 1 + 1 = i
    BY <1>4
  <2>2. img[S[i - 1 + 1]] = Page(BitsOf(F, i - 1))
    BY <1>5, <2>1
  <2>3. img[S[i]] = Page(BitsOf(F, i - 1))
    BY <2>1, <2>2
  <2>4. QED BY <2>3 DEF Page
<1>9. ASSUME NEW b \in BlocksOf(kind, c)
      PROVE  PageOf(b) < Len(S) /\ (BitOf(b) \in img[S[PageOf(b) + 1]].bits <=> b \in F)
  <2>1. PageOf(b) \in 0 .. m - 1 /\ PageOf(b) < Len(S)
    BY <1>4, <1>7
  <2>2. img[S[PageOf(b) + 1]] = Page(BitsOf(F, PageOf(b)))
    BY <1>5, <2>1
  <2>3. img[S[PageOf(b) + 1]].bits = BitsOf(F, PageOf(b))
    BY <2>2 DEF Page
  <2>4. QED BY <1>1, <1>6, <2>1, <2>3, ReadsBack
<1>10. BlocksRead(S) = F
  BY <1>2, <1>6, <1>9 DEF BlocksRead
<1>11. QED
  BY <1>2, <1>3, <1>8, <1>10 DEF adfMount, adfReadBitmap, F

\* What it needs for itself.
LEMMA StructureIs ==
  ASSUME kind \in Kinds, NEW d \in BOOLEAN
  PROVE  /\ \A flag : img[Home] = RootMade(kind, Cylinders, d, flag) =>
               /\ Structure = {b \in BlocksOf(kind, Cylinders) :
                                  TurnOf(kind, Cylinders, b) < Taken(kind, Cylinders, d)}
               /\ Cardinality(Structure) = Taken(kind, Cylinders, d)
         /\ \A flag : img[Home] = Root(<<>>, ExtensionOf(kind, Cylinders, d), flag) =>
               Structure \subseteq {b \in BlocksOf(kind, Cylinders) :
                                  TurnOf(kind, Cylinders, b) < Taken(kind, Cylinders, d)}
<1> DEFINE c == Cylinders
           m == PagesOf(kind, c)
           N == NBlocks(kind, c)
           S == Sectors(kind, c, d)
           x == ExtensionOf(kind, c, d)
           near(n) == {b \in BlocksOf(kind, c) : TurnOf(kind, c, b) < n}
           h == Heads(d)
           t == Taken(kind, c, d)
<1>1. c \in Nat /\ c >= Cylinders
  BY FormatAssumption
<1>2. Home = RootBlock(c) /\ Home = At(kind, c, 0)
  BY <1>1, GeometryIs, AtIs DEF Home
<1>3. h \in 1 .. 2 /\ m \in Nat /\ t = h + m /\ t <= N /\ N \in Nat /\ t \in Nat
      /\ (d => h = 2) /\ (~d => h = 1)
  BY <1>1, Geometry, SectorsAre DEF Heads
<1>4. ToSet(S) = {b \in Further(kind, c, h) : TurnOf(kind, c, b) < t}
  BY <1>1, <1>3, RestIs DEF Sectors
<1>5. 0 \in 0 .. N - 1 /\ 1 \in 0 .. N - 1 /\ \A b \in BlocksOf(kind, c) : b # 0
  BY <1>1, Geometry DEF BlocksOf
<1>6. \A b \in BlocksOf(kind, c) : TurnOf(kind, c, b) \in Nat /\ At(kind, c, TurnOf(kind, c, b)) = b
  BY <1>1, AtIs
<1>7. At(kind, c, 0) \in BlocksOf(kind, c) /\ TurnOf(kind, c, At(kind, c, 0)) = 0
      /\ At(kind, c, 1) \in BlocksOf(kind, c) /\ TurnOf(kind, c, At(kind, c, 1)) = 1
  BY <1>1, <1>5, AtIs
<1>8. {x} \ {0} = IF d THEN {At(kind, c, 1)} ELSE {}
  BY <1>5, <1>7 DEF ExtensionOf
<1>9. {At(kind, c, 0)} \cup ({x} \ {0}) = near(h)
  <2>1. ASSUME NEW b \in near(h) PROVE b = At(kind, c, 0) \/ (d /\ b = At(kind, c, 1))
    <3>1. TurnOf(kind, c, b) = 0 \/ (d /\ TurnOf(kind, c, b) = 1)
      <4>1. b \in BlocksOf(kind, c) /\ TurnOf(kind, c, b) < h
        OBVIOUS
      <4>2. TurnOf(kind, c, b) \in Nat
        BY <1>6, <4>1
      <4>3. CASE d
        <5>1. h = 2 /\ TurnOf(kind, c, b) < 2
          BY <1>3, <4>1, <4>3
        <5>2. TurnOf(kind, c, b) = 0 \/ TurnOf(kind, c, b) = 1
          BY <4>2, <5>1
        <5>3. QED BY <4>3, <5>2
      <4>4. CASE ~d
        BY <1>3, <4>1, <4>2, <4>4
      <4>5. QED BY <4>3, <4>4
    <3>2. QED BY <1>6, <3>1
  <2>2. QED BY <1>3, <1>7, <1>8, <2>1
<1>10. near(h) \cup ToSet(S) = near(t) /\ near(h) \subseteq near(t)
  BY <1>3, <1>4, <1>6 DEF Further
<1>11. Cardinality(near(t)) = t
  <2>1. near(t) = {b \in Further(kind, c, 0) : TurnOf(kind, c, b) < t}
    BY <1>1, <1>3, RestIs
  <2>2. t \in 0 .. N /\ 0 \in Nat /\ t - 0 = t
    BY <1>3
  <2>3. QED BY <1>1, <2>1, <2>2, CloserCount
<1>12. ASSUME NEW flag, img[Home] = RootMade(kind, c, d, flag) PROVE Structure = near(t)
  <2>1. img[Home].bmPages = S /\ img[Home].extension = x
    BY <1>12 DEF RootMade, Root
  <2>2. Structure = {At(kind, c, 0)} \cup ToSet(S) \cup ({x} \ {0})
    BY <1>2, <2>1 DEF Structure
  <2> HIDE DEF S, x
  <2>3. QED BY <1>9, <1>10, <2>2
<1>13. ASSUME NEW flag, img[Home] = Root(<<>>, x, flag) PROVE Structure \subseteq near(t)
  <2>1. img[Home].bmPages = <<>> /\ img[Home].extension = x
    BY <1>13 DEF Root
  <2>2. ToSet(<<>>) = {}
    BY DEF ToSet
  <2>3. Structure = {At(kind, c, 0)} \cup {} \cup ({x} \ {0})
    BY <1>2, <2>1, <2>2 DEF Structure
  <2> HIDE DEF x
  <2>4. QED BY <1>9, <1>10, <2>3
<1>14. QED
  BY <1>11, <1>12, <1>13

\* A valid flag means a sound volume.
LEMMA HomeIsSound == ImageOK /\ HomeOK => ValidFlagMeansSound
<1> SUFFICES ASSUME ImageOK, HomeOK, IsRoot(Home), img[Home].bmFlag = "valid"
             PROVE  /\ boot
                    /\ adfMount = [table |-> "read", free |-> Blocks(Cylinders) \ Structure]
                    /\ Cardinality(Structure) = 1 + BitmapSize(Cylinders)
                                      + IF img[Home].extension = 0 THEN 0 ELSE 1
                    /\ img[Home].extension # 0 /\ "cache" \notin failed =>
                          img[img[Home].extension] = Cache
  <2>1. ASSUME ImageOK PROVE RootBlock(Cylinders) = Home
    <3>1. kind \in Kinds /\ Cylinders \in Nat /\ Cylinders >= Cylinders
      BY <2>1, FormatAssumption DEF ImageOK
    <3>2. QED BY <3>1, GeometryIs DEF Home
  <2>2. QED BY <2>1 DEF ValidFlagMeansSound
<1> DEFINE c == Cylinders
           near(n) == {b \in BlocksOf(kind, c) : TurnOf(kind, c, b) < n}
<1>1. kind \in Kinds /\ c \in Nat /\ c >= Cylinders
  BY FormatAssumption DEF ImageOK
<1>2. PICK d \in BOOLEAN :
        /\ \/ \E flag \in {"invalid", "valid"} : img[Home] = RootMade(kind, c, d, flag)
           \/ img[Home] = Root(<<>>, ExtensionOf(kind, c, d), "invalid")
        /\ boot
        /\ \A p \in 0 .. PagesOf(kind, c) - 1 :
              img[At(kind, c, Heads(d) + p)] = PageFor(kind, c, Taken(kind, c, d), p)
        /\ d /\ "cache" \notin failed => img[At(kind, c, 1)] = Cache
  BY DEF HomeOK
<1>3. img[Home] = RootMade(kind, c, d, "valid")
  BY <1>2 DEF RootMade, Root
<1>4. adfMount = [table |-> "read", free |-> Further(kind, c, Taken(kind, c, d))]
  BY <1>1, <1>2, <1>3, MadeIsRead
<1>5. Structure = near(Taken(kind, c, d)) /\ Cardinality(Structure) = Taken(kind, c, d)
  BY <1>1, <1>3, StructureIs
<1>6. Blocks(c) = BlocksOf(kind, c) /\ BitmapSize(c) = PagesOf(kind, c)
  BY <1>1, GeometryIs
<1>7. Taken(kind, c, d) \in Nat /\ Taken(kind, c, d) = Heads(d) + PagesOf(kind, c) /\ PagesOf(kind, c) \in Nat
  BY <1>1, SectorsAre
<1>8. BlocksOf(kind, c) \ near(Taken(kind, c, d)) = Further(kind, c, Taken(kind, c, d))
  <2>1. \A b \in BlocksOf(kind, c) : TurnOf(kind, c, b) \in Nat
    BY <1>1, AtIs
  <2>2. QED BY <1>7, <2>1 DEF Further
<1>9. img[Home].extension = ExtensionOf(kind, c, d)
  BY <1>3 DEF RootMade, Root
<1>10. ExtensionOf(kind, c, d) = 0 <=> ~d
  <2>1. 1 \in 0 .. NBlocks(kind, c) - 1
    BY <1>1, Geometry
  <2>2. At(kind, c, 1) \in BlocksOf(kind, c)
    BY <1>1, <2>1, AtIs
  <2>3. QED BY <2>2 DEF ExtensionOf, BlocksOf
<1>11. Heads(d) = 1 + IF img[Home].extension = 0 THEN 0 ELSE 1
  BY <1>9, <1>10 DEF Heads
<1>12. Cardinality(Structure) = 1 + BitmapSize(c) + IF img[Home].extension = 0 THEN 0 ELSE 1
  BY <1>5, <1>6, <1>7, <1>11
<1>13. d => img[Home].extension = At(kind, c, 1)
  BY <1>9 DEF ExtensionOf
<1>14. QED
  BY <1>2, <1>4, <1>5, <1>6, <1>8, <1>9, <1>10, <1>12, <1>13

----------------------------------------------------------------------------
(* What all steps have in common.                                           *)

LEMMA ImageFacts ==
  ASSUME ImageOK
  PROVE  /\ kind \in Kinds /\ Cylinders \in Nat /\ Cylinders >= Cylinders
         /\ cyls \in Nat /\ cyls >= Cylinders
         /\ \A c \in {cyls, Cylinders} :
               /\ c \in Nat /\ c >= Cylinders
               /\ BlocksOf(kind, c) \subseteq DOMAIN img
               /\ RootOf(kind, c) \in BlocksOf(kind, c) /\ At(kind, c, 1) \in BlocksOf(kind, c)
               /\ At(kind, c, 1) # RootOf(kind, c)
         /\ Home = RootBlock(Cylinders)
<1>1. kind \in Kinds /\ Cylinders \in Nat /\ Cylinders >= Cylinders /\ cyls \in Nat /\ cyls >= Cylinders
  BY FormatAssumption DEF ImageOK
<1>2. BlocksOf(kind, Cylinders) \subseteq BlocksOf(kind, cyls)
  <2>1. CASE cyls = Cylinders
    BY <2>1
  <2>2. CASE cyls # Cylinders
    <3>1. cyls > Cylinders
      BY <1>1, <2>2
    <3>2. LastOf(kind, cyls) > LastOf(kind, Cylinders)
      BY <1>1, <3>1, RootsApart
    <3>3. LastOf(kind, cyls) \in Nat /\ LastOf(kind, Cylinders) \in Nat
      BY <1>1, Geometry
    <3>4. QED BY <3>2, <3>3 DEF BlocksOf
  <2>3. QED BY <2>1, <2>2
<1>3. ASSUME NEW c \in {cyls, Cylinders}
      PROVE  /\ c \in Nat /\ c >= Cylinders
             /\ BlocksOf(kind, c) \subseteq DOMAIN img
             /\ RootOf(kind, c) \in BlocksOf(kind, c) /\ At(kind, c, 1) \in BlocksOf(kind, c)
             /\ At(kind, c, 1) # RootOf(kind, c)
  <2>1. c \in Nat /\ c >= Cylinders
    BY <1>1
  <2>2. BlocksOf(kind, c) \subseteq DOMAIN img
    BY <1>2 DEF ImageOK
  <2>3. 0 \in 0 .. NBlocks(kind, c) - 1 /\ 1 \in 0 .. NBlocks(kind, c) - 1
    BY <1>1, <2>1, Geometry
  <2>4. /\ At(kind, c, 0) \in BlocksOf(kind, c) /\ TurnOf(kind, c, At(kind, c, 0)) = 0
        /\ At(kind, c, 1) \in BlocksOf(kind, c) /\ TurnOf(kind, c, At(kind, c, 1)) = 1
        /\ At(kind, c, 0) = RootOf(kind, c)
    BY <1>1, <2>1, <2>3, AtIs
  <2>5. QED BY <2>1, <2>2, <2>4
<1>4. Home = RootBlock(Cylinders)
  BY <1>1, GeometryIs DEF Home
<1>5. QED
  BY <1>1, <1>3, <1>4

\* While the volume is being made the device has none.
LEMMA MakingIs ==
  ASSUME Inv, pc \in Making
  PROVE  /\ dev = Bare(new.cylinders) /\ vol = NoVolume
         /\ dev.open /\ dev.nVol = 0 /\ dev.cylinders = new.cylinders
         /\ new.cylinders \in {cyls, Cylinders} /\ new.dircache \in BOOLEAN
         /\ new.cylinders # Cylinders => ~IsRoot(Home)
         /\ IsRoot(Home) /\ img[Home].bmFlag = "valid" => pc = "mount" /\ new.cylinders = Cylinders
         /\ pc # "boot" => boot
<1>1. dev = Bare(new.cylinders)
  BY DEF Inv, DeviceOK
<1>2. dev # WithVolume /\ dev.open /\ dev.nVol = 0 /\ dev.cylinders = new.cylinders
  BY <1>1 DEF Bare, WithVolume
<1>3. vol = NoVolume
  BY <1>2 DEF Inv, DeviceOK
<1>4. new.cylinders \in {cyls, Cylinders} /\ new.dircache \in BOOLEAN /\ (pc # "boot" => boot)
  BY DEF Inv, NewOK
<1>5. QED
  BY <1>1, <1>2, <1>3, <1>4 DEF Inv, NothingMissed

\* Steps that write nothing but the boot block.
LEMMA SameImage ==
  ASSUME Inv, UNCHANGED <<kind, cyls, img, blank>>, boot' \in {boot, TRUE},
         \/ "cache" \in failed => "cache" \in failed'
         \/ ~(IsRoot(Home) /\ img[Home].bmFlag = "valid")
  PROVE  ImageOK' /\ HomeOK' /\ BlankOK'
<1>1. ImageOK'
  BY DEF Inv, ImageOK
<1>2. HomeOK'
  <2> SUFFICES ASSUME IsRoot(Home) PROVE HomeOK'
    BY DEF HomeOK, Home, IsRoot
  <2>1. PICK d \in BOOLEAN :
            /\ \/ \E flag \in {"invalid", "valid"} : img[Home] = RootMade(kind, Cylinders, d, flag)
               \/ img[Home] = Root(<<>>, ExtensionOf(kind, Cylinders, d), "invalid")
            /\ img[Home].bmFlag = "valid" =>
                  /\ boot
                  /\ \A p \in 0 .. PagesOf(kind, Cylinders) - 1 :
                        img[At(kind, Cylinders, Heads(d) + p)]
                          = PageFor(kind, Cylinders, Taken(kind, Cylinders, d), p)
                  /\ d /\ "cache" \notin failed => img[At(kind, Cylinders, 1)] = Cache
    BY DEF Inv, HomeOK
  <2>2. QED BY <2>1 DEF HomeOK, Home, IsRoot
<1>3. BlankOK'
  BY DEF Inv, BlankOK
<1>4. QED
  BY <1>1, <1>2, <1>3

\* The blocks that the making of a volume c with d writes, and what with.
Written(c, d, b, e) ==
    \/ b = RootOf(kind, c) /\ e = Root(<<>>, ExtensionOf(kind, c, d), "invalid")
    \/ b = RootOf(kind, c) /\ e = RootMade(kind, c, d, "invalid")
    \/ /\ b = RootOf(kind, c) /\ e = RootMade(kind, c, d, "valid")
       /\ pc' = "mount" /\ new'.cylinders = c
       /\ \A p \in 0 .. PagesOf(kind, c) - 1 :
             img[At(kind, c, Heads(d) + p)] = PageFor(kind, c, Taken(kind, c, d), p)
       /\ d /\ "cache" \notin failed => img[At(kind, c, 1)] = Cache
    \/ b = At(kind, c, 1) /\ e = Cache
    \/ \E p \in 0 .. PagesOf(kind, c) - 1 :
          b = At(kind, c, Heads(d) + p) /\ e = PageFor(kind, c, Taken(kind, c, d), p)

LEMMA WrittenWhere ==
  ASSUME ImageOK, NEW c \in {cyls, Cylinders}, NEW d \in BOOLEAN, NEW b, NEW e, Written(c, d, b, e)
  PROVE  /\ b \in DOMAIN img
         /\ b # RootOf(kind, c) => e.is # "root"
         /\ b # RootOf(kind, c) /\ e.is = "page" =>
               \E p \in 0 .. PagesOf(kind, c) - 1 :
                  b = At(kind, c, Heads(d) + p) /\ e = PageFor(kind, c, Taken(kind, c, d), p)
         /\ b = RootOf(kind, c) =>
               e.is = "root" /\
                 \/ e = Root(<<>>, ExtensionOf(kind, c, d), "invalid")
                 \/ e = RootMade(kind, c, d, "invalid")
                 \/ /\ e = RootMade(kind, c, d, "valid")
                    /\ pc' = "mount" /\ new'.cylinders = c
                    /\ \A p \in 0 .. PagesOf(kind, c) - 1 :
                          img[At(kind, c, Heads(d) + p)] = PageFor(kind, c, Taken(kind, c, d), p)
                    /\ d /\ "cache" \notin failed => img[At(kind, c, 1)] = Cache
<1>1. /\ kind \in Kinds /\ c \in Nat /\ c >= Cylinders /\ BlocksOf(kind, c) \subseteq DOMAIN img
      /\ RootOf(kind, c) \in DOMAIN img /\ At(kind, c, 1) \in DOMAIN img
      /\ At(kind, c, 1) # RootOf(kind, c)
  BY ImageFacts
<1>2. \A p \in 0 .. PagesOf(kind, c) - 1 : At(kind, c, Heads(d) + p) \in DOMAIN img \ {RootOf(kind, c)}
  BY <1>1, SectorsAre
<1>3. /\ \A n, p : PageFor(kind, c, n, p).is = "page"
      /\ \A x, y, z : Root(x, y, z).is = "root"
      /\ \A flag : RootMade(kind, c, d, flag).is = "root"
      /\ Cache.is = "cache"
  BY DEF PageFor, Page, Root, RootMade, Cache
<1>4. QED
  BY <1>1, <1>2, <1>3 DEF Written

\* Before it has a root and a page of a single volume: no other one is mixed up
\* with it.
LEMMA PagesApart ==
  ASSUME ImageOK, OnePage, NEW c \in {cyls, Cylinders}, NEW d \in BOOLEAN, NEW a \in BOOLEAN,
         NEW p \in 0 .. PagesOf(kind, c) - 1,
         At(kind, c, Heads(d) + p) = At(kind, Cylinders, Heads(a))
  PROVE  c = Cylinders /\ d = a /\ p = 0
<1>1. kind \in Kinds /\ c \in Nat /\ c >= Cylinders /\ Cylinders \in Nat /\ Cylinders >= Cylinders
  BY ImageFacts
<1>2. PagesOf(kind, c) = 1 /\ p = 0
  <2>1. c \in ImageCylinders[kind]
    BY FormatAssumption DEF ImageOK
  <2>2. PagesOf(kind, c) = 1
    BY <1>1, <2>1 DEF OnePage
  <2>3. QED BY <2>2
<1>3. Heads(d) \in 1 .. 2 /\ Heads(a) \in 1 .. 2 /\ (Heads(d) = Heads(a) => d = a)
  BY DEF Heads
<1>4. Heads(d) + p = Heads(d)
  BY <1>2, <1>3
<1>5. ASSUME NEW x \in Nat, x >= Cylinders, NEW h \in 1 .. 2
      PROVE  At(kind, x, h) = RootOf(kind, x) + h
  <2> DEFINE L == LastOf(kind, x)
             R == RootOf(kind, x)
  <2>1. L \in Nat /\ L >= 5 /\ R \in Nat /\ 2 * R <= L + 1
    BY <1>1, <1>5, Geometry
  <2>2. At(kind, x, h) = IF R + h <= L THEN R + h ELSE R + h - NBlocks(kind, x)
    BY DEF At
  <2> HIDE DEF L, R
  <2>3. At(kind, x, h) = R + h
    BY <2>1, <2>2
  <2>4. QED BY <2>3 DEF R
<1>6. RootOf(kind, c) + Heads(d) = RootOf(kind, Cylinders) + Heads(a)
  BY <1>1, <1>3, <1>4, <1>5
<1>7. RootOf(kind, c) \in Nat /\ RootOf(kind, Cylinders) \in Nat
  BY <1>1, Geometry
<1>8. c = Cylinders
  <2> SUFFICES ASSUME c # Cylinders PROVE FALSE
    OBVIOUS
  <2>1. c > Cylinders
    BY <1>1
  <2>2. RootOf(kind, c) >= RootOf(kind, Cylinders) + 3
    BY <1>1, <2>1, RootsApart
  <2>3. QED BY <1>3, <1>6, <1>7, <2>2
<1>9. Heads(d) = Heads(a)
  BY <1>3, <1>6, <1>7, <1>8
<1>10. QED
  BY <1>2, <1>3, <1>8, <1>9

\* A block of the volume under construction is written.
LEMMA WriteKeeps ==
  ASSUME Inv, pc \in Making \ {"boot", "mount"}, UNCHANGED <<kind, cyls, boot, blank, dev, failed>>,
         NEW b, NEW e, Written(new.cylinders, new.dircache, b, e), img' = [img EXCEPT ![b] = e]
  PROVE  ImageOK' /\ HomeOK' /\ BlankOK' /\ NothingMissed'
<1> DEFINE c == new.cylinders
           d == new.dircache
<1>1. /\ ImageOK /\ c \in {cyls, Cylinders} /\ d \in BOOLEAN /\ boot
      /\ dev.open /\ dev.nVol = 0 /\ dev.cylinders = c
      /\ c # Cylinders => ~IsRoot(Home)
      /\ ~(IsRoot(Home) /\ img[Home].bmFlag = "valid")
  BY MakingIs DEF Inv
<1> HIDE DEF c, d
<1>2. /\ b \in DOMAIN img
      /\ b # RootOf(kind, c) => e.is # "root"
      /\ b # RootOf(kind, c) /\ e.is = "page" =>
            \E p \in 0 .. PagesOf(kind, c) - 1 :
               b = At(kind, c, Heads(d) + p) /\ e = PageFor(kind, c, Taken(kind, c, d), p)
      /\ b = RootOf(kind, c) =>
            e.is = "root" /\
              \/ e = Root(<<>>, ExtensionOf(kind, c, d), "invalid")
              \/ e = RootMade(kind, c, d, "invalid")
              \/ /\ e = RootMade(kind, c, d, "valid")
                 /\ pc' = "mount" /\ new'.cylinders = c
                 /\ \A p \in 0 .. PagesOf(kind, c) - 1 :
                       img[At(kind, c, Heads(d) + p)] = PageFor(kind, c, Taken(kind, c, d), p)
                 /\ d /\ "cache" \notin failed => img[At(kind, c, 1)] = Cache
  BY <1>1, WrittenWhere DEF c, d
<1>3. ImageOK'
  BY <1>1, <1>2 DEF ImageOK
<1>4. \A x \in DOMAIN img : img'[x] = IF x = b THEN e ELSE img[x]
  BY <1>2
<1>5. Home \in DOMAIN img /\ Home = RootOf(kind, Cylinders) /\ Home' = Home
  BY <1>1, ImageFacts DEF Home
<1>6. ASSUME c # Cylinders PROVE ~IsRoot(Home)'
  <2>1. Home # RootOf(kind, c)
    <3>1. kind \in Kinds /\ c \in Nat /\ c > Cylinders
      <4>1. c \in Nat /\ c >= Cylinders /\ Cylinders \in Nat
        BY <1>1, ImageFacts
      <4>2. QED BY <1>1, <1>6, <4>1 DEF ImageOK
    <3>2. RootOf(kind, c) >= RootOf(kind, Cylinders) + 3
      BY <3>1, RootsApart
    <3>3. RootOf(kind, Cylinders) \in Nat
      BY <1>1, ImageFacts, Geometry
    <3>4. QED BY <1>5, <3>2, <3>3
  <2>2. img'[Home].is # "root"
    BY <1>1, <1>2, <1>4, <1>5, <1>6, <2>1 DEF IsRoot
  <2>3. QED BY <1>5, <2>2 DEF IsRoot
<1>7. ASSUME c = Cylinders, b = Home
      PROVE  /\ img'[Home] = e
             /\ \/ \E flag \in {"invalid", "valid"} : e = RootMade(kind, Cylinders, d, flag)
                \/ e = Root(<<>>, ExtensionOf(kind, Cylinders, d), "invalid")
             /\ e.bmFlag = "valid" =>
                  /\ pc' = "mount" /\ new'.cylinders = c
                  /\ \A p \in 0 .. PagesOf(kind, c) - 1 :
                        img[At(kind, c, Heads(d) + p)] = PageFor(kind, c, Taken(kind, c, d), p)
                  /\ d /\ "cache" \notin failed => img[At(kind, c, 1)] = Cache
  <2>1. b = RootOf(kind, c) /\ img'[Home] = e
    BY <1>2, <1>4, <1>5, <1>7
  <2>2. \A x, y : Root(x, y, "invalid").bmFlag # "valid"
    BY DEF Root
  <2>3. RootMade(kind, c, d, "invalid").bmFlag # "valid"
    BY DEF RootMade, Root
  <2>4. QED BY <1>2, <1>7, <2>1, <2>2, <2>3
<1>8. ASSUME b # Home PROVE img'[Home] = img[Home]
  BY <1>4, <1>5, <1>8
<1>9. ASSUME c = Cylinders, b = Home, NEW x \in DOMAIN img, x # Home PROVE img'[x] = img[x]
  BY <1>4, <1>9
<1>10. NothingMissed'
  <2>1. CASE c # Cylinders
    BY <1>6, <2>1 DEF NothingMissed
  <2>2. CASE c = Cylinders /\ b = Home
    BY <1>1, <1>5, <1>7, <2>2 DEF NothingMissed
  <2>3. CASE c = Cylinders /\ b # Home
    BY <1>1, <1>5, <1>8, <2>3 DEF NothingMissed, IsRoot
  <2>4. QED BY <2>1, <2>2, <2>3
<1>11. HomeOK'
  <2>1. CASE c # Cylinders
    BY <1>6, <2>1 DEF HomeOK
  <2>2. CASE c = Cylinders /\ b = Home
    <3>1. /\ \A p \in 0 .. PagesOf(kind, c) - 1 :
                At(kind, c, Heads(d) + p) \in DOMAIN img /\ At(kind, c, Heads(d) + p) # Home
          /\ At(kind, c, 1) \in DOMAIN img /\ At(kind, c, 1) # Home
      <4>1. /\ kind \in Kinds /\ c \in Nat /\ c >= Cylinders /\ BlocksOf(kind, c) \subseteq DOMAIN img
            /\ At(kind, c, 1) \in DOMAIN img /\ At(kind, c, 1) # RootOf(kind, c)
        BY <1>1, ImageFacts
      <4>2. QED BY <1>1, <1>5, <2>2, <4>1, SectorsAre
    <3>2. /\ \A p \in 0 .. PagesOf(kind, c) - 1 :
                img'[At(kind, c, Heads(d) + p)] = img[At(kind, c, Heads(d) + p)]
          /\ img'[At(kind, c, 1)] = img[At(kind, c, 1)]
      BY <1>9, <2>2, <3>1
    <3>3. e.bmFlag = "valid" =>
            /\ \A p \in 0 .. PagesOf(kind, c) - 1 :
                  img'[At(kind, c, Heads(d) + p)] = PageFor(kind, c, Taken(kind, c, d), p)
            /\ d /\ "cache" \notin failed => img'[At(kind, c, 1)] = Cache
      BY <1>7, <2>2, <3>2
    <3>4. /\ \/ \E flag \in {"invalid", "valid"} : img'[Home] = RootMade(kind, Cylinders, d, flag)
             \/ img'[Home] = Root(<<>>, ExtensionOf(kind, Cylinders, d), "invalid")
          /\ img'[Home].bmFlag = "valid" =>
               /\ boot
               /\ \A p \in 0 .. PagesOf(kind, Cylinders) - 1 :
                     img'[At(kind, Cylinders, Heads(d) + p)]
                       = PageFor(kind, Cylinders, Taken(kind, Cylinders, d), p)
               /\ d /\ "cache" \notin failed => img'[At(kind, Cylinders, 1)] = Cache
      BY <1>1, <1>7, <2>2, <3>3
    <3>5. QED BY <1>1, <1>5, <3>4 DEF HomeOK
  <2>3. CASE c = Cylinders /\ b # Home
    <3>1. img'[Home] = img[Home]
      BY <1>8, <2>3
    <3> SUFFICES ASSUME IsRoot(Home) PROVE HomeOK'
      BY <1>5, <3>1 DEF HomeOK, IsRoot
    <3>2. PICK x \in BOOLEAN :
             \/ \E flag \in {"invalid", "valid"} : img[Home] = RootMade(kind, Cylinders, x, flag)
             \/ img[Home] = Root(<<>>, ExtensionOf(kind, Cylinders, x), "invalid")
      BY DEF Inv, HomeOK
    <3>3. img'[Home].bmFlag # "valid"
      BY <1>1, <3>1
    <3>4. QED BY <1>5, <3>1, <3>2, <3>3 DEF HomeOK
  <2>4. QED BY <2>1, <2>2, <2>3
<1>12. BlankOK'
  <2> SUFFICES ASSUME OnePage, blank, NEW a \in BOOLEAN
               PROVE  LET x == At(kind, Cylinders, Heads(a)) IN
                      img'[x].is = "page" =>
                         \/ img'[x] = Page({})
                         \/ img'[x] = PageFor(kind, Cylinders, Taken(kind, Cylinders, a), 0)
    BY DEF BlankOK
  <2> DEFINE x == At(kind, Cylinders, Heads(a))
  <2>1. x \in DOMAIN img /\ x # Home
    <3>1. /\ kind \in Kinds /\ Cylinders \in Nat /\ Cylinders >= Cylinders
          /\ BlocksOf(kind, Cylinders) \subseteq DOMAIN img
      BY <1>1, ImageFacts
    <3>2. 0 \in 0 .. PagesOf(kind, Cylinders) - 1 /\ Heads(a) + 0 = Heads(a)
      BY <3>1, Geometry DEF Heads
    <3>3. QED BY <1>5, <3>1, <3>2, SectorsAre
  <2>2. CASE x # b
    <3>1. img'[x] = img[x]
      BY <1>4, <2>1, <2>2
    <3>2. QED BY <3>1 DEF Inv, BlankOK
  <2>3. CASE x = b
    <3> SUFFICES ASSUME e.is = "page" PROVE e = PageFor(kind, Cylinders, Taken(kind, Cylinders, a), 0)
      BY <1>4, <2>1, <2>3
    <3>1. b # RootOf(kind, c)
      BY <1>2 DEF Root, RootMade
    <3>2. PICK p \in 0 .. PagesOf(kind, c) - 1 :
             b = At(kind, c, Heads(d) + p) /\ e = PageFor(kind, c, Taken(kind, c, d), p)
      BY <1>2, <3>1
    <3>3. c = Cylinders /\ d = a /\ p = 0
      BY <1>1, <2>3, <3>2, PagesApart
    <3>4. QED BY <3>2, <3>3
  <2>4. QED BY <2>2, <2>3
<1>13. QED
  BY <1>3, <1>10, <1>11, <1>12

LEMMA StillMaking ==
  ASSUME Inv, pc \in Making, UNCHANGED <<cyls, dev, vol>>, pc' \in Making \cup {"idle"},
         new'.cylinders = new.cylinders
  PROVE  DeviceOK'
<1>1. dev = Bare(new.cylinders) /\ vol = NoVolume
  BY MakingIs
<1>2. dev # NoDevice /\ dev # WithVolume
  BY <1>1 DEF Bare, NoDevice, WithVolume
<1>3. dev \in {NoDevice, WithVolume, Bare(cyls), Bare(Cylinders)}
  BY DEF Inv, DeviceOK
<1>4. pc' \in Phases /\ pc' \notin {"install", "sum"}
  BY DEF Making, Phases
<1>5. QED
  BY <1>1, <1>2, <1>3, <1>4 DEF DeviceOK

\* The volume under construction, and what there is in the image of it.
LEMMA NewIs ==
  ASSUME Inv, pc \in Making
  PROVE  LET c == new.cylinders
             d == new.dircache
         IN
         /\ kind \in Kinds /\ c \in Nat /\ c >= Cylinders /\ d \in BOOLEAN
         /\ new = [cylinders |-> c, dircache |-> d, free |-> new.free, blkList |-> new.blkList,
                   sectList |-> new.sectList, page |-> new.page]
         /\ pc # "boot" =>
               /\ new.blkList[1] = RootOf(kind, c)
               /\ d => new.blkList[2] = At(kind, c, 1)
         /\ RootBlock(c) = RootOf(kind, c) /\ BitmapSize(c) = PagesOf(kind, c)
         /\ Blocks(c) = BlocksOf(kind, c)
         /\ RootOf(kind, c) \in DOMAIN img /\ At(kind, c, 1) \in DOMAIN img
         /\ At(kind, c, 1) # RootOf(kind, c)
<1> DEFINE c == new.cylinders
           d == new.dircache
<1>1. /\ kind \in Kinds /\ c \in Nat /\ c >= Cylinders /\ d \in BOOLEAN
      /\ RootOf(kind, c) \in DOMAIN img /\ At(kind, c, 1) \in DOMAIN img
      /\ At(kind, c, 1) # RootOf(kind, c)
  <2>1. c \in {cyls, Cylinders} /\ d \in BOOLEAN
    BY MakingIs
  <2>2. QED BY <2>1, ImageFacts DEF Inv
<1>2. new = [cylinders |-> c, dircache |-> d, free |-> new.free, blkList |-> new.blkList,
             sectList |-> new.sectList, page |-> new.page]
  BY DEF Inv, NewOK
<1>3. ASSUME pc # "boot"
      PROVE  new.blkList[1] = RootOf(kind, c) /\ (d => new.blkList[2] = At(kind, c, 1))
  <2>1. new.blkList = Stretch(kind, c, 0, Heads(d))
    BY <1>3 DEF Inv, NewOK
  <2>2. /\ 1 \in 1 .. Heads(d) /\ (d => 2 \in 1 .. Heads(d)) /\ 0 + 1 - 1 = 0 /\ 0 + 2 - 1 = 1
        /\ At(kind, c, 0) = RootOf(kind, c)
    BY <1>1, AtIs DEF Heads
  <2>3. QED BY <2>1, <2>2 DEF Stretch
<1>4. RootBlock(c) = RootOf(kind, c) /\ BitmapSize(c) = PagesOf(kind, c) /\ Blocks(c) = BlocksOf(kind, c)
  BY <1>1, GeometryIs
<1>5. QED
  BY <1>1, <1>2, <1>3, <1>4

----------------------------------------------------------------------------
(* The writes.                                                              *)

LEMMA BootStep ==
  ASSUME Inv, WriteBoot
  PROVE  Inv'
<1> DEFINE c == new.cylinders
           d == new.dircache
           h == Heads(d)
           B == WithBlkList(Blocks(c))
<1>1. pc = "boot" /\ pc \in Making /\ boot' = TRUE /\ pc' = IF d THEN "cache" ELSE "root"
  BY DEF WriteBoot, Goes, Making, Phases
<1>2. new' = B /\ UNCHANGED <<kind, cyls, blank, img, dev, vol, rc, failed>>
  BY DEF WriteBoot, Goes
<1>3. /\ kind \in Kinds /\ c \in Nat /\ c >= Cylinders /\ d \in BOOLEAN
      /\ new = [cylinders |-> c, dircache |-> d, free |-> new.free, blkList |-> new.blkList,
                sectList |-> new.sectList, page |-> new.page]
      /\ Blocks(c) = BlocksOf(kind, c) /\ new.page = 0
  BY <1>1, NewIs DEF Inv, NewOK
<1>4. h \in Nat /\ 0 + h <= NBlocks(kind, c) /\ 0 + h = h
  <2>1. h \in 1 .. 2 /\ NBlocks(kind, c) \in Nat /\ NBlocks(kind, c) >= 4
    BY <1>3, Geometry DEF Heads, NBlocks
  <2>2. QED BY <2>1
<1>5. /\ BlocksOf(kind, c) = Further(kind, c, 0)
      /\ Nearest(Further(kind, c, 0), h) = Stretch(kind, c, 0, h)
      /\ Further(kind, c, 0) \ ToSet(Stretch(kind, c, 0, h)) = Further(kind, c, h)
  BY <1>3, <1>4, NearestIs, RestIs
<1>6. B = [new EXCEPT !.blkList = Stretch(kind, c, 0, h), !.free = Further(kind, c, h)]
  BY <1>3, <1>5 DEF WithBlkList, Heads
<1>7. B = [cylinders |-> c, dircache |-> d, free |-> Further(kind, c, h),
           blkList |-> Stretch(kind, c, 0, h), sectList |-> new.sectList, page |-> 0]
  BY <1>3, <1>6
<1>8. new'.cylinders = c /\ c \in {cyls, Cylinders}
  BY <1>1, <1>2, <1>7, MakingIs
<1>9. DeviceOK'
  BY <1>1, <1>2, <1>8, StillMaking DEF Making, Phases
<1>10. NewOK'
  <2> HIDE DEF B
  <2>1. /\ new'.cylinders = c /\ new'.dircache = d /\ new'.free = Further(kind, c, h)
        /\ new'.blkList = Stretch(kind, c, 0, h) /\ new'.sectList = new.sectList /\ new'.page = 0
        /\ new' = [cylinders |-> new'.cylinders, dircache |-> new'.dircache, free |-> new'.free,
                   blkList |-> new'.blkList, sectList |-> new'.sectList, page |-> new'.page]
    BY <1>2, <1>7
  <2>2. pc' \notin AfterRoot
    BY <1>1 DEF AfterRoot
  <2>3. QED BY <1>1, <1>2, <1>3, <1>8, <2>1, <2>2 DEF NewOK
<1>11. WrittenOK'
  <2>1. new'.dircache = d
    BY <1>2, <1>7
  <2>2. QED BY <1>1, <2>1 DEF WrittenOK, AfterRoot
<1>12. ImageOK' /\ HomeOK' /\ BlankOK'
  BY <1>1, <1>2, SameImage
<1>13. NothingMissed'
  <2>1. ~(IsRoot(Home) /\ img[Home].bmFlag = "valid")
    BY <1>1, MakingIs
  <2>2. QED BY <1>2, <2>1 DEF Inv, NothingMissed, IsRoot, Home
<1>14. QED
  BY <1>9, <1>10, <1>11, <1>12, <1>13 DEF Inv

LEMMA CacheStep ==
  ASSUME Inv, WriteCache
  PROVE  Inv'
<1> DEFINE c == new.cylinders
           d == new.dircache
<1>1. pc = "cache" /\ pc \in Making \ {"boot", "mount"} /\ pc' = "root" /\ new' = new
  BY DEF WriteCache, Goes, Making, Phases
<1>2. UNCHANGED <<kind, cyls, blank, boot, dev, vol, rc, failed>>
  BY DEF WriteCache, Goes
<1>3. d /\ new.blkList[2] = At(kind, c, 1) /\ At(kind, c, 1) \in DOMAIN img
  <2>1. d
    BY <1>1 DEF Inv, NewOK
  <2>2. QED BY <1>1, <2>1, NewIs
<1>4. img' = [img EXCEPT ![At(kind, c, 1)] = Cache]
  BY <1>3 DEF WriteCache, Writes
<1>5. Written(c, d, At(kind, c, 1), Cache)
  BY DEF Written
<1>6. ImageOK' /\ HomeOK' /\ BlankOK' /\ NothingMissed'
  BY <1>1, <1>2, <1>4, <1>5, WriteKeeps
<1>7. DeviceOK'
  BY <1>1, <1>2, StillMaking DEF Making, Phases
<1>8. NewOK'
  BY <1>1, <1>2 DEF Inv, NewOK, Making, Phases, AfterRoot
<1>9. WrittenOK'
  <2>1. img'[At(kind, c, 1)] = Cache
    BY <1>3, <1>4
  <2>2. QED BY <1>1, <1>2, <2>1 DEF WrittenOK
<1>10. QED
  BY <1>6, <1>7, <1>8, <1>9 DEF Inv

\* The volume has room for its pages: adfWriteNewBitmap finds the blocks.
LEMMA RoomForPages ==
  ASSUME Inv, pc = "root"
  PROVE  /\ Cardinality(new.free) >= BitmapSize(new.cylinders)
         /\ BitmapSize(new.cylinders) = PagesOf(kind, new.cylinders)
<1> DEFINE c == new.cylinders
           d == new.dircache
<1>1. /\ kind \in Kinds /\ c \in Nat /\ c >= Cylinders /\ d \in BOOLEAN
      /\ BitmapSize(c) = PagesOf(kind, c)
  BY NewIs DEF Making, Phases
<1>2. new.free = Further(kind, c, Heads(d))
  BY DEF Inv, NewOK
<1> HIDE DEF c, d
<1>3. /\ Heads(d) \in Nat /\ PagesOf(kind, c) \in Nat /\ NBlocks(kind, c) \in Nat
      /\ Heads(d) + PagesOf(kind, c) <= NBlocks(kind, c)
  <2>1. /\ Heads(d) \in 1 .. 2 /\ PagesOf(kind, c) \in Nat
        /\ Taken(kind, c, d) = Heads(d) + PagesOf(kind, c)
        /\ Taken(kind, c, d) <= NBlocks(kind, c)
    BY <1>1, SectorsAre
  <2>2. NBlocks(kind, c) \in Nat
    BY <1>1, Geometry
  <2>3. QED BY <2>1, <2>2
<1>4. Cardinality(new.free) = NBlocks(kind, c) - Heads(d)
  <2>1. Cardinality(Further(kind, c, Heads(d))) = NBlocks(kind, c) - Heads(d)
    BY <1>1, <1>3, RestIs
  <2>2. QED BY <1>2, <2>1
<1>5. Cardinality(new.free) >= PagesOf(kind, c)
  BY <1>3, <1>4
<1>6. QED
  BY <1>1, <1>5 DEF c

LEMMA RootStep ==
  ASSUME Inv, WriteRoot
  PROVE  Inv' /\ pc' = "bmPages"
<1> DEFINE c == new.cylinders
           d == new.dircache
           h == Heads(d)
           m == PagesOf(kind, c)
           r == RootOf(kind, c)
           B == WithSectList(m)
<1>1. pc = "root" /\ pc \in Making \ {"boot", "mount"}
  BY DEF WriteRoot, Making, Phases
<1>2. /\ kind \in Kinds /\ c \in Nat /\ c >= Cylinders /\ d \in BOOLEAN
      /\ new = [cylinders |-> c, dircache |-> d, free |-> new.free, blkList |-> new.blkList,
                sectList |-> new.sectList, page |-> new.page]
      /\ new.blkList[1] = r /\ (d => new.blkList[2] = At(kind, c, 1))
      /\ r \in DOMAIN img /\ At(kind, c, 1) \in DOMAIN img /\ At(kind, c, 1) # r
  BY <1>1, NewIs
<1>3. new.free = Further(kind, c, h) /\ new.page = 0 /\ new.blkList = Stretch(kind, c, 0, h)
      /\ c \in {cyls, Cylinders} /\ boot
  BY <1>1, MakingIs DEF Inv, NewOK
<1>4. ~(Cardinality(new.free) < m) /\ BitmapSize(c) = m
  <2>1. Cardinality(new.free) >= m /\ BitmapSize(c) = m
    BY <1>1, RoomForPages
  <2>2. m \in Nat /\ Cardinality(new.free) \in Nat
    <3>1. h \in Nat /\ h + 0 <= NBlocks(kind, c) /\ 0 \in Nat /\ m \in Nat
      <4>1. h \in 1 .. 2 /\ NBlocks(kind, c) \in Nat /\ NBlocks(kind, c) >= 4 /\ m \in Nat
        BY <1>2, Geometry DEF Heads, NBlocks
      <4>2. QED BY <4>1
    <3>2. IsFiniteSet(new.free)
      BY <1>2, <1>3, <3>1, RestIs
    <3>3. QED BY <3>1, <3>2, FS_CardinalityType
  <2>3. QED BY <2>1, <2>2
<1>5. Extension = ExtensionOf(kind, c, d)
  BY <1>2 DEF Extension, ExtensionOf
<1>6. /\ img' = [img EXCEPT ![r] = Root(<<>>, ExtensionOf(kind, c, d), "invalid")]
      /\ pc' = "bmPages" /\ new' = B
      /\ UNCHANGED <<kind, cyls, blank, boot, dev, vol, rc, failed>>
  BY <1>2, <1>4, <1>5 DEF WriteRoot, Writes, Goes
<1>7. Written(c, d, r, Root(<<>>, ExtensionOf(kind, c, d), "invalid"))
  BY DEF Written
<1>8. ImageOK' /\ HomeOK' /\ BlankOK' /\ NothingMissed'
  BY <1>1, <1>6, <1>7, WriteKeeps
<1>9. h \in Nat /\ m \in Nat /\ h + m <= NBlocks(kind, c)
  BY <1>2, SectorsAre
<1>10. /\ Nearest(Further(kind, c, h), m) = Stretch(kind, c, h, m)
       /\ Further(kind, c, h) \ ToSet(Stretch(kind, c, h, m)) = Further(kind, c, h + m)
  BY <1>2, <1>9, NearestIs, RestIs
<1>11. B = [cylinders |-> c, dircache |-> d, free |-> Further(kind, c, Taken(kind, c, d)),
            blkList |-> new.blkList, sectList |-> Sectors(kind, c, d), page |-> 0]
  <2>1. B = [new EXCEPT !.sectList = Stretch(kind, c, h, m), !.free = Further(kind, c, h + m)]
    BY <1>3, <1>10 DEF WithSectList
  <2>2. QED BY <1>2, <1>3, <2>1 DEF Sectors, Taken
<1> HIDE DEF B
<1>12. /\ new'.cylinders = c /\ new'.dircache = d /\ new'.page = 0
       /\ new'.free = Further(kind, c, Taken(kind, c, d))
       /\ new'.blkList = Stretch(kind, c, 0, h) /\ new'.sectList = Sectors(kind, c, d)
       /\ new' = [cylinders |-> new'.cylinders, dircache |-> new'.dircache, free |-> new'.free,
                  blkList |-> new'.blkList, sectList |-> new'.sectList, page |-> new'.page]
  BY <1>3, <1>6, <1>11
<1>13. DeviceOK'
  BY <1>1, <1>6, <1>12, StillMaking DEF Making, Phases
<1>14. NewOK'
  BY <1>2, <1>3, <1>6, <1>12 DEF NewOK
<1>15. WrittenOK'
  <2>1. img'[r] = Root(<<>>, ExtensionOf(kind, c, d), "invalid") /\ img'[At(kind, c, 1)] = img[At(kind, c, 1)]
    BY <1>2, <1>6
  <2>2. d /\ "cache" \notin failed => img[At(kind, c, 1)] = Cache
    BY <1>1 DEF Inv, WrittenOK
  <2>3. QED BY <1>6, <1>12, <2>1, <2>2 DEF WrittenOK
<1>16. QED
  BY <1>6, <1>8, <1>13, <1>14, <1>15 DEF Inv

LEMMA BmPagesStep ==
  ASSUME Inv, WriteBmPages
  PROVE  Inv' /\ pc' = "invalid"
<1> DEFINE c == new.cylinders
           d == new.dircache
           r == RootOf(kind, c)
<1>1. pc = "bmPages" /\ pc \in Making \ {"boot", "mount"} /\ pc \in AfterRoot
  BY DEF WriteBmPages, Making, Phases, AfterRoot
<1>2. /\ RootBlock(c) = r /\ r \in DOMAIN img /\ At(kind, c, 1) \in DOMAIN img
      /\ At(kind, c, 1) # r
  BY <1>1, NewIs
<1>3. img[r] = Root(<<>>, ExtensionOf(kind, c, d), "invalid") /\ new.sectList = Sectors(kind, c, d)
  BY <1>1 DEF Inv, WrittenOK, NewOK
<1>4. IsRoot(r) /\ [img[r] EXCEPT !.bmPages = new.sectList] = RootMade(kind, c, d, "invalid")
  BY <1>3 DEF IsRoot, Root, RootMade
<1>5. /\ img' = [img EXCEPT ![r] = RootMade(kind, c, d, "invalid")]
      /\ pc' = "invalid" /\ new' = new
      /\ UNCHANGED <<kind, cyls, blank, boot, dev, vol, rc, failed>>
  BY <1>2, <1>4 DEF WriteBmPages, Writes, Goes
<1>6. Written(c, d, r, RootMade(kind, c, d, "invalid"))
  BY DEF Written
<1>7. ImageOK' /\ HomeOK' /\ BlankOK' /\ NothingMissed'
  BY <1>1, <1>5, <1>6, WriteKeeps
<1>8. DeviceOK'
  BY <1>1, <1>5, StillMaking DEF Making, Phases
<1>9. NewOK'
  BY <1>1, <1>5 DEF Inv, NewOK, Making, Phases, AfterRoot
<1>10. WrittenOK'
  <2>1. img'[r] = RootMade(kind, c, d, "invalid") /\ img'[At(kind, c, 1)] = img[At(kind, c, 1)]
    BY <1>2, <1>5
  <2>2. QED BY <1>1, <1>5, <2>1 DEF Inv, WrittenOK
<1>11. QED
  BY <1>5, <1>7, <1>8, <1>9, <1>10 DEF Inv

LEMMA InvalidStep ==
  ASSUME Inv, WriteInvalid
  PROVE  Inv'
<1> DEFINE c == new.cylinders
           d == new.dircache
           r == RootOf(kind, c)
<1>1. pc = "invalid" /\ pc \in Making \ {"boot", "mount"} /\ pc \in AfterRoot
  BY DEF WriteInvalid, Making, Phases, AfterRoot
<1>2. /\ RootBlock(c) = r /\ r \in DOMAIN img /\ At(kind, c, 1) \in DOMAIN img
      /\ At(kind, c, 1) # r
  BY <1>1, NewIs
<1>3. img[r] = RootMade(kind, c, d, "invalid")
  BY <1>1 DEF Inv, WrittenOK
<1>4. [img[r] EXCEPT !.bmFlag = "invalid"] = RootMade(kind, c, d, "invalid")
  BY <1>3 DEF Root, RootMade
<1>5. /\ img' = [img EXCEPT ![r] = RootMade(kind, c, d, "invalid")]
      /\ pc' = "page" /\ new' = new
      /\ UNCHANGED <<kind, cyls, blank, boot, dev, vol, rc, failed>>
  BY <1>2, <1>4 DEF WriteInvalid, WithFlag, Writes, Goes
<1>6. Written(c, d, r, RootMade(kind, c, d, "invalid"))
  BY DEF Written
<1>7. ImageOK' /\ HomeOK' /\ BlankOK' /\ NothingMissed'
  BY <1>1, <1>5, <1>6, WriteKeeps
<1>8. DeviceOK'
  BY <1>1, <1>5, StillMaking DEF Making, Phases
<1>9. NewOK'
  BY <1>1, <1>5 DEF Inv, NewOK, Making, Phases, AfterRoot
<1>10. WrittenOK'
  <2>1. img'[r] = RootMade(kind, c, d, "invalid") /\ img'[At(kind, c, 1)] = img[At(kind, c, 1)]
    BY <1>2, <1>5
  <2>2. new.page = 0
    BY <1>1 DEF Inv, NewOK
  <2>3. PagesOf(kind, c) \in Nat \ {0}
    BY <1>1, NewIs, SectorsAre
  <2>4. 0 \in 0 .. PagesOf(kind, c) - 1 /\ \A p \in 0 .. PagesOf(kind, c) - 1 : ~(p < 0)
    BY <2>3
  <2>5. d /\ "cache" \notin failed => img[At(kind, c, 1)] = Cache
    BY <1>1 DEF Inv, WrittenOK
  <2>6. QED BY <1>1, <1>5, <2>1, <2>2, <2>4, <2>5 DEF WrittenOK
<1>11. QED
  BY <1>7, <1>8, <1>9, <1>10 DEF Inv

LEMMA PageStep ==
  ASSUME Inv, WritePage
  PROVE  Inv'
<1> DEFINE c == new.cylinders
           d == new.dircache
           h == Heads(d)
           m == PagesOf(kind, c)
           r == RootOf(kind, c)
           p == new.page
           b == At(kind, c, h + p)
           e == PageFor(kind, c, Taken(kind, c, d), p)
           B == [new EXCEPT !.page = p + 1]
<1>1. pc = "page" /\ pc \in Making \ {"boot", "mount"} /\ pc \in AfterRoot
  BY DEF WritePage, Making, Phases, AfterRoot
<1>2. /\ kind \in Kinds /\ c \in Nat /\ c >= Cylinders /\ d \in BOOLEAN
      /\ new = [cylinders |-> c, dircache |-> d, free |-> new.free, blkList |-> new.blkList,
                sectList |-> new.sectList, page |-> new.page]
      /\ r \in DOMAIN img /\ At(kind, c, 1) \in DOMAIN img /\ At(kind, c, 1) # r
      /\ BlocksOf(kind, c) \subseteq DOMAIN img
  <2>1. BlocksOf(kind, c) \subseteq DOMAIN img
    BY <1>1, MakingIs, ImageFacts DEF Inv
  <2>2. QED BY <1>1, <2>1, NewIs
<1>3. /\ new.sectList = Sectors(kind, c, d) /\ new.free = Further(kind, c, Taken(kind, c, d))
      /\ p \in 0 .. m - 1 /\ img[r] = RootMade(kind, c, d, "invalid")
      /\ d /\ "cache" \notin failed => img[At(kind, c, 1)] = Cache
      /\ \A q \in 0 .. m - 1 : q < p =>
            img[At(kind, c, h + q)] = PageFor(kind, c, Taken(kind, c, d), q)
  BY <1>1 DEF Inv, NewOK, WrittenOK
<1>4. /\ h \in 1 .. 2 /\ m \in Nat /\ Len(new.sectList) = m /\ new.sectList[p + 1] = b
      /\ \A q \in 0 .. m - 1 :
            /\ At(kind, c, h + q) \in BlocksOf(kind, c) \ {r}
            /\ d => At(kind, c, h + q) # At(kind, c, 1)
            /\ TurnOf(kind, c, At(kind, c, h + q)) = h + q
  BY <1>2, <1>3, SectorsAre
<1>5. \A q \in 0 .. m - 1 : q # p => At(kind, c, h + q) # b
  BY <1>3, <1>4
<1>6. Page({BitOf(x) : x \in {y \in new.free : PageOf(y) = p}}) = e
  BY <1>3 DEF PageFor, BitsOf
<1>7. /\ img' = [img EXCEPT ![b] = e] /\ new' = B
      /\ pc' = (IF p + 1 < m THEN "page" ELSE "valid")
      /\ UNCHANGED <<kind, cyls, blank, boot, dev, vol, rc, failed>>
  BY <1>4, <1>6 DEF WritePage, Writes, Goes
<1>8. Written(c, d, b, e)
  BY <1>3 DEF Written
<1>9. ImageOK' /\ HomeOK' /\ BlankOK' /\ NothingMissed'
  <2> HIDE DEF c, d, b, e
  <2>1. Written(new.cylinders, new.dircache, b, e)
    BY <1>8 DEF c, d
  <2>2. QED BY <1>1, <1>7, <2>1, WriteKeeps
<1>10. /\ new'.cylinders = c /\ new'.dircache = d /\ new'.page = p + 1
       /\ new'.free = new.free /\ new'.blkList = new.blkList /\ new'.sectList = new.sectList
       /\ new' = [cylinders |-> new'.cylinders, dircache |-> new'.dircache, free |-> new'.free,
                  blkList |-> new'.blkList, sectList |-> new'.sectList, page |-> new'.page]
  BY <1>2, <1>7
<1>11. DeviceOK'
  BY <1>1, <1>7, <1>10, StillMaking DEF Making, Phases
<1>12. NewOK'
  <2>1. pc' \in Making \ {"boot"} /\ pc' \in AfterRoot /\ pc' \notin {"boot", "cache", "root", "bmPages", "invalid"}
    BY <1>7 DEF Making, Phases, AfterRoot
  <2>2. boot /\ new.blkList = Stretch(kind, c, 0, h) /\ c \in {cyls, Cylinders}
    BY <1>1 DEF Inv, NewOK
  <2> HIDE DEF B
  <2>3. QED BY <1>2, <1>3, <1>7, <1>10, <2>1, <2>2 DEF NewOK
<1>13. WrittenOK'
  <2>1. /\ img'[b] = e /\ \A x \in DOMAIN img : x # b => img'[x] = img[x]
        /\ r # b /\ (d => At(kind, c, 1) # b)
    BY <1>2, <1>3, <1>4, <1>7
  <2>2. img'[r] = RootMade(kind, c, d, "invalid")
    BY <1>2, <1>3, <2>1
  <2>3. d /\ "cache" \notin failed => img'[At(kind, c, 1)] = Cache
    BY <1>2, <1>3, <2>1
  <2>4. ASSUME NEW q \in 0 .. m - 1, q < p + 1
        PROVE  img'[At(kind, c, h + q)] = PageFor(kind, c, Taken(kind, c, d), q)
    <3>1. CASE q = p
      BY <2>1, <3>1
    <3>2. CASE q # p
      <4>1. q < p
        BY <1>3, <2>4, <3>2
      <4>2. At(kind, c, h + q) \in DOMAIN img /\ At(kind, c, h + q) # b
        BY <1>2, <1>4, <1>5, <3>2
      <4>3. QED BY <1>3, <2>1, <4>1, <4>2
    <3>3. QED BY <3>1, <3>2
  <2>5. pc' # "page" => \A q \in 0 .. m - 1 : q < p + 1
    BY <1>3, <1>4, <1>7
  <2>6. pc' = "page" => p + 1 \in 0 .. m - 1
    BY <1>3, <1>4, <1>7
  <2>7. pc' \in {"page", "valid"}
    BY <1>7
  <2> HIDE DEF B, b, e
  <2>8. QED BY <1>7, <1>10, <2>2, <2>3, <2>4, <2>5, <2>6, <2>7 DEF WrittenOK
<1>14. QED
  BY <1>9, <1>11, <1>12, <1>13 DEF Inv

LEMMA ValidStep ==
  ASSUME Inv, WriteValid
  PROVE  Inv'
<1> DEFINE c == new.cylinders
           d == new.dircache
           r == RootOf(kind, c)
<1>1. pc = "valid" /\ pc \in Making \ {"boot", "mount"} /\ pc \in AfterRoot
  BY DEF WriteValid, Making, Phases, AfterRoot
<1>2. /\ RootBlock(c) = r /\ r \in DOMAIN img /\ At(kind, c, 1) \in DOMAIN img
      /\ At(kind, c, 1) # r /\ kind \in Kinds /\ c \in Nat /\ c >= Cylinders /\ d \in BOOLEAN
  BY <1>1, NewIs
<1>3. /\ img[r] = RootMade(kind, c, d, "invalid")
      /\ \A p \in 0 .. PagesOf(kind, c) - 1 :
            img[At(kind, c, Heads(d) + p)] = PageFor(kind, c, Taken(kind, c, d), p)
      /\ d /\ "cache" \notin failed => img[At(kind, c, 1)] = Cache
  BY <1>1 DEF Inv, WrittenOK
<1>4. [img[r] EXCEPT !.bmFlag = "valid"] = RootMade(kind, c, d, "valid")
  BY <1>3 DEF Root, RootMade
<1>5. /\ img' = [img EXCEPT ![r] = RootMade(kind, c, d, "valid")]
      /\ pc' = "mount" /\ new' = new
      /\ UNCHANGED <<kind, cyls, blank, boot, dev, vol, rc, failed>>
  BY <1>2, <1>4 DEF WriteValid, WithFlag, Writes, Goes
<1>6. Written(c, d, r, RootMade(kind, c, d, "valid"))
  BY <1>3, <1>5 DEF Written
<1>7. ImageOK' /\ HomeOK' /\ BlankOK' /\ NothingMissed'
  BY <1>1, <1>5, <1>6, WriteKeeps
<1>8. DeviceOK'
  BY <1>1, <1>5, StillMaking DEF Making, Phases
<1>9. NewOK'
  BY <1>1, <1>5 DEF Inv, NewOK, Making, Phases, AfterRoot
<1>10. WrittenOK'
  <2>1. img'[r] = RootMade(kind, c, d, "valid") /\ img'[At(kind, c, 1)] = img[At(kind, c, 1)]
    BY <1>2, <1>5
  <2>2. \A p \in 0 .. PagesOf(kind, c) - 1 :
           img'[At(kind, c, Heads(d) + p)] = img[At(kind, c, Heads(d) + p)]
    <3>1. \A p \in 0 .. PagesOf(kind, c) - 1 : At(kind, c, Heads(d) + p) \in BlocksOf(kind, c) \ {r}
      BY <1>2, SectorsAre
    <3>2. BlocksOf(kind, c) \subseteq DOMAIN img
      BY <1>1, MakingIs, ImageFacts DEF Inv
    <3>3. QED BY <1>2, <1>5, <3>1, <3>2
  <2>3. QED BY <1>1, <1>3, <1>5, <2>1, <2>2 DEF WrittenOK
<1>11. QED
  BY <1>7, <1>8, <1>9, <1>10 DEF Inv

----------------------------------------------------------------------------
(* The other steps.                                                         *)

\* What mounting sees does not change with the device.
LEMMA SameMount ==
  ASSUME UNCHANGED <<kind, img, boot>>
  PROVE  adfMount' = adfMount /\ adfMountFlop' = adfMountFlop /\ Home' = Home
         /\ \A b : IsRoot(b)' = IsRoot(b)
  BY DEF adfMount, adfReadBitmap, BlocksRead, Blocks, RootBlock, LastBlock, adfMountFlop, IsRoot, Home

\* After a step that ends a call, or that comes after the volume is made, there
\* is nothing under construction.
LEMMA NothingNew ==
  ASSUME Inv, UNCHANGED <<cyls, new>>, pc' \in {"idle", "install", "sum"}
  PROVE  NewOK' /\ WrittenOK'
<1>1. /\ pc' \notin {"boot", "cache", "root", "bmPages", "invalid"} /\ pc' \notin Making
      /\ pc' \notin AfterRoot /\ pc' \notin {"page", "valid", "mount"}
  BY DEF Making, Phases, AfterRoot
<1>2. NewOK'
  BY <1>1 DEF Inv, NewOK
<1>3. WrittenOK'
  BY <1>1 DEF WrittenOK, AfterRoot
<1>4. QED
  BY <1>2, <1>3

LEMMA MountStep ==
  ASSUME Inv, MountNew
  PROVE  /\ Inv'
         /\ pc' = "idle" => new.cylinders # Cylinders /\ dev' = Bare(Cylinders)
<1> DEFINE c == new.cylinders
<1>1. pc = "mount" /\ pc \in Making /\ pc \in AfterRoot
  BY DEF MountNew, Making, Phases, AfterRoot
<1>2. UNCHANGED <<kind, cyls, boot, img, blank, new, failed>>
  BY DEF MountNew, Goes, Fails
<1>3. /\ dev = Bare(c) /\ vol = NoVolume /\ Home = RootBlock(Cylinders)
      /\ c # Cylinders => ~IsRoot(Home)
      /\ c = Cylinders => IsRoot(Home)
  <2>1. dev = Bare(c) /\ vol = NoVolume /\ (c # Cylinders => ~IsRoot(Home))
    BY <1>1, MakingIs
  <2>2. Home = RootBlock(Cylinders)
    BY ImageFacts DEF Inv
  <2>3. img[RootOf(kind, c)] = RootMade(kind, c, new.dircache, "valid")
    BY <1>1 DEF Inv, WrittenOK
  <2>4. c = Cylinders => IsRoot(Home)
    BY <2>3 DEF IsRoot, Home, RootMade, Root
  <2>5. QED BY <2>1, <2>2, <2>4
<1>4. ImageOK' /\ HomeOK' /\ BlankOK'
  BY <1>2, SameImage
<1>5. adfMount' = adfMount /\ Home' = Home /\ (IsRoot(Home)' <=> IsRoot(Home)) /\ img' = img
  BY <1>2, SameMount
<1>6. CASE IsRoot(Home)
  <2>1. dev' = WithVolume /\ vol' = adfMount /\ pc' = "install"
    BY <1>3, <1>6 DEF MountNew, adfMountFlop, Goes
  <2>2. DeviceOK'
    BY <1>5, <1>6, <2>1 DEF DeviceOK, Phases, Making, WithVolume, NoDevice
  <2>3. NothingMissed'
    BY <2>1 DEF NothingMissed, WithVolume
  <2>4. NewOK' /\ WrittenOK'
    BY <1>2, <2>1, NothingNew
  <2>5. QED BY <1>4, <2>1, <2>2, <2>3, <2>4 DEF Inv
<1>7. CASE ~IsRoot(Home)
  <2>1. dev' = [dev EXCEPT !.cylinders = Cylinders] /\ vol' = vol /\ pc' = "idle"
    BY <1>3, <1>7 DEF MountNew, adfMountFlop, Fails
  <2>2. dev' = Bare(Cylinders)
    BY <1>3, <2>1 DEF Bare
  <2>3. DeviceOK'
    <3>1. dev' # WithVolume /\ dev' # NoDevice
      BY <2>2 DEF NoDevice, Bare, WithVolume
    <3>2. WithVolume' = WithVolume /\ NoDevice' = NoDevice /\ Bare(Cylinders)' = Bare(Cylinders)
      BY DEF NoDevice, Bare, WithVolume
    <3>3. QED BY <1>3, <2>1, <2>2, <3>1, <3>2 DEF DeviceOK, Phases, Making
  <2>4. NothingMissed'
    BY <1>5, <1>7, <2>2 DEF NothingMissed, Bare
  <2>5. NewOK' /\ WrittenOK'
    BY <1>2, <2>1, NothingNew
  <2>6. c # Cylinders
    BY <1>3, <1>7
  <2>7. QED BY <1>4, <2>2, <2>3, <2>4, <2>5, <2>6 DEF Inv
<1>8. QED
  BY <1>6, <1>7

\* The boot code is installed: the volume is mounted.
LEMMA InstalledStep ==
  ASSUME Inv, pc \in {"install", "sum"}, pc' \in {"install", "sum", "idle"},
         UNCHANGED <<kind, cyls, blank, boot, img, dev, vol, new>>, failed \subseteq failed'
  PROVE  Inv'
<1>1. ImageOK' /\ HomeOK' /\ BlankOK'
  BY SameImage
<1>2. NewOK' /\ WrittenOK'
  BY NothingNew
<1>3. dev = WithVolume
  BY DEF Inv, DeviceOK
<1>4. DeviceOK'
  BY <1>3, SameMount DEF Inv, DeviceOK, Phases, Making, WithVolume, NoDevice
<1>5. NothingMissed'
  BY <1>3 DEF NothingMissed, WithVolume
<1>6. QED
  BY <1>1, <1>2, <1>4, <1>5 DEF Inv

LEMMA FailStep ==
  ASSUME Inv, WriteFails
  PROVE  Inv' /\ (pc' = "idle" => failed' # {})
<1>1. /\ pc \in Phases \ {"idle", "mount"} /\ failed' = failed \cup {pc}
      /\ boot' \in {boot, TRUE} /\ (pc # "boot" => boot' = boot)
      /\ UNCHANGED <<kind, cyls, blank, img, dev, vol, new>>
  BY DEF WriteFails, Fails, Inv, DeviceOK
<1>2. failed' # {} /\ failed \subseteq failed'
  BY <1>1
<1>3. CASE pc \in {"install", "sum"}
  <2>1. pc' \in {"sum", "idle"} /\ boot' = boot
    BY <1>1, <1>3 DEF WriteFails, Fails
  <2>2. QED BY <1>1, <1>2, <1>3, <2>1, InstalledStep
<1>4. CASE pc \in Making
  <2>1. ~(IsRoot(Home) /\ img[Home].bmFlag = "valid")
    BY <1>1, <1>4, MakingIs
  <2>2. ImageOK' /\ HomeOK' /\ BlankOK'
    BY <1>1, <2>1, SameImage
  <2>3. NothingMissed'
    <3>1. Home' = Home /\ (IsRoot(Home)' <=> IsRoot(Home))
      BY <1>1 DEF Home, IsRoot
    <3>2. QED BY <1>1, <2>1, <3>1 DEF Inv, NothingMissed
  <2>4. CASE pc = "cache"
    <3>1. pc' = "root" /\ "cache" \in failed'
      BY <1>1, <2>4 DEF WriteFails
    <3>2. DeviceOK'
      BY <1>1, <1>4, <3>1, StillMaking DEF Making, Phases
    <3>3. NewOK'
      BY <1>1, <2>4, <3>1 DEF Inv, NewOK, Making, Phases, AfterRoot
    <3>4. WrittenOK'
      BY <1>1, <3>1 DEF WrittenOK
    <3>5. QED BY <1>2, <2>2, <2>3, <3>2, <3>3, <3>4 DEF Inv
  <2>5. CASE pc # "cache"
    <3>1. pc' = "idle"
      BY <1>4, <2>5 DEF WriteFails, Fails, Making
    <3>2. DeviceOK'
      BY <1>1, <1>4, <3>1, StillMaking
    <3>3. NewOK' /\ WrittenOK'
      BY <1>1, <3>1, NothingNew
    <3>4. QED BY <1>2, <2>2, <2>3, <3>2, <3>3 DEF Inv
  <2>6. QED BY <2>4, <2>5
<1>5. QED
  BY <1>1, <1>3, <1>4 DEF Making

LEMMA OpenStep ==
  ASSUME Inv, open_adf
  PROVE  Inv'
<1>1. UNCHANGED <<kind, cyls, blank, boot, img, pc, new, failed>>
  BY DEF open_adf
<1>2. dev = NoDevice /\ pc = "idle"
  BY DEF Inv, DeviceOK, open_adf, WithVolume, Bare
<1>3. adfMount' = adfMount /\ Home' = Home /\ (IsRoot(Home)' <=> IsRoot(Home)) /\ img' = img
  BY <1>1, SameMount
<1>4. Home = RootBlock(Cylinders)
  BY ImageFacts DEF Inv
<1>5. IF IsRoot(Home) THEN dev' = WithVolume /\ vol' = adfMount ELSE dev' = Bare(cyls) /\ vol' = NoVolume
  BY <1>4 DEF open_adf, adfMountDev, adfMountFlop, adfOpenDev, Bare
<1>6. ImageOK' /\ HomeOK' /\ BlankOK'
  BY <1>1, SameImage
<1>7. NewOK' /\ WrittenOK'
  BY <1>1, <1>2, NothingNew
<1>8. DeviceOK'
  BY <1>1, <1>2, <1>3, <1>5 DEF DeviceOK, Phases, Making, WithVolume, NoDevice, Bare
<1>9. NothingMissed'
  BY <1>3, <1>5 DEF NothingMissed, WithVolume, Bare
<1>10. QED
  BY <1>6, <1>7, <1>8, <1>9 DEF Inv

LEMMA VanishStep ==
  ASSUME Inv, Vanish
  PROVE  Inv'
<1>1. /\ UNCHANGED <<kind, cyls, blank, boot, img, new, failed>>
      /\ dev' = NoDevice /\ vol' = NoVolume /\ pc' = "idle"
  BY DEF Vanish
<1>2. ImageOK' /\ HomeOK' /\ BlankOK'
  BY <1>1, SameImage
<1>3. NewOK' /\ WrittenOK'
  BY <1>1, NothingNew
<1>4. DeviceOK'
  BY <1>1 DEF DeviceOK, Phases, Making, NoDevice, WithVolume
<1>5. NothingMissed'
  BY <1>1 DEF NothingMissed, NoDevice
<1>6. QED
  BY <1>2, <1>3, <1>4, <1>5 DEF Inv

LEMMA FormatStep ==
  ASSUME Inv, NEW dircache \in BOOLEAN, adf_dev_format(dircache)
  PROVE  Inv'
<1>1. /\ UNCHANGED <<kind, cyls, blank, boot, img, dev, vol>>
      /\ dev.open /\ dev.nVol = 0 /\ pc = "idle" /\ pc' = "boot" /\ failed' = {}
      /\ new' = [cylinders |-> dev.cylinders, dircache |-> dircache,
                 free |-> {}, blkList |-> <<>>, sectList |-> <<>>, page |-> 0]
  BY DEF adf_dev_format
<1>2. dev = Bare(dev.cylinders) /\ dev.cylinders \in {cyls, Cylinders} /\ dev # NoDevice /\ vol = NoVolume
  BY <1>1 DEF Inv, DeviceOK, NoDevice, WithVolume, Bare
<1>3. ~(IsRoot(Home) /\ img[Home].bmFlag = "valid")
  BY <1>1 DEF Inv, NothingMissed
<1>4. ImageOK' /\ HomeOK' /\ BlankOK'
  BY <1>1, <1>3, SameImage
<1>5. DeviceOK'
  BY <1>1, <1>2 DEF Inv, DeviceOK, Phases, Making, Bare, WithVolume
<1>6. NewOK' /\ WrittenOK'
  BY <1>1, <1>2 DEF NewOK, WrittenOK, Making, Phases, AfterRoot
<1>7. NothingMissed'
  <2>1. Home' = Home /\ (IsRoot(Home)' <=> IsRoot(Home)) /\ img' = img
    BY <1>1 DEF Home, IsRoot
  <2>2. QED BY <1>1, <1>3, <2>1 DEF Inv, NothingMissed
<1>8. QED
  BY <1>4, <1>5, <1>6, <1>7 DEF Inv

LEMMA InitInv == Init => Inv
<1> SUFFICES ASSUME Init PROVE Inv
  OBVIOUS
<1>1. PICK left \in Leftovers : img = [b \in Blocks(cyls) |-> left] /\ blank = (left = Page({}))
  BY DEF Init
<1>2. /\ kind \in Kinds /\ cyls \in ImageCylinders[kind] /\ cyls \in Nat /\ cyls >= Cylinders
      /\ Cylinders \in Nat /\ boot \in BOOLEAN
  BY FormatAssumption DEF Init
<1>3. Blocks(cyls) = BlocksOf(kind, cyls)
  BY <1>2, GeometryIs
<1>4. ImageOK
  BY <1>1, <1>2, <1>3 DEF ImageOK
<1>5. \A c \in {cyls, Cylinders} : BlocksOf(kind, c) \subseteq DOMAIN img /\ RootOf(kind, c) \in DOMAIN img
  BY <1>4, ImageFacts
<1>6. \A b \in DOMAIN img : img[b] = left
  BY <1>1
<1>7. ~IsRoot(Home)
  BY <1>5, <1>6, FormatAssumption DEF Home, IsRoot
<1>8. /\ dev = NoDevice /\ vol = NoVolume /\ pc = "idle"
      /\ new = [cylinders |-> Cylinders, dircache |-> FALSE, free |-> {},
                blkList |-> <<>>, sectList |-> <<>>, page |-> 0]
  BY DEF Init
<1>9. DeviceOK /\ NewOK /\ WrittenOK
  BY <1>8 DEF DeviceOK, NewOK, WrittenOK, Making, Phases, AfterRoot, NoDevice, WithVolume
<1>10. NothingMissed /\ HomeOK
  BY <1>7 DEF NothingMissed, HomeOK
<1>11. BlankOK
  <2> SUFFICES ASSUME blank, NEW d \in BOOLEAN, OnePage
               PROVE  img[At(kind, Cylinders, Heads(d))] = Page({})
    BY DEF BlankOK
  <2>1. Heads(d) \in 1 .. 2 /\ Heads(d) \in 0 .. NBlocks(kind, Cylinders) - 1
    <3>1. NBlocks(kind, Cylinders) \in Nat /\ NBlocks(kind, Cylinders) >= 4 /\ Heads(d) \in 1 .. 2
      BY <1>2, Geometry DEF NBlocks, Heads
    <3>2. QED BY <3>1
  <2>2. At(kind, Cylinders, Heads(d)) \in DOMAIN img
    BY <1>2, <1>5, <2>1, AtIs
  <2>3. QED BY <1>1, <1>6, <2>2
<1>12. QED
  BY <1>4, <1>9, <1>10, <1>11 DEF Inv

----------------------------------------------------------------------------
(* The theorems.                                                            *)

LEMMA NextInv == Inv /\ [Next]_vars => Inv'
<1> SUFFICES ASSUME Inv, [Next]_vars PROVE Inv'
  OBVIOUS
<1>1. CASE open_adf
  BY <1>1, OpenStep
<1>2. CASE Vanish
  BY <1>2, VanishStep
<1>3. CASE \E dircache \in BOOLEAN : adf_dev_format(dircache)
  BY <1>3, FormatStep
<1>4. CASE WriteBoot \/ WriteCache \/ WriteRoot \/ WriteBmPages
  BY <1>4, BootStep, CacheStep, RootStep, BmPagesStep
<1>5. CASE WriteInvalid \/ WritePage \/ WriteValid \/ MountNew
  BY <1>5, InvalidStep, PageStep, ValidStep, MountStep
<1>6. CASE InstallBoot \/ WriteBootSum
  <2>1. /\ pc \in {"install", "sum"} /\ pc' \in {"install", "sum", "idle"}
        /\ UNCHANGED <<kind, cyls, blank, boot, img, dev, vol, new, failed>>
    BY <1>6 DEF InstallBoot, WriteBootSum, Goes
  <2>2. QED BY <2>1, InstalledStep
<1>7. CASE WriteFails
  BY <1>7, FailStep
<1>8. CASE UNCHANGED vars
  <2>1. UNCHANGED <<kind, cyls, boot, img, dev, vol, pc, new, failed, blank>>
    BY <1>8 DEF vars
  <2>2. ImageOK' /\ HomeOK' /\ BlankOK'
    BY <2>1, SameImage
  <2>3. adfMount' = adfMount /\ Home' = Home /\ (IsRoot(Home)' <=> IsRoot(Home))
    BY <2>1, SameMount
  <2>4. DeviceOK'
    BY <2>1, <2>3 DEF Inv, DeviceOK
  <2>5. NewOK' /\ WrittenOK'
    BY <2>1 DEF Inv, NewOK, WrittenOK
  <2>6. NothingMissed'
    BY <2>1, <2>3 DEF Inv, NothingMissed
  <2>7. QED BY <2>2, <2>4, <2>5, <2>6 DEF Inv
<1>9. QED
  BY <1>1, <1>2, <1>3, <1>4, <1>5, <1>6, <1>7, <1>8 DEF Next

\* Through any sequence of openings, formattings, refused writes and ends of the
\* process, at any write of adf_dev_format, what the image holds where mounting
\* looks for a volume is what formatting has put there.
THEOREM Invariance == Spec => []Inv
<1>1. QED
  BY InitInv, NextInv, PTL DEF Spec

\* Whatever the image held (but for a root block in its place) and whichever
\* earlier calls of adf_dev_format were refused or cut short: once the root
\* block's flag is valid, mounting finds a bitmap in which just the root, its
\* pages and its cache are taken.
THEOREM ValidFlagIsHonest == Spec => []ValidFlagMeansSound
<1>1. Inv => ValidFlagMeansSound
  BY HomeIsSound DEF Inv
<1>2. QED
  BY <1>1, Invariance, PTL

\* When a call ends with an error and the host has refused nothing, the image is
\* longer than the floppies that mounting knows, and the device has been left as
\* it would be opened on one of those: neither the room for the pages nor the
\* root block read back can fail it.
THEOREM FailuresHaveReasons == Spec => FailsForAReason
<1> DEFINE Reason ==
              pc # "idle" /\ pc' = "idle" /\ rc' = "error" /\ failed' = {} =>
                  /\ new.cylinders # Cylinders
                  /\ dev'.nVol = 0 /\ dev'.cylinders = Cylinders
<1>1. Inv /\ [Next]_vars => [Reason]_vars
  <2> SUFFICES ASSUME Inv, Next, pc # "idle", pc' = "idle", rc' = "error", failed' = {}
               PROVE  /\ new.cylinders # Cylinders
                      /\ dev'.nVol = 0 /\ dev'.cylinders = Cylinders
    OBVIOUS
  <2>1. ~open_adf /\ ~Vanish /\ ~WriteBootSum /\ ~InstallBoot
    BY DEF open_adf, Vanish, WriteBootSum, InstallBoot, Goes
  <2>2. ~\E dircache \in BOOLEAN : adf_dev_format(dircache)
    BY DEF adf_dev_format
  <2>3. ~WriteBoot /\ ~WriteCache /\ ~WriteInvalid /\ ~WriteValid /\ ~WritePage
    BY DEF WriteBoot, WriteCache, WriteInvalid, WriteValid, WritePage, Goes
  <2>4. ~WriteRoot /\ ~WriteBmPages
    BY RootStep, BmPagesStep
  <2>5. ~WriteFails
    BY FailStep
  <2>6. new.cylinders # Cylinders /\ dev' = Bare(Cylinders)
    BY <2>1, <2>2, <2>3, <2>4, <2>5, MountStep DEF Next
  <2>7. QED
    BY <2>6 DEF Bare
<1>2. QED
  BY <1>1, Invariance, PTL DEF Spec, FailsForAReason

\* On an image that was blank, with bitmaps of one page (as those of all
\* floppies are: a page has 127 words of 32 bits, more than a floppy has blocks),
\* a session on what a formatting cut short at any write has left hands out no block of the
\* volume's own.
THEOREM UnfinishedIsSafe ==
  ASSUME OnePage
  PROVE  Spec => []UnfinishedHandsOutNothingInUse
<1>1. Inv => UnfinishedHandsOutNothingInUse
  <2> SUFFICES ASSUME Inv, blank, vol # NoVolume
               PROVE  vol.free \cap Structure = {}
    BY DEF UnfinishedHandsOutNothingInUse
  <2> DEFINE c == Cylinders
             m == PagesOf(kind, c)
  <2>1. vol = adfMount /\ IsRoot(Home)
    BY DEF Inv, DeviceOK
  <2>2. /\ kind \in Kinds /\ c \in Nat /\ c >= Cylinders /\ Home = RootBlock(c)
        /\ c \in ImageCylinders[kind]
    BY ImageFacts, FormatAssumption DEF Inv, ImageOK
  <2>3. m = 1
    BY <2>2 DEF OnePage
  <2>4. CASE vol.free = {}
    BY <2>4
  <2>5. CASE vol.free # {}
    <3>1. boot /\ vol = adfReadBitmap(img[Home].bmPages)
      BY <2>1, <2>2, <2>5 DEF adfMount
    <3>2. /\ \A i \in DOMAIN img[Home].bmPages : img[img[Home].bmPages[i]].is = "page"
          /\ vol.free = BlocksRead(img[Home].bmPages)
      BY <2>5, <3>1 DEF adfReadBitmap, NoVolume
    <3>3. PICK d \in BOOLEAN :
              \/ \E flag \in {"invalid", "valid"} : img[Home] = RootMade(kind, c, d, flag)
              \/ img[Home] = Root(<<>>, ExtensionOf(kind, c, d), "invalid")
      BY <2>1 DEF Inv, HomeOK
    <3>4. ASSUME img[Home] = Root(<<>>, ExtensionOf(kind, c, d), "invalid") PROVE FALSE
      <4>1. Len(img[Home].bmPages) = 0
        BY <3>4 DEF Root
      <4>2. \A b \in Blocks(c) : ~(PageOf(b) < 0)
        <5>1. \A b \in BlocksOf(kind, c) : PageOf(b) \in Nat
          BY <2>2, PageBit
        <5>2. QED BY <2>2, <5>1, GeometryIs
      <4>3. QED BY <2>5, <3>2, <4>1, <4>2 DEF BlocksRead
    <3>5. PICK flag \in {"invalid", "valid"} : img[Home] = RootMade(kind, c, d, flag)
      BY <3>3, <3>4
    <3>6. /\ img[Home].bmPages = Sectors(kind, c, d)
          /\ Len(Sectors(kind, c, d)) = 1 /\ 1 \in DOMAIN Sectors(kind, c, d)
          /\ Sectors(kind, c, d)[1] = At(kind, c, Heads(d))
      <4>1. /\ Len(Sectors(kind, c, d)) = m /\ DOMAIN Sectors(kind, c, d) = 1 .. m
            /\ \A p \in 0 .. m - 1 : Sectors(kind, c, d)[p + 1] = At(kind, c, Heads(d) + p)
            /\ Heads(d) \in 1 .. 2
        BY <2>2, SectorsAre
      <4>2. 0 \in 0 .. m - 1 /\ 0 + 1 = 1 /\ 1 \in 1 .. m /\ Heads(d) + 0 = Heads(d)
        BY <2>3, <4>1
      <4>3. img[Home].bmPages = Sectors(kind, c, d)
        BY <3>5 DEF RootMade, Root
      <4>4. QED BY <2>3, <4>1, <4>2, <4>3
    <3>7. img[At(kind, c, Heads(d))].is = "page"
      BY <3>2, <3>6
    <3>8. img[At(kind, c, Heads(d))] # Page({})
      <4> SUFFICES ASSUME img[At(kind, c, Heads(d))] = Page({}) PROVE FALSE
        OBVIOUS
      <4>1. PICK b \in Blocks(c) : b \in BlocksRead(img[Home].bmPages)
        BY <2>5, <3>2 DEF BlocksRead
      <4>2. PageOf(b) \in 0 .. m - 1
        BY <2>2, <4>1, PageBit, GeometryIs
      <4>3. PageOf(b) + 1 = 1
        BY <2>3, <4>2
      <4>4. BitOf(b) \in img[At(kind, c, Heads(d))].bits
        BY <3>6, <4>1, <4>3 DEF BlocksRead
      <4>5. QED BY <4>4 DEF Page
    <3>9. img[At(kind, c, Heads(d))] = PageFor(kind, c, Taken(kind, c, d), 0)
      BY <3>7, <3>8 DEF Inv, BlankOK
    <3>10. \A p \in 0 .. m - 1 :
              img[At(kind, c, Heads(d) + p)] = PageFor(kind, c, Taken(kind, c, d), p)
      <4>1. \A p \in 0 .. m - 1 : p = 0 /\ Heads(d) + p = Heads(d)
        BY <2>3 DEF Heads
      <4>2. QED BY <3>9, <4>1
    <3>11. vol.free = Further(kind, c, Taken(kind, c, d))
      <4>1. adfMount = [table |-> "read", free |-> Further(kind, c, Taken(kind, c, d))]
        BY <2>2, <3>1, <3>5, <3>10, MadeIsRead
      <4>2. QED BY <2>1, <4>1
    <3>12. Structure = {b \in BlocksOf(kind, c) : TurnOf(kind, c, b) < Taken(kind, c, d)}
      BY <2>2, <3>5, StructureIs
    <3>13. \A b \in BlocksOf(kind, c) :
              ~(TurnOf(kind, c, b) < Taken(kind, c, d) /\ TurnOf(kind, c, b) >= Taken(kind, c, d))
      BY <2>2, AtIs, SectorsAre
    <3>14. QED BY <3>11, <3>12, <3>13 DEF Further
  <2>6. QED BY <2>4, <2>5
<1>2. QED
  BY <1>1, Invariance, PTL
=============================================================================
