--------------------------- MODULE AdfFileProofs ---------------------------
(***************************************************************************)
(* Theorems about AdfFile with AdfTruncate: for every block size, number   *)
(* of pointers to a list, set of blocks and size of files.                 *)
(*                                                                         *)
(* The invariant names what the code nowhere has in one place: the list S  *)
(* of all data blocks of the file and the list E of its extension blocks.  *)
(* Header and extension blocks hold S piece by piece (Chain), and the      *)
(* handle stands at one of its members (Agrees).  The arithmetic of        *)
(* adfFileRealSize says how long the two lists are (Counts).  Then, action *)
(* by action: reading a block, seeking, flushing, overwriting, appending a *)
(* block with or without an extension block, cutting.                      *)
(***************************************************************************)
EXTENDS AdfTruncate, WalksProofs, FiniteSetTheorems, SequenceTheorems

----------------------------------------------------------------------------
(* Arithmetic.                                                              *)

LEMMA MulNat ==
  ASSUME NEW a \in Nat, NEW d \in Nat
  PROVE  a * d \in Nat
  OBVIOUS

LEMMA MulMono ==
  ASSUME NEW a \in Nat, NEW b \in Nat, NEW d \in Nat, a <= b
  PROVE  a * d <= b * d
  OBVIOUS

LEMMA MulSucc ==
  ASSUME NEW a \in Int, NEW d \in Int
  PROVE  (a + 1) * d = a * d + d /\ (a - 1) * d = a * d - d
  OBVIOUS

LEMMA MulLess ==
  ASSUME NEW a \in Nat, NEW b \in Nat, NEW d \in Nat \ {0}, a * d < b * d + d
  PROVE  a <= b
<1>1. CASE a > b
  <2>1. (b + 1) * d <= a * d
    BY <1>1, MulMono
  <2> QED
    BY <2>1, MulSucc
<1> QED
  BY <1>1

\* Division and remainder.
LEMMA DivLaw ==
  ASSUME NEW n \in Nat, NEW d \in Nat \ {0}
  PROVE  n \div d \in Nat /\ n % d \in 0 .. d - 1 /\ n = (n \div d) * d + (n % d)
<1>1. n % d \in 0 .. d - 1
  OBVIOUS
<1>2. n \div d \in Int
  OBVIOUS
<1>3. n = d * (n \div d) + (n % d)
  OBVIOUS
<1> DEFINE q == n \div d
<1>4. n = q * d + (n % d)
  <2> HIDE DEF q
  <2> SUFFICES ASSUME NEW x \in Int, NEW r \in Int, n = d * x + r
               PROVE  n = x * d + r
    BY <1>1, <1>2, <1>3 DEF q
  <2> QED
    OBVIOUS
<1>5. q >= 0
  <2> SUFFICES ASSUME NEW x \in Int, NEW r \in 0 .. d - 1, n = x * d + r, x < 0
               PROVE  FALSE
    BY <1>1, <1>2, <1>4
  <2>1. (0 - x) \in Nat /\ 1 <= 0 - x
    OBVIOUS
  <2>2. 1 * d <= (0 - x) * d
    BY <2>1, MulMono
  <2>3. (0 - x) * d = 0 - x * d
    OBVIOUS
  <2> QED
    BY <2>2, <2>3
<1> QED
  BY <1>1, <1>2, <1>4, <1>5

LEMMA DivUnique ==
  ASSUME NEW q \in Nat, NEW d \in Nat \ {0}, NEW r \in 0 .. d - 1
  PROVE  (q * d + r) \div d = q /\ (q * d + r) % d = r
<1> DEFINE n == q * d + r
<1>0. q * d \in Nat /\ n \in Nat
  BY MulNat
<1>1. n \div d \in Nat /\ n % d \in 0 .. d - 1 /\ n = (n \div d) * d + (n % d)
  BY DivLaw, <1>0
<1> DEFINE p == n \div d
<1>2. p \in Nat /\ p * d \in Nat
  BY <1>1, MulNat
<1>3. p * d < q * d + d /\ q * d < p * d + d
  BY <1>1, <1>2, <1>0
<1>4. p = q
  BY <1>3, MulLess, <1>2
<1> QED
  BY <1>4, <1>1, <1>0

\* A number of bytes needs N data blocks, and M extension blocks beside the header.
Counts(n, N, M) ==
    /\ n <= N * BlockSize /\ N * BlockSize < n + BlockSize
    /\ IF N = 0 THEN M = 0 ELSE M * MaxDataBlk < N /\ N <= (M + 1) * MaxDataBlk

LEMMA CeilLaw ==
  ASSUME NEW n \in Nat, NEW d \in Nat \ {0},
         NEW q, q = (n \div d) + IF n % d # 0 THEN 1 ELSE 0
  PROVE  q \in Nat /\ n <= q * d /\ q * d < n + d
<1>1. n \div d \in Nat /\ n % d \in 0 .. d - 1 /\ n = (n \div d) * d + (n % d)
  BY DivLaw
<1>2. ((n \div d) + 1) * d = (n \div d) * d + d
  BY <1>1, MulSucc
<1>3. (n \div d) * d \in Nat
  BY <1>1, MulNat
<1>4. CASE n % d = 0
  BY <1>1, <1>3, <1>4
<1>5. CASE n % d # 0
  BY <1>1, <1>2, <1>3, <1>5
<1> QED
  BY <1>4, <1>5

\* What adfFileRealSize counts, and that nothing else answers to it.
LEMMA CountsLaw ==
  ASSUME NEW n \in Nat
  PROVE  NbData(n) \in Nat /\ NbExtens(n) \in Nat /\ Counts(n, NbData(n), NbExtens(n))
<1> USE FileAssumption
<1> DEFINE N == NbData(n)
<1>1. N \in Nat /\ n <= N * BlockSize /\ N * BlockSize < n + BlockSize
  BY CeilLaw DEF NbData
<1>2. CASE N <= MaxDataBlk
  <2>1. NbExtens(n) = 0
    BY <1>2 DEF NbExtens
  <2> QED
    BY <2>1, <1>1, <1>2 DEF Counts
<1>3. CASE N > MaxDataBlk
  <2> DEFINE k == N - MaxDataBlk
             M == (k \div MaxDataBlk) + IF k % MaxDataBlk # 0 THEN 1 ELSE 0
  <2>1. k \in Nat
    BY <1>1, <1>3
  <2>2. NbExtens(n) = M
    BY <1>1, <1>3 DEF NbExtens
  <2>3. M \in Nat /\ k <= M * MaxDataBlk /\ M * MaxDataBlk < k + MaxDataBlk
    BY <2>1, CeilLaw
  <2> HIDE DEF M
  <2>4. (M + 1) * MaxDataBlk = M * MaxDataBlk + MaxDataBlk /\ M * MaxDataBlk \in Nat
    BY <2>3, MulSucc, MulNat
  <2>5. M * MaxDataBlk < N /\ N <= (M + 1) * MaxDataBlk /\ N # 0
    BY <2>3, <2>4, <1>1, <1>3
  <2> QED
    BY <2>2, <2>3, <2>5, <1>1 DEF Counts
<1> QED
  BY <1>1, <1>2, <1>3

LEMMA CountsUnique ==
  ASSUME NEW n \in Nat, NEW N \in Nat, NEW M \in Nat, Counts(n, N, M)
  PROVE  N = NbData(n) /\ M = NbExtens(n)
<1> USE FileAssumption
<1> DEFINE N2 == NbData(n)
           M2 == NbExtens(n)
<1>1. N2 \in Nat /\ M2 \in Nat /\ Counts(n, N2, M2)
  BY CountsLaw
<1> HIDE DEF N2, M2
<1>2. N * BlockSize \in Nat /\ N2 * BlockSize \in Nat
  BY <1>1, MulNat
<1>3. N * BlockSize < N2 * BlockSize + BlockSize /\ N2 * BlockSize < N * BlockSize + BlockSize
  BY <1>1, <1>2 DEF Counts
<1>4. N = N2
  BY <1>1, <1>3, MulLess
<1>5. CASE N = 0
  BY <1>1, <1>4, <1>5 DEF Counts, N2, M2
<1>6. CASE N # 0
  <2>1. M * MaxDataBlk < N /\ N <= (M + 1) * MaxDataBlk
        /\ M2 * MaxDataBlk < N /\ N <= (M2 + 1) * MaxDataBlk
    BY <1>1, <1>4, <1>6 DEF Counts
  <2>2. /\ M * MaxDataBlk \in Nat /\ M2 * MaxDataBlk \in Nat
        /\ (M + 1) * MaxDataBlk = M * MaxDataBlk + MaxDataBlk
        /\ (M2 + 1) * MaxDataBlk = M2 * MaxDataBlk + MaxDataBlk
    BY <1>1, MulNat, MulSucc
  <2>3. M * MaxDataBlk < M2 * MaxDataBlk + MaxDataBlk /\ M2 * MaxDataBlk < M * MaxDataBlk + MaxDataBlk
    BY <2>1, <2>2
  <2>4. M = M2
    BY <1>1, <2>3, MulLess
  <2> QED
    BY <1>4, <2>4 DEF N2, M2
<1> QED
  BY <1>5, <1>6

----------------------------------------------------------------------------
(* Types.                                                                   *)

Lists == {l \in Seq(Sectors) : Len(l) <= MaxDataBlk}
Headers == [byteSize : Nat, firstData : Sectors, dataBlocks : Lists, extension : Sectors]
DataBlks == [kind : {"data"}, data : [Offsets -> Values \cup {0}], nextData : Sectors]
ExtBlks == [kind : {"ext"}, headerKey : Sectors, dataBlocks : Lists, extension : Sectors]
Disks == [Blocks -> DataBlks \cup ExtBlks]
Handles == [mode : {"closed", "read", "write"}, fileHdr : Headers, currentData : DataBlks,
            currentExt : ExtBlks, nDataBlock : Nat, curDataPtr : Sectors, pos : Nat,
            posInDataBlk : 0 .. BlockSize, posInExtBlk : 0 .. MaxDataBlk,
            currentDataBlockChanged : BOOLEAN]

LEMMA ListsAreBlockLists == Lists = BlockLists
<1> USE FileAssumption
<1>1. ASSUME NEW l \in Lists PROVE l \in BlockLists
  <2>1. l \in [1 .. Len(l) -> Sectors] /\ Len(l) \in 0 .. MaxDataBlk
    BY <1>1, LenProperties DEF Lists
  <2> QED
    BY <2>1 DEF BlockLists
<1>2. ASSUME NEW l \in BlockLists PROVE l \in Lists
  <2>1. PICK n \in 0 .. MaxDataBlk : l \in [1 .. n -> Sectors]
    BY DEF BlockLists
  <2>2. l \in Seq(Sectors) /\ Len(l) = n
    BY <2>1
  <2> QED
    BY <2>2 DEF Lists
<1> QED
  BY <1>1, <1>2

LEMMA SectorFacts ==
  /\ 0 \in Sectors /\ 0 \notin Blocks /\ Blocks \subseteq Sectors /\ Blocks \subseteq Nat
  /\ \A s \in Sectors : s # 0 => s \in Blocks
  BY FileAssumption DEF Sectors

LEMMA BlankTypes ==
  /\ <<>> \in Lists /\ NoHeader \in Headers
  /\ \A s \in Sectors : Ext(s) \in ExtBlks
  /\ NoExt \in ExtBlks /\ Zeros \in [Offsets -> Values \cup {0}]
  /\ \A s \in Sectors, b \in [Offsets -> Values \cup {0}] : Data(b, s) \in DataBlks
  /\ Closed \in Handles
<1> USE FileAssumption, SectorFacts
<1>1. <<>> \in Lists
  BY DEF Lists
<1>2. NoHeader \in Headers
  BY <1>1 DEF NoHeader, Headers
<1>3. \A s \in Sectors : Ext(s) \in ExtBlks
  BY <1>1 DEF Ext, ExtBlks
<1>4. NoExt \in ExtBlks
  BY <1>3 DEF NoExt
<1>5. Zeros \in [Offsets -> Values \cup {0}]
  BY DEF Zeros
<1>6. \A s \in Sectors, b \in [Offsets -> Values \cup {0}] : Data(b, s) \in DataBlks
  BY DEF Data, DataBlks
<1>7. Data(Zeros, 0) \in DataBlks
  BY <1>5, <1>6
<1>8. Closed \in Handles
  BY <1>2, <1>4, <1>7 DEF Closed, Handles
<1> QED
  BY <1>1, <1>2, <1>3, <1>4, <1>5, <1>6, <1>8

\* What is read from a sector.
LEMMA AsTypes ==
  ASSUME NEW D \in Disks, NEW s \in Sectors
  PROVE  /\ AsData(D, s) \in DataBlks /\ AsExt(D, s) \in ExtBlks
         /\ s # 0 /\ D[s].kind = "ext" => AsExt(D, s) = D[s]
         /\ s # 0 /\ D[s].kind = "data" => AsData(D, s) = D[s]
<1>1. ASSUME s # 0 PROVE D[s] \in DataBlks \cup ExtBlks
  BY <1>1, SectorFacts DEF Disks
<1>2. ASSUME s # 0, D[s].kind = "data" PROVE D[s] \in DataBlks
  BY <1>1, <1>2 DEF DataBlks, ExtBlks
<1>3. ASSUME s # 0, D[s].kind = "ext" PROVE D[s] \in ExtBlks
  BY <1>1, <1>3 DEF DataBlks, ExtBlks
<1>4. NoExt \in ExtBlks /\ Data(Zeros, 0) \in DataBlks
  BY BlankTypes, SectorFacts
<1> QED
  BY <1>2, <1>3, <1>4 DEF AsData, AsExt

----------------------------------------------------------------------------
(* The blocks of a file.                                                    *)

Injective(f) == \A i, j \in DOMAIN f : f[i] = f[j] => i = j

\* Of the data blocks S list number j holds those behind the first j * MaxDataBlk:
\* the header is list 0, the extension blocks are lists 1, 2 and so on.
PartEnd(n, j) == IF (j + 1) * MaxDataBlk <= n THEN (j + 1) * MaxDataBlk ELSE n
Part(S, j) == [i \in 1 .. PartEnd(Len(S), j) - j * MaxDataBlk |-> S[j * MaxDataBlk + i]]

\* The header h and the blocks on the disk D list S as the data blocks and E as
\* the extension blocks of a file, as many as its size says.
Listed(t, D, h, S, E) ==
    /\ S \in Seq(Blocks) /\ E \in Seq(Blocks)
    /\ Injective(S) /\ Injective(E) /\ \A i \in DOMAIN S, j \in DOMAIN E : S[i] # E[j]
    /\ Counts(h.byteSize, Len(S), Len(E))
    /\ h.dataBlocks = Part(S, 0)
    /\ S # <<>> => h.firstData = S[1]
    /\ h.extension = IF E = <<>> THEN 0 ELSE E[1]
    /\ \A j \in DOMAIN E : /\ D[E[j]].kind = "ext"
                           /\ D[E[j]].headerKey = E[j]
                           /\ D[E[j]].dataBlocks = Part(S, j)
                           /\ j < Len(E) => D[E[j]].extension = E[j + 1]

\* The data blocks are data blocks, and OFS links each to the next one.
Chain(t, D, h, S, E) ==
    /\ Listed(t, D, h, S, E)
    /\ \A i \in DOMAIN S : /\ D[S[i]].kind = "data"
                           /\ t = "OFS" /\ i < Len(S) => D[S[i]].nextData = S[i + 1]

\* A list of different blocks is no longer than there are blocks.
LEMMA InjectiveLen ==
  ASSUME NEW Q \in Seq(Blocks), Injective(Q)
  PROVE  Len(Q) <= Cardinality(Blocks) /\ Cardinality(Blocks) \in Nat
<1>1. IsFiniteSet(Blocks)
  BY FileAssumption
<1>2. Len(Q) \in Nat /\ Q \in [1 .. Len(Q) -> Blocks] /\ DOMAIN Q = 1 .. Len(Q)
  BY LenProperties
<1>3. Q \in Injection(1 .. Len(Q), Blocks)
  BY <1>2 DEF Injection, IsInjective, Injective
<1>4. Cardinality(1 .. Len(Q)) <= Cardinality(Blocks)
  BY <1>1, <1>3, FS_Injection
<1>5. Cardinality(1 .. Len(Q)) = Len(Q)
  BY <1>2, FS_Interval
<1>6. Cardinality(Blocks) \in Nat
  BY <1>1, FS_CardinalityType
<1> QED
  BY <1>4, <1>5, <1>6

\* Which part of S an extension block holds.
LEMMA PartLaw ==
  ASSUME NEW S \in Seq(Blocks), NEW M \in Nat, NEW n \in Nat, Counts(n, Len(S), M)
  PROVE  /\ PartEnd(Len(S), M) = Len(S)
         /\ IsPiece(Part(S, 0), S, 0, PartEnd(Len(S), 0))
         /\ \A j \in 1 .. M : /\ PartEnd(Len(S), j - 1) = j * MaxDataBlk
                              /\ IsPiece(Part(S, j), S, PartEnd(Len(S), j - 1), PartEnd(Len(S), j))
         /\ \A j \in 0 .. M : PartEnd(Len(S), j) \in Nat
<1> USE FileAssumption
<1> DEFINE N == Len(S)
<1>0. N \in Nat
  BY LenProperties
<1> HIDE DEF N
<1>1. \A j \in 0 .. M : j * MaxDataBlk \in Nat /\ (j + 1) * MaxDataBlk = j * MaxDataBlk + MaxDataBlk
  BY MulNat, MulSucc
<1>2. N = 0 => M = 0
  BY DEF Counts, N
<1>3. N # 0 => M * MaxDataBlk < N /\ N <= (M + 1) * MaxDataBlk
  BY DEF Counts, N
<1>4. PartEnd(N, M) = N
  <2>1. CASE N = 0
    BY <2>1, <1>1, <1>2 DEF PartEnd
  <2>2. CASE N # 0
    BY <2>2, <1>0, <1>1, <1>3 DEF PartEnd
  <2> QED
    BY <2>1, <2>2
<1>5. \A j \in 1 .. M : j * MaxDataBlk <= M * MaxDataBlk
  BY MulMono
<1>6. \A j \in 1 .. M : j * MaxDataBlk < N
  BY <1>0, <1>1, <1>2, <1>3, <1>5
<1>7. ASSUME NEW j \in 1 .. M PROVE PartEnd(N, j - 1) = j * MaxDataBlk
  <2>1. (j - 1) + 1 = j
    OBVIOUS
  <2>2. j * MaxDataBlk \in Nat /\ j * MaxDataBlk <= N
    BY <1>0, <1>1, <1>6
  <2> QED
    BY <2>1, <2>2 DEF PartEnd
<1>8. ASSUME NEW j \in 0 .. M PROVE PartEnd(N, j) \in Nat /\ PartEnd(N, j) <= N
  BY <1>0, <1>1 DEF PartEnd
<1>9. ASSUME NEW j \in 0 .. M, j * MaxDataBlk <= N
      PROVE  IsPiece(Part(S, j), S, j * MaxDataBlk, PartEnd(N, j))
  <2> DEFINE o == j * MaxDataBlk
             p == PartEnd(N, j)
  <2>1. o \in Nat /\ p \in Nat /\ o <= p /\ p <= N
    BY <1>0, <1>1, <1>8, <1>9 DEF PartEnd
  <2>2. Part(S, j) = [i \in 1 .. p - o |-> S[o + i]]
    BY DEF Part, N
  <2> HIDE DEF o, p
  <2>3. Len(Part(S, j)) = p - o
    BY <2>1, <2>2
  <2> QED
    BY <2>1, <2>2, <2>3 DEF IsPiece, N, o, p
<1>10. IsPiece(Part(S, 0), S, 0, PartEnd(N, 0))
  <2>1. 0 * MaxDataBlk = 0 /\ 0 \in 0 .. M
    OBVIOUS
  <2> QED
    BY <2>1, <1>0, <1>9
<1>11. ASSUME NEW j \in 1 .. M PROVE IsPiece(Part(S, j), S, PartEnd(N, j - 1), PartEnd(N, j))
  BY <1>0, <1>1, <1>6, <1>7, <1>9
<1> QED
  BY <1>4, <1>7, <1>8, <1>10, <1>11 DEF N

LEMMA ExtNextTypes ==
  ASSUME NEW D \in Disks
  PROVE  /\ ExtNext(D) \in [Sectors -> Sectors]
         /\ ExtNext(D)[0] = 0 /\ AsExt(D, 0).dataBlocks = <<>>
         /\ \A s \in Blocks : D[s].kind = "ext" => ExtNext(D)[s] = D[s].extension
<1>1. \A s \in Sectors : AsExt(D, s).extension \in Sectors
  BY AsTypes DEF ExtBlks
<1>2. AsExt(D, 0) = NoExt
  BY DEF AsExt
<1>3. NoExt.extension = 0 /\ NoExt.dataBlocks = <<>>
  BY DEF NoExt, Ext
<1>4. \A s \in Blocks : D[s].kind = "ext" => AsExt(D, s) = D[s]
  BY AsTypes, SectorFacts
<1> QED
  BY <1>1, <1>2, <1>3, <1>4, SectorFacts DEF ExtNext

\* What adfGetFileBlocks collects: the extension blocks begin with E and the data
\* blocks with S.  For OFS there is nothing behind them.
LEMMA ListedReads ==
  ASSUME NEW D \in Disks, NEW h \in Headers, NEW t, NEW S, NEW E,
         Listed(t, D, h, S, E)
  PROVE  /\ Extens(D, h) \in Seq(Sectors) /\ BeginsWith(Extens(D, h), E, 0)
         /\ DataBlocksOf(D, h) \in Seq(Sectors) /\ BeginsWith(DataBlocksOf(D, h), S, 0)
<1> DEFINE K == Cardinality(Blocks)
           M == Len(E)
           F == ExtNext(D)
           last == IF M = 0 THEN h.extension ELSE D[E[M]].extension
           W == [j \in 1 .. M + 1 |-> IF j <= M THEN E[j] ELSE last]
           GE == [s \in Sectors |-> IF s = 0 THEN <<>> ELSE <<s>>]
           GS == [s \in Sectors |-> AsExt(D, s).dataBlocks]
           oS == [j \in 0 .. M |-> PartEnd(Len(S), j)]
           oE == [j \in 0 .. M |-> j]
<1>0. S \in Seq(Blocks) /\ E \in Seq(Blocks) /\ Injective(E) /\ Counts(h.byteSize, Len(S), M)
  BY DEF Listed
<1>1. M \in Nat /\ K \in Nat /\ M \in 0 .. K /\ h.byteSize \in Nat /\ DOMAIN E = 1 .. M
  BY <1>0, InjectiveLen, LenProperties DEF Headers
<1>2. \A j \in 1 .. M : E[j] \in Blocks /\ E[j] \in Sectors /\ E[j] # 0
  BY <1>0, SectorFacts, ElementOfSeq
<1>3. S \in Seq(Sectors) /\ E \in Seq(Sectors)
  BY <1>0, SectorFacts, SeqMonotonic
<1>4. \A j \in 1 .. M : /\ D[E[j]].kind = "ext" /\ D[E[j]].dataBlocks = Part(S, j)
                        /\ j < M => D[E[j]].extension = E[j + 1]
  BY <1>1 DEF Listed
<1>5. \A j \in 1 .. M : F[E[j]] = D[E[j]].extension
  BY <1>2, <1>4, ExtNextTypes
<1>6. F \in [Sectors -> Sectors]
  BY ExtNextTypes
<1>7. last \in Sectors
  <2>1. CASE M = 0
    BY <2>1 DEF Headers
  <2>2. CASE M # 0
    <3>1. M \in 1 .. M
      BY <1>1, <2>2
    <3>2. F[E[M]] \in Sectors
      BY <1>2, <1>6, <3>1
    <3> QED
      BY <1>5, <2>2, <3>1, <3>2
  <2> QED
    BY <2>1, <2>2
<1> HIDE DEF last, F, M
<1>8. W \in [1 .. M + 1 -> Sectors]
  BY <1>1, <1>2, <1>7
<1>9. \A j \in 1 .. M : F[W[j]] = W[j + 1]
  <2> SUFFICES ASSUME NEW j \in 1 .. M PROVE F[W[j]] = W[j + 1]
    OBVIOUS
  <2>1. W[j] = E[j] /\ j \in 1 .. M + 1 /\ j + 1 \in 1 .. M + 1
    BY <1>1
  <2>2. CASE j < M
    BY <1>1, <1>4, <1>5, <2>1, <2>2
  <2>3. CASE j = M
    <3>1. W[j + 1] = last
      BY <1>1, <2>1, <2>3
    <3> QED
      BY <1>1, <1>5, <2>1, <2>3, <3>1 DEF last
  <2> QED
    BY <1>1, <2>2, <2>3
<1>10. W[1] = h.extension
  <2>1. CASE M = 0
    BY <2>1, <1>1 DEF last
  <2>2. CASE M # 0
    <3>1. E # <<>>
      BY <2>2 DEF M
    <3> QED
      BY <2>2, <3>1, <1>1 DEF Listed
  <2> QED
    BY <2>1, <2>2
<1>11. W[M + 1] = last
  BY <1>1
<1> HIDE DEF W
\* Extension blocks.
<1>12. GE \in [Sectors -> Seq(Sectors)]
  OBVIOUS
<1>13. oE \in [0 .. M -> Nat] /\ oE[M] = Len(E) /\ oE[0] = 0
  BY <1>1 DEF M
<1>14. \A j \in 1 .. M : W[j] = E[j]
  BY <1>1 DEF W
<1>15. \A j \in 1 .. M : IsPiece(GE[W[j]], E, oE[j - 1], oE[j])
  <2> SUFFICES ASSUME NEW j \in 1 .. M PROVE IsPiece(GE[W[j]], E, oE[j - 1], oE[j])
    OBVIOUS
  <2>1. GE[W[j]] = <<E[j]>>
    BY <1>2, <1>14
  <2>2. oE[j - 1] = j - 1 /\ oE[j] = j
    BY <1>1
  <2>3. Len(<<E[j]>>) = 1 /\ <<E[j]>>[1] = E[j]
    OBVIOUS
  <2>4. IsPiece(<<E[j]>>, E, j - 1, j)
    BY <1>1, <2>3 DEF IsPiece, M
  <2> QED
    BY <2>1, <2>2, <2>4
<1>16. Extens(D, h) = Gathered(F, GE, W[1], K)
  BY <1>10 DEF Extens, F
<1>17. Gathered(F, GE, W[1], K) \in Seq(Sectors) /\ BeginsWith(Gathered(F, GE, W[1], K), E, oE[0])
  <2>1. Follows(W, F, M) /\ Pieces(E, oE, GE, W, M)
    BY <1>9, <1>13, <1>15 DEF Follows, Pieces
  <2>2. M \in 0 .. K /\ K \in Nat /\ oE \in [0 .. M -> Nat]
    BY <1>1, <1>13
  <2> HIDE DEF K, GE, oE
  <2> QED
    BY <2>1, <2>2, <1>3, <1>6, <1>8, <1>12, GatheredAlong
\* Data blocks.
<1>20. GS \in [Sectors -> Seq(Sectors)]
  BY AsTypes DEF ExtBlks, Lists
<1>21. /\ PartEnd(Len(S), M) = Len(S)
       /\ IsPiece(Part(S, 0), S, 0, PartEnd(Len(S), 0))
       /\ \A j \in 1 .. M : IsPiece(Part(S, j), S, PartEnd(Len(S), j - 1), PartEnd(Len(S), j))
       /\ \A j \in 0 .. M : PartEnd(Len(S), j) \in Nat
  BY <1>0, <1>1, PartLaw
<1>22. oS \in [0 .. M -> Nat] /\ oS[M] = Len(S) /\ oS[0] = PartEnd(Len(S), 0)
  BY <1>1, <1>21
<1>23. \A j \in 1 .. M : IsPiece(GS[W[j]], S, oS[j - 1], oS[j])
  <2> SUFFICES ASSUME NEW j \in 1 .. M PROVE IsPiece(GS[W[j]], S, oS[j - 1], oS[j])
    OBVIOUS
  <2>1. AsExt(D, E[j]) = D[E[j]]
    BY <1>2, <1>4, AsTypes
  <2>2. GS[W[j]] = Part(S, j)
    BY <1>2, <1>4, <1>14, <2>1
  <2>3. oS[j - 1] = PartEnd(Len(S), j - 1) /\ oS[j] = PartEnd(Len(S), j)
    BY <1>1
  <2> QED
    BY <2>2, <2>3, <1>21
<1> DEFINE X == Gathered(F, GS, W[1], K)
<1>24. /\ X \in Seq(Sectors) /\ BeginsWith(X, S, oS[0])
       /\ F[W[M + 1]] = W[M + 1] /\ GS[W[M + 1]] = <<>> => EndsWith(X, S, oS[0])
  <2>1. Follows(W, F, M) /\ Pieces(S, oS, GS, W, M)
    BY <1>9, <1>22, <1>23 DEF Follows, Pieces
  <2>2. M \in 0 .. K /\ K \in Nat /\ oS \in [0 .. M -> Nat]
    BY <1>1, <1>22
  <2> HIDE DEF K, GS, oS
  <2> QED
    BY <2>1, <2>2, <1>3, <1>6, <1>8, <1>20, GatheredAlong
<1>26. DataBlocksOf(D, h) = Part(S, 0) \o X
  BY <1>10 DEF DataBlocksOf, F, Listed
<1> HIDE DEF X
<1>27. Part(S, 0) \in Seq(Sectors)
  BY DEF Listed, Headers, Lists
<1> DEFINE p == PartEnd(Len(S), 0)
<1>28. p \in Nat /\ 0 \in 0 .. M
  BY <1>1, <1>21
<1>29. BeginsWith(X, S, p) /\ IsPiece(Part(S, 0), S, 0, p)
  BY <1>21, <1>22, <1>24
<1> HIDE DEF p
<1> DEFINE Y == Part(S, 0) \o X
<1>30. BeginsWith(Y, S, 0) /\ (EndsWith(X, S, p) => EndsWith(Y, S, 0))
  <2> DEFINE Q == Part(S, 0)
  <2>1. Q \in Seq(Sectors) /\ IsPiece(Q, S, 0, p) /\ Y = Q \o X
    BY <1>27, <1>29
  <2> HIDE DEF Q, Y
  <2> QED
    BY <2>1, <1>3, <1>24, <1>28, <1>29, BeginsWithMore
<1>31. Y \in Seq(Sectors)
  BY <1>24, <1>27, ConcatProperties
<1> HIDE DEF Y
<1>33. DataBlocksOf(D, h) = Y
  BY <1>26 DEF Y
<1>34. BeginsWith(Extens(D, h), E, 0) /\ Extens(D, h) \in Seq(Sectors)
  BY <1>13, <1>16, <1>17
<1> QED
  BY <1>30, <1>31, <1>33, <1>34

----------------------------------------------------------------------------
(* The handle.                                                              *)

\* The extension block in memory is none or one of the file's.
ExtKnown(D, E, f) == f.currentExt = NoExt \/ \E j \in DOMAIN E : f.currentExt = D[E[j]]

\* FFS goes on from the extension block that data block number f.nDataBlock is in.
ExtAt(t, D, E, f) ==
    t # "OFS" /\ f.nDataBlock > MaxDataBlk =>
        \E e \in DOMAIN E : /\ f.nDataBlock = e * MaxDataBlk + f.posInExtBlk
                            /\ f.posInExtBlk > 0
                            /\ f.currentExt = D[E[e]]

\* Data block number c is in memory.
Holds(t, D, S, E, f, c) ==
    /\ c \in DOMAIN S
    /\ f.nDataBlock = c /\ f.curDataPtr = S[c] /\ f.currentData = D[S[c]]
    /\ ExtKnown(D, E, f) /\ ExtAt(t, D, E, f)

Agrees(t, D, h, S, E, f) ==
    /\ f.fileHdr = h /\ ExtKnown(D, E, f)
    /\ S = <<>> => f.nDataBlock = 0 /\ f.curDataPtr = 0 /\ f.pos = 0 /\ f.posInDataBlk = 0
    /\ S # <<>> => /\ Holds(t, D, S, E, f, f.nDataBlock)
                   /\ f.pos = (f.nDataBlock - 1) * BlockSize + f.posInDataBlk

\* What reading a block leaves as it is.
SameRest(f, g) ==
    /\ g.mode = f.mode /\ g.fileHdr = f.fileHdr /\ g.pos = f.pos
    /\ g.posInDataBlk = f.posInDataBlk /\ g.currentDataBlockChanged = f.currentDataBlockChanged

\* A pointer of one of the lists, and which extension block it is in.
LEMMA PartAt ==
  ASSUME NEW S \in Seq(Blocks), NEW j \in Nat, NEW i \in Nat, i < MaxDataBlk,
         j * MaxDataBlk + i < Len(S)
  PROVE  At(Part(S, j), i) = S[j * MaxDataBlk + i + 1]
<1> USE FileAssumption
<1> DEFINE o == j * MaxDataBlk
           p == PartEnd(Len(S), j)
<1>1. o \in Nat /\ (j + 1) * MaxDataBlk = o + MaxDataBlk /\ Len(S) \in Nat
  BY MulNat, MulSucc, LenProperties
<1>2. p = IF o + MaxDataBlk <= Len(S) THEN o + MaxDataBlk ELSE Len(S)
  BY <1>1 DEF PartEnd
<1>3. o + i < Len(S)
  OBVIOUS
<1>4. Part(S, j) = [k \in 1 .. p - o |-> S[o + k]]
  BY DEF Part
<1> HIDE DEF p, o
<1>5. p \in Nat /\ i < p - o
  BY <1>1, <1>2, <1>3
<1>6. Len(Part(S, j)) = p - o
  BY <1>1, <1>5, <1>4
<1>7. At(Part(S, j), i) = S[o + (i + 1)]
  BY <1>1, <1>5, <1>4, <1>6 DEF At
<1>8. o + (i + 1) = o + i + 1
  BY <1>1
<1>9. At(Part(S, j), i) = S[o + i + 1]
  BY <1>7, <1>8
<1> QED
  BY <1>9 DEF o

LEMMA ExtIndex ==
  ASSUME NEW n \in Nat, NEW N \in Nat, NEW M \in Nat, Counts(n, N, M), NEW j \in Nat,
         j * MaxDataBlk < N
  PROVE  j <= M
<1> USE FileAssumption
<1>1. j * MaxDataBlk \in Nat /\ (M + 1) * MaxDataBlk = M * MaxDataBlk + MaxDataBlk
      /\ M * MaxDataBlk \in Nat
  BY MulNat, MulSucc
<1>2. N # 0
  BY <1>1
<1>3. N <= (M + 1) * MaxDataBlk
  BY <1>2 DEF Counts
<1>4. j * MaxDataBlk < M * MaxDataBlk + MaxDataBlk
  BY <1>1, <1>3
<1> QED
  BY <1>4, MulLess

\* Facts about a chain that the steps keep using.
LEMMA ChainFacts ==
  ASSUME NEW D \in Disks, NEW h \in Headers, NEW t, NEW S, NEW E,
         Chain(t, D, h, S, E)
  PROVE  /\ S \in Seq(Blocks) /\ Len(S) \in Nat /\ DOMAIN S = 1 .. Len(S)
         /\ E \in Seq(Blocks) /\ Len(E) \in Nat /\ DOMAIN E = 1 .. Len(E)
         /\ (S = <<>> <=> Len(S) = 0) /\ (E = <<>> <=> Len(E) = 0)
         /\ \A i \in DOMAIN S : /\ S[i] \in Blocks /\ S[i] \in Sectors /\ S[i] # 0
                                /\ D[S[i]] \in DataBlks /\ AsData(D, S[i]) = D[S[i]]
         /\ \A j \in DOMAIN E : /\ E[j] \in Blocks /\ E[j] \in Sectors /\ E[j] # 0
                                /\ D[E[j]] \in ExtBlks /\ AsExt(D, E[j]) = D[E[j]]
                                /\ D[E[j]] # NoExt
<1>1. S \in Seq(Blocks) /\ E \in Seq(Blocks)
  BY DEF Chain, Listed
<1>2. /\ Len(S) \in Nat /\ DOMAIN S = 1 .. Len(S) /\ Len(E) \in Nat /\ DOMAIN E = 1 .. Len(E)
      /\ S \in [DOMAIN S -> Blocks] /\ E \in [DOMAIN E -> Blocks]
  BY <1>1, LenProperties
<1>3. (S = <<>> <=> Len(S) = 0) /\ (E = <<>> <=> Len(E) = 0)
  BY <1>1, EmptySeq
<1>4. ASSUME NEW i \in DOMAIN S
      PROVE  /\ S[i] \in Blocks /\ S[i] \in Sectors /\ S[i] # 0
             /\ D[S[i]] \in DataBlks /\ AsData(D, S[i]) = D[S[i]]
  <2>1. S[i] \in Blocks /\ S[i] \in Sectors /\ S[i] # 0
    BY <1>2, SectorFacts
  <2>2. D[S[i]].kind = "data"
    BY DEF Chain, Listed
  <2> QED
    BY <2>1, <2>2, AsTypes
<1>5. ASSUME NEW j \in DOMAIN E
      PROVE  /\ E[j] \in Blocks /\ E[j] \in Sectors /\ E[j] # 0
             /\ D[E[j]] \in ExtBlks /\ AsExt(D, E[j]) = D[E[j]]
             /\ D[E[j]] # NoExt
  <2>1. E[j] \in Blocks /\ E[j] \in Sectors /\ E[j] # 0
    BY <1>2, SectorFacts
  <2>2. D[E[j]].kind = "ext" /\ D[E[j]].headerKey = E[j]
    BY DEF Chain, Listed
  <2>3. NoExt.headerKey = 0
    BY DEF NoExt, Ext
  <2> QED
    BY <2>1, <2>2, <2>3, AsTypes
<1> QED
  BY <1>1, <1>2, <1>3, <1>4, <1>5

----------------------------------------------------------------------------
(* Reading blocks.                                                          *)

\* The extension block for the next data block, and the data block it names.
LEMMA ExtForNextFinds ==
  ASSUME NEW D \in Disks, NEW h \in Headers, NEW S, NEW E, Chain(dosType, D, h, S, E),
         NEW f \in Handles, f.fileHdr = h, NEW c \in 1 .. Len(S) - 1,
         Holds(dosType, D, S, E, f, c)
  PROVE  LET g == ExtForNext(D, f) IN
         /\ g \in Handles /\ SameRest(f, g) /\ g.nDataBlock = c
         /\ NextSect(g) = S[c + 1]
         /\ ExtKnown(D, E, g)
         /\ ~isOFS /\ c >= MaxDataBlk =>
              /\ g.posInExtBlk < MaxDataBlk
              /\ \E e \in DOMAIN E : /\ c = e * MaxDataBlk + g.posInExtBlk
                                     /\ g.currentExt = D[E[e]]
<1> USE FileAssumption DEF isOFS
<1> DEFINE g == ExtForNext(D, f)
           N == Len(S)
           M == Len(E)
<1>0. /\ S \in Seq(Blocks) /\ N \in Nat /\ DOMAIN S = 1 .. N /\ M \in Nat /\ DOMAIN E = 1 .. M
      /\ \A j \in DOMAIN E : E[j] # 0 /\ D[E[j]] \in ExtBlks /\ AsExt(D, E[j]) = D[E[j]]
      /\ Counts(h.byteSize, N, M)
      /\ h.byteSize \in Nat
  <2>1. Counts(h.byteSize, N, M) /\ h.byteSize \in Nat
    BY DEF Chain, Listed, Headers
  <2> HIDE DEF N, M
  <2> QED
    BY <2>1, ChainFacts DEF N, M
<1>1. /\ c \in Nat /\ c < N /\ c # 0 /\ f.nDataBlock = c
  BY <1>0 DEF Holds
<1> HIDE DEF N, M
<1>2. CASE isOFS
  <2>1. g = f
    BY <1>2 DEF ExtForNext
  <2>2. f.currentData.nextData = S[c + 1]
    <3>1. c \in DOMAIN S /\ f.currentData = D[S[c]]
      BY DEF Holds
    <3>2. D[S[c]].nextData = S[c + 1]
      BY <1>1, <1>2, <3>1 DEF Chain, Listed, N
    <3> QED
      BY <3>1, <3>2
  <2>3. NextSect(f) = S[c + 1]
    BY <1>1, <1>2, <2>2 DEF NextSect
  <2> QED
    BY <1>1, <1>2, <2>1, <2>3 DEF Holds, SameRest
<1>3. CASE ~isOFS /\ c < MaxDataBlk
  <2>1. g = f
    BY <1>1, <1>3 DEF ExtForNext
  <2>2. At(h.dataBlocks, c) = S[c + 1]
    <3>1. 0 * MaxDataBlk + c = c
      OBVIOUS
    <3>2. At(Part(S, 0), c) = S[0 * MaxDataBlk + c + 1]
      BY <1>0, <1>1, <1>3, <3>1, PartAt DEF N
    <3> QED
      BY <3>1, <3>2 DEF Chain, Listed
  <2>3. NextSect(f) = S[c + 1]
    BY <1>1, <1>3, <2>2 DEF NextSect
  <2> QED
    BY <1>1, <1>3, <2>1, <2>3 DEF Holds, SameRest
<1>4. CASE ~isOFS /\ c >= MaxDataBlk
  \* e is the extension block that is needed, i the place in it.
  <2> DEFINE Found(e, i) == /\ e \in DOMAIN E /\ i \in 0 .. MaxDataBlk - 1
                            /\ c = e * MaxDataBlk + i
                            /\ g = [f EXCEPT !.currentExt = D[E[e]], !.posInExtBlk = i]
  <2>1. \E e, i : Found(e, i)
    <3>1. CASE c = MaxDataBlk
      <4>1. 1 * MaxDataBlk = c
        BY <3>1
      <4>2. 1 <= M
        BY <1>0, <1>1, <4>1, ExtIndex
      <4>3. h.extension = E[1]
        BY <1>0, <4>2 DEF Chain, Listed, M
      <4>4. 1 \in DOMAIN E
        BY <1>0, <4>2
      <4>5. g = [f EXCEPT !.currentExt = AsExt(D, f.fileHdr.extension), !.posInExtBlk = 0]
        BY <1>1, <1>4, <3>1 DEF ExtForNext
      <4>6. g = [f EXCEPT !.currentExt = D[E[1]], !.posInExtBlk = 0]
        BY <1>0, <4>3, <4>4, <4>5
      <4>7. c = 1 * MaxDataBlk + 0
        BY <4>1, <1>1
      <4>8. Found(1, 0)
        BY <4>4, <4>6, <4>7
      <4> QED
        BY <4>8
    <3>2. CASE c > MaxDataBlk
      <4>1. PICK e \in DOMAIN E : /\ c = e * MaxDataBlk + f.posInExtBlk
                                  /\ f.posInExtBlk > 0 /\ f.currentExt = D[E[e]]
        BY <1>1, <1>4, <3>2 DEF Holds, ExtAt
      <4>2. f.posInExtBlk \in 0 .. MaxDataBlk
        BY DEF Handles
      <4>3. CASE f.posInExtBlk = MaxDataBlk
        <5>1. e \in Nat /\ (e + 1) * MaxDataBlk = e * MaxDataBlk + MaxDataBlk
          BY <1>0, MulSucc
        <5>2. (e + 1) * MaxDataBlk = c /\ e + 1 \in Nat
          BY <4>1, <4>3, <5>1
        <5>3. e + 1 <= M
          <6> DEFINE e1 == e + 1
          <6>1. e1 \in Nat /\ e1 * MaxDataBlk < N
            BY <1>1, <5>2
          <6> HIDE DEF e1
          <6>2. e1 <= M
            BY <1>0, <6>1, ExtIndex
          <6> QED
            BY <6>2 DEF e1
        <5>4. D[E[e]].extension = E[e + 1] /\ e + 1 \in DOMAIN E
          <6>1. e < M /\ e + 1 \in DOMAIN E
            BY <1>0, <5>1, <5>3
          <6> QED
            BY <6>1 DEF Chain, Listed, M
        <5>5. g = [f EXCEPT !.currentExt = AsExt(D, f.currentExt.extension), !.posInExtBlk = 0]
          BY <1>1, <1>4, <3>2, <4>3 DEF ExtForNext
        <5>6. g = [f EXCEPT !.currentExt = D[E[e + 1]], !.posInExtBlk = 0]
          <6>1. AsExt(D, f.currentExt.extension) = D[E[e + 1]]
            BY <1>0, <4>1, <5>4
          <6> QED
            BY <5>5, <6>1
        <5>7. c = (e + 1) * MaxDataBlk + 0
          BY <1>1, <5>2
        <5>8. Found(e + 1, 0)
          BY <5>4, <5>6, <5>7
        <5> QED
          BY <5>8
      <4>4. CASE f.posInExtBlk # MaxDataBlk
        <5>1. g = f
          BY <1>1, <1>4, <3>2, <4>4 DEF ExtForNext
        <5>2. f = [f EXCEPT !.currentExt = f.currentExt, !.posInExtBlk = f.posInExtBlk]
          BY DEF Handles
        <5>3. f.posInExtBlk \in 0 .. MaxDataBlk - 1
          BY <4>2, <4>4
        <5>4. Found(e, f.posInExtBlk)
          BY <4>1, <5>1, <5>2, <5>3
        <5> QED
          BY <5>4
      <4> QED
        BY <4>3, <4>4
    <3>3. c = MaxDataBlk \/ c > MaxDataBlk
      BY <1>1, <1>4
    <3> QED
      BY <3>1, <3>2, <3>3
  <2>2. PICK e, i : Found(e, i)
    BY <2>1
  <2>3. D[E[e]] \in ExtBlks
    BY <1>0, <2>2
  <2>4. i \in 0 .. MaxDataBlk
    BY <2>2
  <2>5. g \in Handles /\ SameRest(f, g) /\ g.nDataBlock = c
        /\ g.currentExt = D[E[e]] /\ g.posInExtBlk = i
    BY <1>1, <2>2, <2>3, <2>4 DEF Handles, SameRest
  <2>6. At(D[E[e]].dataBlocks, i) = S[c + 1]
    <3>1. D[E[e]].dataBlocks = Part(S, e) /\ e \in Nat /\ i \in Nat /\ i < MaxDataBlk
      <4>1. D[E[e]].dataBlocks = Part(S, e)
        BY <2>2 DEF Chain, Listed
      <4>2. e \in Nat
        BY <1>0, <2>2
      <4>3. i \in Nat /\ i < MaxDataBlk
        BY <2>2
      <4> QED
        BY <4>1, <4>2, <4>3
    <3>2. e * MaxDataBlk + i < Len(S) /\ e * MaxDataBlk + i = c
      BY <1>1, <2>2 DEF N
    <3>3. At(Part(S, e), i) = S[e * MaxDataBlk + i + 1]
      BY <1>0, <3>1, <3>2, PartAt
    <3> QED
      BY <3>1, <3>2, <3>3
  <2>7. NextSect(g) = S[c + 1]
    BY <1>1, <1>4, <2>5, <2>6 DEF NextSect
  <2>8. e \in DOMAIN E /\ c = e * MaxDataBlk + i /\ i < MaxDataBlk
    BY <2>2
  <2>9. ExtKnown(D, E, g)
    <3> HIDE DEF g
    <3> QED
      BY <2>5, <2>8 DEF ExtKnown
  <2>10. \E k \in DOMAIN E : c = k * MaxDataBlk + g.posInExtBlk /\ g.currentExt = D[E[k]]
    <3> HIDE DEF g
    <3> QED
      BY <2>5, <2>8
  <2>11. g.posInExtBlk < MaxDataBlk
    <3> HIDE DEF g
    <3> QED
      BY <2>5, <2>8
  <2> QED
    BY <2>5, <2>7, <2>9, <2>10, <2>11
<1> QED
  BY <1>1, <1>2, <1>3, <1>4

\* After data block number c, adfFileReadNextBlock takes number c + 1 into memory.
LEMMA ReadsNext ==
  ASSUME NEW D \in Disks, NEW h \in Headers, NEW S, NEW E, Chain(dosType, D, h, S, E),
         NEW f \in Handles, f.fileHdr = h, NEW c \in 1 .. Len(S) - 1,
         Holds(dosType, D, S, E, f, c)
  PROVE  LET g == ReadNextBlock(D, f) IN
         g \in Handles /\ SameRest(f, g) /\ Holds(dosType, D, S, E, g, c + 1)
<1> USE FileAssumption DEF isOFS
<1> DEFINE k == ExtForNext(D, f)
           s == NextSect(k)
           g == ReadNextBlock(D, f)
           i == IF dosType # "OFS" /\ k.nDataBlock >= MaxDataBlk THEN k.posInExtBlk + 1
                ELSE k.posInExtBlk
<1>1. /\ k \in Handles /\ SameRest(f, k) /\ k.nDataBlock = c
      /\ NextSect(k) = S[c + 1] /\ ExtKnown(D, E, k)
  BY ExtForNextFinds
<1>2. dosType # "OFS" /\ c >= MaxDataBlk =>
         /\ k.posInExtBlk < MaxDataBlk
         /\ \E e \in DOMAIN E : c = e * MaxDataBlk + k.posInExtBlk /\ k.currentExt = D[E[e]]
  BY ExtForNextFinds
<1>3. /\ Len(S) \in Nat /\ DOMAIN S = 1 .. Len(S) /\ Len(E) \in Nat /\ DOMAIN E = 1 .. Len(E)
      /\ c + 1 \in DOMAIN S
  BY ChainFacts
<1>4. /\ S[c + 1] \in Sectors /\ S[c + 1] # 0 /\ D[S[c + 1]] \in DataBlks
      /\ AsData(D, S[c + 1]) = D[S[c + 1]]
  BY <1>3, ChainFacts
<1>5. g = [[k EXCEPT !.posInExtBlk = i] EXCEPT !.currentData = AsData(D, s), !.curDataPtr = s,
                                               !.nDataBlock = @ + 1]
  <2>1. s # 0
    BY <1>1, <1>4
  <2> HIDE DEF k
  <2> QED
    BY <2>1 DEF ReadNextBlock, k
<1>6. s = S[c + 1]
  BY <1>1
<1>7. i \in 0 .. MaxDataBlk
  BY <1>1, <1>2 DEF Handles
<1> HIDE DEF k, i, s
<1> DEFINE r == [k EXCEPT !.posInExtBlk = i, !.currentData = D[S[c + 1]],
                          !.curDataPtr = S[c + 1], !.nDataBlock = c + 1]
<1>n. c + 1 \in Nat
  OBVIOUS
<1>8. /\ r \in Handles /\ r.mode = k.mode /\ r.fileHdr = k.fileHdr /\ r.pos = k.pos
      /\ r.posInDataBlk = k.posInDataBlk /\ r.currentDataBlockChanged = k.currentDataBlockChanged
      /\ r.nDataBlock = c + 1 /\ r.curDataPtr = S[c + 1] /\ r.currentData = D[S[c + 1]]
      /\ r.currentExt = k.currentExt /\ r.posInExtBlk = i
  BY <1>1, <1>4, <1>7, <1>n DEF Handles
<1>9. g = r
  <2> DEFINE u == [k EXCEPT !.posInExtBlk = i]
  <2>1. u.nDataBlock = c
    BY <1>1 DEF Handles
  <2>2. g = [u EXCEPT !.currentData = D[S[c + 1]], !.curDataPtr = S[c + 1], !.nDataBlock = c + 1]
    BY <1>4, <1>5, <1>6, <2>1
  <2> HIDE DEF g
  <2> QED
    BY <2>2, <1>1 DEF Handles
<1> HIDE DEF r, g
<1>10. SameRest(f, r)
  BY <1>1, <1>8 DEF SameRest
<1>11. ExtKnown(D, E, r)
  BY <1>1, <1>8 DEF ExtKnown
<1>12. ExtAt(dosType, D, E, r)
  <2> SUFFICES ASSUME dosType # "OFS", c + 1 > MaxDataBlk
               PROVE  \E e \in DOMAIN E : /\ c + 1 = e * MaxDataBlk + r.posInExtBlk
                                          /\ r.posInExtBlk > 0 /\ r.currentExt = D[E[e]]
    BY <1>8 DEF ExtAt
  <2>1. c >= MaxDataBlk
    BY <1>3
  <2>2. PICK e \in DOMAIN E : c = e * MaxDataBlk + k.posInExtBlk /\ k.currentExt = D[E[e]]
    BY <1>2, <2>1
  <2>3. i = k.posInExtBlk + 1 /\ k.posInExtBlk \in Nat
    BY <1>1, <2>1 DEF i, Handles
  <2>4. e * MaxDataBlk \in Nat
    BY <1>3, MulNat
  <2>5. c + 1 = e * MaxDataBlk + i /\ i > 0
    BY <2>2, <2>3, <2>4
  <2> QED
    BY <1>8, <2>2, <2>5
<1>13. Holds(dosType, D, S, E, r, c + 1)
  BY <1>3, <1>8, <1>11, <1>12 DEF Holds
<1> QED
  BY <1>8, <1>9, <1>10, <1>13 DEF g

\* Before the first data block, it takes the first one.
LEMMA ReadsFirst ==
  ASSUME NEW D \in Disks, NEW h \in Headers, NEW S, NEW E, Chain(dosType, D, h, S, E),
         S # <<>>, NEW f \in Handles, f.fileHdr = h, f.nDataBlock = 0, ExtKnown(D, E, f)
  PROVE  LET g == ReadNextBlock(D, f) IN
         g \in Handles /\ SameRest(f, g) /\ Holds(dosType, D, S, E, g, 1)
<1> USE FileAssumption DEF isOFS
<1> DEFINE g == ReadNextBlock(D, f)
<1>1. Len(S) \in Nat /\ DOMAIN S = 1 .. Len(S) /\ 1 \in DOMAIN S
  BY ChainFacts
<1>2. /\ S[1] \in Sectors /\ S[1] # 0 /\ D[S[1]] \in DataBlks /\ AsData(D, S[1]) = D[S[1]]
  BY <1>1, ChainFacts
<1>3. ExtForNext(D, f) = f
  BY DEF ExtForNext
<1>4. NextSect(f) = S[1]
  BY DEF NextSect, Chain, Listed
<1>5. f = [f EXCEPT !.posInExtBlk = @]
  BY DEF Handles
<1> DEFINE r == [f EXCEPT !.currentData = D[S[1]], !.curDataPtr = S[1], !.nDataBlock = 1]
<1>6. g = r
  <2>1. ~(dosType # "OFS" /\ f.nDataBlock >= MaxDataBlk)
    OBVIOUS
  <2>2. [f EXCEPT !.posInExtBlk = IF dosType # "OFS" /\ f.nDataBlock >= MaxDataBlk
                                   THEN @ + 1 ELSE @] = f
    BY <1>5, <2>1
  <2>3. g = [f EXCEPT !.currentData = AsData(D, S[1]), !.curDataPtr = S[1], !.nDataBlock = @ + 1]
    BY <1>2, <1>3, <1>4, <2>2 DEF ReadNextBlock
  <2> QED
    BY <1>2, <2>3
<1>7. /\ r \in Handles /\ SameRest(f, r)
      /\ r.nDataBlock = 1 /\ r.curDataPtr = S[1] /\ r.currentData = D[S[1]]
      /\ r.currentExt = f.currentExt
  BY <1>2 DEF Handles, SameRest
<1> HIDE DEF r, g
<1>8. ExtKnown(D, E, r) /\ ExtAt(dosType, D, E, r)
  BY <1>7 DEF ExtKnown, ExtAt
<1>9. Holds(dosType, D, S, E, r, 1)
  BY <1>1, <1>7, <1>8 DEF Holds
<1> QED
  BY <1>6, <1>7, <1>9 DEF g

----------------------------------------------------------------------------
(* Seeking.                                                                 *)

\* Following the extension blocks from the header finds the k-th after the first.
LEMMA WalkChain ==
  ASSUME NEW D \in Disks, NEW h \in Headers, NEW t, NEW S, NEW E, Listed(t, D, h, S, E),
         NEW k \in Nat, k < Len(E)
  PROVE  Walk(ExtNext(D), h.extension, k)[k] = E[k + 1]
<1> DEFINE F == ExtNext(D)
           w == Walk(F, h.extension, k)
           T == {i \in Nat : w[i] = E[i + 1]}
<1>1. E \in Seq(Blocks) /\ Len(E) \in Nat /\ DOMAIN E = 1 .. Len(E)
  BY LenProperties DEF Listed
<1>2. \A j \in 1 .. Len(E) : E[j] \in Blocks /\ E[j] \in Sectors
  BY <1>1, ElementOfSeq, SectorFacts
<1>3. h.extension = E[1]
  <2>1. E # <<>>
    BY <1>1
  <2> QED
    BY <2>1 DEF Listed
<1>4. F \in [Sectors -> Sectors] /\ \A s \in Blocks : D[s].kind = "ext" => F[s] = D[s].extension
  BY ExtNextTypes
<1>5. IsWalk(w, F, h.extension, k)
  <2>1. h.extension \in Sectors /\ \A x \in Sectors : F[x] \in Sectors
    BY <1>4 DEF Headers
  <2> HIDE DEF F
  <2> QED
    BY <2>1, WalkDef
<1>6. w[0] = E[1] /\ \A i \in 1 .. k : w[i] = F[w[i - 1]]
  BY <1>3, <1>5 DEF IsWalk
<1> HIDE DEF w, F
<1>7. 0 \in T
  BY <1>6
<1>8. \A i \in 0 .. k - 1 : i \in T => i + 1 \in T
  <2> SUFFICES ASSUME NEW i \in 0 .. k - 1, w[i] = E[i + 1] PROVE w[i + 1] = E[i + 2]
    OBVIOUS
  <2>1. i + 1 \in 1 .. k /\ (i + 1) - 1 = i /\ i + 1 \in 1 .. Len(E) /\ i + 1 < Len(E)
        /\ (i + 1) + 1 = i + 2
    BY <1>1
  <2>2. w[i + 1] = F[E[i + 1]]
    BY <1>6, <2>1
  <2>3. D[E[i + 1]].kind = "ext" /\ D[E[i + 1]].extension = E[i + 2]
    BY <1>1, <2>1 DEF Listed
  <2> QED
    BY <1>2, <1>4, <2>1, <2>2, <2>3
<1>9. 0 .. k \subseteq T
  <2> HIDE DEF T
  <2> QED
    BY <1>7, <1>8, RangeInd
<1>10. w[k] = E[k + 1]
  BY <1>9
<1> QED
  BY <1>10 DEF w, F

\* To the start: the first data block is in memory, if the file has one.
LEMMA SeekStartAgrees ==
  ASSUME NEW D \in Disks, NEW h \in Headers, NEW S, NEW E, Chain(dosType, D, h, S, E),
         NEW f \in Handles, f.fileHdr = h, ExtKnown(D, E, f)
  PROVE  LET g == SeekStart(D, f) IN
         /\ g \in Handles /\ Agrees(dosType, D, h, S, E, g)
         /\ g.mode = f.mode /\ g.pos = 0 /\ g.posInDataBlk = 0
         /\ g.currentDataBlockChanged = f.currentDataBlockChanged
<1> USE FileAssumption
<1> DEFINE z == [f EXCEPT !.pos = 0, !.posInExtBlk = 0, !.posInDataBlk = 0,
                          !.nDataBlock = 0, !.curDataPtr = 0]
           g == SeekStart(D, f)
<1>1. /\ z \in Handles /\ z.fileHdr = h /\ z.mode = f.mode /\ z.pos = 0 /\ z.posInDataBlk = 0
      /\ z.nDataBlock = 0 /\ z.curDataPtr = 0 /\ z.currentExt = f.currentExt
      /\ z.currentDataBlockChanged = f.currentDataBlockChanged
  <2>1. 0 \in Sectors /\ 0 \in Nat /\ 0 \in 0 .. BlockSize /\ 0 \in 0 .. MaxDataBlk
    BY SectorFacts
  <2> QED
    BY <2>1 DEF Handles
<1>2. ExtKnown(D, E, z)
  BY <1>1 DEF ExtKnown
<1>3. Len(S) \in Nat /\ (S = <<>> <=> Len(S) = 0) /\ h.byteSize \in Nat
  BY ChainFacts DEF Headers
<1>4. h.byteSize <= Len(S) * BlockSize /\ Len(S) * BlockSize < h.byteSize + BlockSize
  BY DEF Chain, Listed, Counts
<1>5. CASE h.byteSize = 0
  <2>1. g = z
    BY <1>5 DEF SeekStart
  <2>2. S = <<>>
    <3>1. Len(S) * BlockSize < 0 * BlockSize + BlockSize
      BY <1>4, <1>5
    <3>2. Len(S) <= 0
      BY <1>3, <3>1, MulLess
    <3> QED
      BY <1>3, <3>2
  <2> HIDE DEF z
  <2>3. Agrees(dosType, D, h, S, E, z)
    BY <1>1, <1>2, <2>2 DEF Agrees
  <2> QED
    BY <1>1, <2>1, <2>3
<1>6. CASE h.byteSize # 0
  <2>1. g = ReadNextBlock(D, z)
    BY <1>6 DEF SeekStart
  <2>2. S # <<>>
    <3>1. 0 * BlockSize = 0
      OBVIOUS
    <3> QED
      BY <1>3, <1>4, <1>6, <3>1
  <2> HIDE DEF z, g
  <2>3. g \in Handles /\ SameRest(z, g) /\ Holds(dosType, D, S, E, g, 1)
    BY <1>1, <1>2, <2>1, <2>2, ReadsFirst
  <2>4. g.nDataBlock = 1 /\ ExtKnown(D, E, g) /\ g.pos = 0 /\ g.posInDataBlk = 0
    BY <1>1, <2>3 DEF Holds, SameRest
  <2>5. (1 - 1) * BlockSize + 0 = 0
    OBVIOUS
  <2>6. Agrees(dosType, D, h, S, E, g)
    BY <1>1, <2>2, <2>3, <2>4, <2>5 DEF Agrees, SameRest
  <2>7. /\ g \in Handles /\ g.mode = f.mode /\ g.pos = 0 /\ g.posInDataBlk = 0
        /\ g.currentDataBlockChanged = f.currentDataBlockChanged
    BY <1>1, <2>3 DEF SameRest
  <2> QED
    BY <2>6, <2>7 DEF g
<1> QED
  BY <1>5, <1>6

\* A position before the end is in one of the data blocks.
LEMMA PosInBlock ==
  ASSUME NEW size \in Nat, NEW N \in Nat, size <= N * BlockSize, NEW p \in Nat, p < size
  PROVE  /\ p \div BlockSize \in 0 .. N - 1 /\ p % BlockSize \in 0 .. BlockSize - 1
         /\ p = (p \div BlockSize) * BlockSize + (p % BlockSize)
<1> USE FileAssumption
<1> DEFINE q == p \div BlockSize
           r == p % BlockSize
<1>1. q \in Nat /\ r \in 0 .. BlockSize - 1 /\ p = q * BlockSize + r
  BY DivLaw
<1> HIDE DEF q, r
<1>2. q * BlockSize \in Nat /\ N * BlockSize \in Nat
  BY <1>1, MulNat
<1>3. q < N
  <2>1. CASE N <= q
    <3>1. N * BlockSize <= q * BlockSize
      BY <1>1, <2>1, MulMono
    <3> QED
      BY <1>1, <1>2, <3>1
  <2> QED
    BY <1>1, <2>1
<1> QED
  BY <1>1, <1>3 DEF q, r

\* To a position of another block: by way of the header or the extension blocks.
LEMMA SeekExtHolds ==
  ASSUME NEW D \in Disks, NEW h \in Headers, NEW S, NEW E, Chain(dosType, D, h, S, E),
         NEW f \in Handles, f.fileHdr = h, ExtKnown(D, E, f), NEW p \in Nat, p < h.byteSize
  PROVE  LET g == SeekExt(D, f, p) IN
         /\ g \in Handles /\ Holds(dosType, D, S, E, g, (p \div BlockSize) + 1)
         /\ g.mode = f.mode /\ g.fileHdr = h /\ g.pos = p /\ g.posInDataBlk = p % BlockSize
         /\ g.currentDataBlockChanged = f.currentDataBlockChanged
<1> USE FileAssumption
<1> DEFINE N == Len(S)
           M == Len(E)
           n == p \div BlockSize
           r == p % BlockSize
           g == SeekExt(D, f, p)
\* The handle with the extension block x and i pointers of it used.
           Z(x, i) == [f EXCEPT !.pos = p, !.posInDataBlk = r, !.posInExtBlk = i, !.currentExt = x,
                                !.curDataPtr = S[n + 1], !.currentData = D[S[n + 1]],
                                !.nDataBlock = n + 1]
<1>1. /\ S \in Seq(Blocks) /\ N \in Nat /\ DOMAIN S = 1 .. N /\ M \in Nat /\ DOMAIN E = 1 .. M
      /\ \A j \in DOMAIN E : D[E[j]] \in ExtBlks /\ AsExt(D, E[j]) = D[E[j]]
      /\ \A i \in DOMAIN S : /\ S[i] \in Sectors /\ S[i] # 0
                             /\ D[S[i]] \in DataBlks /\ AsData(D, S[i]) = D[S[i]]
  BY ChainFacts
<1>2. /\ Listed(dosType, D, h, S, E) /\ Counts(h.byteSize, N, M) /\ h.byteSize \in Nat
      /\ h.byteSize <= N * BlockSize
  BY DEF Chain, Listed, Headers, Counts
<1>3. n \in 0 .. N - 1 /\ r \in 0 .. BlockSize - 1
  BY <1>1, <1>2, PosInBlock
<1> HIDE DEF n, r, N, M
<1>4. n + 1 \in DOMAIN S /\ n \in Nat /\ n < N
  BY <1>1, <1>3
<1>5. S[n + 1] \in Sectors /\ S[n + 1] # 0 /\ D[S[n + 1]] \in DataBlks
      /\ AsData(D, S[n + 1]) = D[S[n + 1]]
  BY <1>1, <1>4
<1>6. ASSUME NEW x \in ExtBlks, NEW i \in 0 .. MaxDataBlk
      PROVE  LET z == Z(x, i) IN
             /\ z \in Handles /\ z.mode = f.mode /\ z.fileHdr = h /\ z.pos = p
             /\ z.posInDataBlk = r /\ z.currentDataBlockChanged = f.currentDataBlockChanged
             /\ z.currentExt = x /\ z.posInExtBlk = i /\ z.nDataBlock = n + 1
             /\ z.curDataPtr = S[n + 1] /\ z.currentData = D[S[n + 1]]
  <2>1. r \in 0 .. BlockSize /\ n + 1 \in Nat
    BY <1>3, <1>4
  <2> QED
    BY <1>5, <2>1 DEF Handles
<1>7. CASE n < MaxDataBlk
  <2> DEFINE z == Z(f.currentExt, 0)
  <2>1. At(h.dataBlocks, n) = S[n + 1]
    <3>1. 0 * MaxDataBlk = 0 /\ 0 + n + 1 = n + 1 /\ 0 + n = n
      BY <1>4
    <3>2. At(Part(S, 0), n) = S[0 * MaxDataBlk + n + 1]
      BY <1>1, <1>4, <1>7, <3>1, PartAt DEF N
    <3> QED
      BY <1>2, <3>1, <3>2 DEF Listed
  <2>2. g = z
    <3> DEFINE y == [f EXCEPT !.pos = p, !.posInDataBlk = r, !.posInExtBlk = 0,
                              !.curDataPtr = At(f.fileHdr.dataBlocks, n)]
    <3>1. g = IF y.curDataPtr = 0 THEN [y EXCEPT !.nDataBlock = n]
              ELSE [y EXCEPT !.currentData = AsData(D, y.curDataPtr), !.nDataBlock = n + 1]
      BY <1>7 DEF SeekExt, n, r, Handles
    <3>2. y.curDataPtr = S[n + 1]
      BY <2>1 DEF Handles
    <3>3. g = [y EXCEPT !.currentData = D[S[n + 1]], !.nDataBlock = n + 1]
      BY <1>5, <3>1, <3>2
    <3> HIDE DEF g
    <3> QED
      BY <2>1, <3>3 DEF Handles
  <2>3. f.currentExt \in ExtBlks /\ 0 \in 0 .. MaxDataBlk
    BY DEF Handles
  <2>4. /\ z \in Handles /\ z.mode = f.mode /\ z.fileHdr = h /\ z.pos = p
        /\ z.posInDataBlk = r /\ z.currentDataBlockChanged = f.currentDataBlockChanged
        /\ z.currentExt = f.currentExt /\ z.nDataBlock = n + 1
        /\ z.curDataPtr = S[n + 1] /\ z.currentData = D[S[n + 1]]
    <3> HIDE DEF Z
    <3> QED
      BY <1>6, <2>3
  <2> HIDE DEF z, g, Z
  <2>5. ExtKnown(D, E, z) /\ ExtAt(dosType, D, E, z)
    <3>1. ~(n + 1 > MaxDataBlk)
      BY <1>4, <1>7
    <3> QED
      BY <2>4, <3>1 DEF ExtKnown, ExtAt
  <2>6. Holds(dosType, D, S, E, z, n + 1)
    BY <1>4, <2>4, <2>5 DEF Holds
  <2> QED
    BY <2>2, <2>4, <2>6 DEF g, n, r
<1>8. CASE n >= MaxDataBlk
  <2> DEFINE j == n \div MaxDataBlk
             i == n % MaxDataBlk
             z == Z(D[E[j]], i + 1)
  <2>1. j \in Nat /\ i \in 0 .. MaxDataBlk - 1 /\ n = j * MaxDataBlk + i
    BY <1>4, DivLaw
  <2> HIDE DEF j, i
  <2>2. j # 0
    <3>1. 0 * MaxDataBlk = 0
      OBVIOUS
    <3> QED
      BY <1>8, <2>1, <3>1
  <2>3. j * MaxDataBlk \in Nat /\ j * MaxDataBlk < N
    <3>1. j * MaxDataBlk \in Nat
      BY <2>1, MulNat
    <3> QED
      BY <1>1, <1>4, <2>1, <3>1
  <2>4. j \in DOMAIN E
    <3>1. j <= M
      BY <1>1, <1>2, <2>1, <2>3, ExtIndex
    <3> QED
      BY <1>1, <2>1, <2>2, <3>1
  <2>5. (n - MaxDataBlk) \div MaxDataBlk = j - 1 /\ (n - MaxDataBlk) % MaxDataBlk = i
    <3> DEFINE q == j - 1
    <3>1. q \in Nat /\ (j - 1) * MaxDataBlk = j * MaxDataBlk - MaxDataBlk
      BY <2>1, <2>2, MulSucc
    <3>2. n - MaxDataBlk = q * MaxDataBlk + i
      BY <2>1, <2>3, <3>1
    <3> HIDE DEF q
    <3>3. (q * MaxDataBlk + i) \div MaxDataBlk = q /\ (q * MaxDataBlk + i) % MaxDataBlk = i
      BY <2>1, <3>1, DivUnique
    <3> QED
      BY <3>2, <3>3 DEF q
  <2>6. ExtBlockN(D, f, j - 1) = D[E[j]]
    <3> DEFINE k == j - 1
    <3>1. k \in Nat /\ k < Len(E) /\ k + 1 = j
      BY <1>1, <2>1, <2>2, <2>4 DEF M
    <3> HIDE DEF k
    <3>2. Walk(ExtNext(D), h.extension, k)[k] = E[j]
      BY <1>2, <3>1, WalkChain
    <3>3. ExtBlockN(D, f, k) = AsExt(D, E[j])
      BY <3>2 DEF ExtBlockN
    <3> QED
      BY <1>1, <2>4, <3>3 DEF k
  <2>7. At(D[E[j]].dataBlocks, i) = S[n + 1]
    <3>1. D[E[j]].dataBlocks = Part(S, j)
      BY <1>2, <2>4 DEF Listed
    <3>2. i \in Nat /\ i < MaxDataBlk /\ j * MaxDataBlk + i < Len(S)
      BY <1>4, <2>1 DEF N
    <3>3. At(Part(S, j), i) = S[j * MaxDataBlk + i + 1]
      BY <1>1, <2>1, <3>2, PartAt
    <3> QED
      BY <2>1, <3>1, <3>3
  <2>8. D[E[j]] \in ExtBlks /\ i + 1 \in 0 .. MaxDataBlk
    <3>1. D[E[j]] \in ExtBlks
      BY <1>1, <2>4
    <3>2. i + 1 \in 0 .. MaxDataBlk
      BY <2>1
    <3> QED
      BY <3>1, <3>2
  <2>9. g = z
    <3> DEFINE y == [f EXCEPT !.pos = p, !.posInDataBlk = r, !.posInExtBlk = i + 1,
                              !.currentExt = D[E[j]], !.curDataPtr = At(D[E[j]].dataBlocks, i)]
    <3>1. ~(n < MaxDataBlk)
      BY <1>4, <1>8
    <3>2. y = [[f EXCEPT !.pos = p, !.posInDataBlk = r] EXCEPT !.posInExtBlk = i + 1,
                 !.currentExt = D[E[j]], !.curDataPtr = At(D[E[j]].dataBlocks, i)]
      BY DEF Handles
    <3>3. g = IF y.curDataPtr = 0 THEN [y EXCEPT !.nDataBlock = n]
              ELSE [y EXCEPT !.currentData = AsData(D, y.curDataPtr), !.nDataBlock = n + 1]
      <4> DEFINE i1 == (n - MaxDataBlk) % MaxDataBlk
                 x1 == ExtBlockN(D, f, (n - MaxDataBlk) \div MaxDataBlk)
                 y1 == [[f EXCEPT !.pos = p, !.posInDataBlk = r] EXCEPT !.posInExtBlk = i1 + 1,
                          !.currentExt = x1, !.curDataPtr = At(x1.dataBlocks, i1)]
      <4>1. g = IF y1.curDataPtr = 0 THEN [y1 EXCEPT !.nDataBlock = n]
                ELSE [y1 EXCEPT !.currentData = AsData(D, y1.curDataPtr), !.nDataBlock = n + 1]
        BY <3>1 DEF SeekExt, n, r
      <4>2. i1 = i /\ x1 = D[E[j]]
        BY <2>5, <2>6
      <4> HIDE DEF i1, x1
      <4>3. y1 = y
        BY <3>2, <4>2
      <4> HIDE DEF y1, y, g
      <4> QED
        BY <4>1, <4>3
    <3>4. y.curDataPtr = S[n + 1]
      BY <2>7 DEF Handles
    <3>5. g = [y EXCEPT !.currentData = D[S[n + 1]], !.nDataBlock = n + 1]
      BY <1>5, <3>3, <3>4
    <3> HIDE DEF g
    <3> QED
      BY <2>7, <3>5 DEF Handles
  <2>10. /\ z \in Handles /\ z.mode = f.mode /\ z.fileHdr = h /\ z.pos = p
         /\ z.posInDataBlk = r /\ z.currentDataBlockChanged = f.currentDataBlockChanged
         /\ z.currentExt = D[E[j]] /\ z.posInExtBlk = i + 1 /\ z.nDataBlock = n + 1
         /\ z.curDataPtr = S[n + 1] /\ z.currentData = D[S[n + 1]]
    BY <1>6, <2>8
  <2> HIDE DEF z, g, Z
  <2>11. ExtKnown(D, E, z)
    BY <2>4, <2>10 DEF ExtKnown
  <2>12. ExtAt(dosType, D, E, z)
    <3>1. n + 1 = j * MaxDataBlk + (i + 1) /\ i + 1 > 0
      BY <2>1, <2>3
    <3> QED
      BY <2>4, <2>10, <3>1 DEF ExtAt
  <2>13. Holds(dosType, D, S, E, z, n + 1)
    BY <1>4, <2>10, <2>11, <2>12 DEF Holds
  <2> QED
    BY <2>9, <2>10, <2>13 DEF g, n, r
<1>9. n < MaxDataBlk \/ n >= MaxDataBlk
  BY <1>4
<1> QED
  BY <1>7, <1>8, <1>9

\* To a position in the block in memory.
MovedTo(f, p) == [f EXCEPT !.pos = p, !.posInDataBlk = p % BlockSize]

LEMMA MovesInBlock ==
  ASSUME NEW D \in Disks, NEW h \in Headers, NEW S, NEW E, Chain(dosType, D, h, S, E),
         NEW f \in Handles, Agrees(dosType, D, h, S, E, f), NEW p \in Nat, InCurrentBlock(f, p)
  PROVE  LET z == MovedTo(f, p) IN
         /\ z \in Handles /\ Agrees(dosType, D, h, S, E, z)
         /\ z.mode = f.mode /\ z.pos = p /\ z.posInDataBlk = p % BlockSize
         /\ z.currentDataBlockChanged = f.currentDataBlockChanged
         /\ z.curDataPtr = f.curDataPtr /\ z.currentData = f.currentData
         /\ z.currentExt = f.currentExt /\ z.fileHdr = f.fileHdr
<1> USE FileAssumption
<1> DEFINE q == p \div BlockSize
           r == p % BlockSize
           z == [f EXCEPT !.pos = p, !.posInDataBlk = r]
<1>1. Len(S) \in Nat /\ DOMAIN S = 1 .. Len(S)
  BY ChainFacts
<1>2. q \in Nat /\ r \in 0 .. BlockSize - 1 /\ p = q * BlockSize + r
  BY DivLaw
<1>3. S # <<>>
  BY DEF Agrees, InCurrentBlock
<1>4. f.fileHdr = h /\ ExtKnown(D, E, f) /\ Holds(dosType, D, S, E, f, f.nDataBlock)
  BY <1>3 DEF Agrees
<1>5. f.nDataBlock \in DOMAIN S
  BY <1>4 DEF Holds
<1>6. f.nDataBlock - 1 = q
  BY <1>1, <1>5 DEF InCurrentBlock, CurDatablock
<1> HIDE DEF q, r
<1>7. r \in 0 .. BlockSize
  BY <1>2
<1>8. /\ z \in Handles /\ z.fileHdr = h /\ z.mode = f.mode /\ z.pos = p /\ z.posInDataBlk = r
      /\ z.currentDataBlockChanged = f.currentDataBlockChanged
      /\ z.nDataBlock = f.nDataBlock /\ z.curDataPtr = f.curDataPtr
      /\ z.currentData = f.currentData /\ z.currentExt = f.currentExt
      /\ z.posInExtBlk = f.posInExtBlk
  BY <1>4, <1>7 DEF Handles
<1> HIDE DEF z
<1>9. ExtKnown(D, E, z) /\ Holds(dosType, D, S, E, z, z.nDataBlock)
  BY <1>4, <1>8 DEF Holds, ExtKnown, ExtAt
<1>10. z.pos = (z.nDataBlock - 1) * BlockSize + z.posInDataBlk
  BY <1>2, <1>6, <1>8
<1>11. Agrees(dosType, D, h, S, E, z)
  BY <1>3, <1>8, <1>9, <1>10 DEF Agrees
<1> QED
  BY <1>4, <1>8, <1>11 DEF z, r, MovedTo

\* To a position before the end of the file.
LEMMA SeekInsideAgrees ==
  ASSUME NEW D \in Disks, NEW h \in Headers, NEW S, NEW E, Chain(dosType, D, h, S, E),
         NEW f \in Handles, Agrees(dosType, D, h, S, E, f), NEW p \in Nat, p < h.byteSize
  PROVE  LET g == SeekInside(D, f, p) IN
         /\ g \in Handles /\ Agrees(dosType, D, h, S, E, g)
         /\ g.mode = f.mode /\ g.pos = p /\ g.posInDataBlk = p % BlockSize
         /\ g.currentDataBlockChanged = f.currentDataBlockChanged
<1> USE FileAssumption
<1> DEFINE g == SeekInside(D, f, p)
           q == p \div BlockSize
           r == p % BlockSize
<1>1. /\ Len(S) \in Nat /\ DOMAIN S = 1 .. Len(S) /\ (S = <<>> <=> Len(S) = 0)
      /\ h.byteSize \in Nat /\ h.byteSize <= Len(S) * BlockSize
  BY ChainFacts DEF Chain, Listed, Counts, Headers
<1>2. q \in 0 .. Len(S) - 1 /\ r \in 0 .. BlockSize - 1 /\ p = q * BlockSize + r
  BY <1>1, PosInBlock
<1>3. S # <<>>
  BY <1>1, <1>2
<1>4. f.fileHdr = h /\ ExtKnown(D, E, f) /\ Holds(dosType, D, S, E, f, f.nDataBlock)
  BY <1>3 DEF Agrees
<1>5. CASE InCurrentBlock(f, p)
  <2>1. g = MovedTo(f, p)
    BY <1>5 DEF SeekInside, MovedTo
  <2> QED
    BY <1>5, <2>1, MovesInBlock
<1>6. CASE ~InCurrentBlock(f, p) /\ p = 0
  <2>1. g = SeekStart(D, f)
    BY <1>6 DEF SeekInside
  <2>2. p % BlockSize = 0
    BY <1>6
  <2> QED
    BY <1>4, <1>6, <2>1, <2>2, SeekStartAgrees
<1>7. CASE ~InCurrentBlock(f, p) /\ p # 0
  <2>1. g = SeekExt(D, f, p)
    BY <1>7 DEF SeekInside
  <2> HIDE DEF g
  <2>2. /\ g \in Handles /\ Holds(dosType, D, S, E, g, q + 1)
        /\ g.mode = f.mode /\ g.fileHdr = h /\ g.pos = p /\ g.posInDataBlk = r
        /\ g.currentDataBlockChanged = f.currentDataBlockChanged
    BY <1>4, <2>1, SeekExtHolds
  <2> HIDE DEF q, r
  <2>3. g.nDataBlock = q + 1 /\ ExtKnown(D, E, g)
    BY <2>2 DEF Holds
  <2>4. g.pos = (g.nDataBlock - 1) * BlockSize + g.posInDataBlk
    <3>1. (q + 1) - 1 = q
      BY <1>2
    <3> QED
      BY <1>2, <2>2, <2>3, <3>1
  <2>5. Agrees(dosType, D, h, S, E, g)
    BY <1>3, <2>2, <2>3, <2>4 DEF Agrees
  <2> QED
    BY <2>2, <2>5 DEF g, r
<1> QED
  BY <1>5, <1>6, <1>7

\* To the end.
LEMMA SeekEOFAgrees ==
  ASSUME NEW D \in Disks, NEW h \in Headers, NEW S, NEW E, Chain(dosType, D, h, S, E),
         NEW f \in Handles, Agrees(dosType, D, h, S, E, f)
  PROVE  LET g == SeekEOF(D, f) IN
         /\ g \in Handles /\ Agrees(dosType, D, h, S, E, g)
         /\ g.mode = f.mode /\ g.pos = h.byteSize
         /\ g.currentDataBlockChanged = f.currentDataBlockChanged
<1> USE FileAssumption
<1> DEFINE g == SeekEOF(D, f)
           size == h.byteSize
<1>1. /\ Len(S) \in Nat /\ DOMAIN S = 1 .. Len(S) /\ (S = <<>> <=> Len(S) = 0)
      /\ size \in Nat /\ size <= Len(S) * BlockSize
  BY ChainFacts DEF Chain, Listed, Counts, Headers
<1>2. f.fileHdr = h /\ ExtKnown(D, E, f)
  BY DEF Agrees
<1>3. CASE size = 0
  <2>1. g = SeekStart(D, f)
    BY <1>2, <1>3 DEF SeekEOF
  <2> QED
    BY <1>2, <1>3, <2>1, SeekStartAgrees
<1>4. CASE size # 0
  <2> DEFINE p == size - 1
             y == SeekInside(D, f, p)
             r == IF size % BlockSize = 0 THEN BlockSize ELSE size % BlockSize
             z == [y EXCEPT !.pos = size, !.posInDataBlk = r]
  <2>1. p \in Nat /\ p < size
    BY <1>1, <1>4
  <2>2. g = z
    BY <1>2, <1>4 DEF SeekEOF
  <2>3. /\ y \in Handles /\ Agrees(dosType, D, h, S, E, y) /\ y.mode = f.mode /\ y.pos = p
        /\ y.posInDataBlk = p % BlockSize
        /\ y.currentDataBlockChanged = f.currentDataBlockChanged
    <3> HIDE DEF p
    <3> QED
      BY <2>1, SeekInsideAgrees
  <2>4. S # <<>>
    <3>1. 0 * BlockSize = 0
      OBVIOUS
    <3> QED
      BY <1>1, <1>4, <3>1
  <2>5. /\ Holds(dosType, D, S, E, y, y.nDataBlock) /\ y.fileHdr = h /\ ExtKnown(D, E, y)
        /\ y.pos = (y.nDataBlock - 1) * BlockSize + y.posInDataBlk
    BY <2>3, <2>4 DEF Agrees
  <2>6. y.nDataBlock \in DOMAIN S
    BY <2>5 DEF Holds
  <2> DEFINE q == y.nDataBlock - 1
             i == y.posInDataBlk
  <2>7. q \in Nat /\ i \in 0 .. BlockSize - 1 /\ p = q * BlockSize + i /\ q * BlockSize \in Nat
    <3>1. q \in Nat /\ q * BlockSize \in Nat
      BY <1>1, <2>6, MulNat
    <3>2. p % BlockSize \in 0 .. BlockSize - 1
      BY <2>1, DivLaw
    <3> HIDE DEF p, y
    <3> QED
      BY <2>3, <2>5, <3>1, <3>2
  <2> HIDE DEF y
  <2>8. size = q * BlockSize + r /\ r \in 0 .. BlockSize
    <3> HIDE DEF q, i
    <3>1. size = q * BlockSize + (i + 1)
      BY <1>1, <2>7
    <3>2. CASE i + 1 = BlockSize
      <4>1. (q + 1) * BlockSize = q * BlockSize + BlockSize
        BY <2>7, MulSucc
      <4>2. size = (q + 1) * BlockSize + 0
        BY <2>7, <3>1, <3>2, <4>1
      <4>3. size % BlockSize = 0
        <5> DEFINE q1 == q + 1
        <5>1. q1 \in Nat
          BY <2>7
        <5> HIDE DEF q1
        <5>2. (q1 * BlockSize + 0) % BlockSize = 0
          BY <5>1, DivUnique
        <5> QED
          BY <4>2, <5>2 DEF q1
      <4> QED
        BY <3>1, <3>2, <4>3
    <3>3. CASE i + 1 # BlockSize
      <4> DEFINE i1 == i + 1
      <4>1. i1 \in 0 .. BlockSize - 1 /\ i1 # 0
        BY <2>7, <3>3
      <4> HIDE DEF i1
      <4>2. (q * BlockSize + i1) % BlockSize = i1
        BY <2>7, <4>1, DivUnique
      <4>3. size % BlockSize = i1
        BY <3>1, <4>2 DEF i1
      <4> QED
        BY <3>1, <4>1, <4>3 DEF i1
    <3> QED
      BY <3>2, <3>3
  <2> HIDE DEF r
  <2>9. /\ z \in Handles /\ z.fileHdr = h /\ z.mode = f.mode /\ z.pos = size
        /\ z.posInDataBlk = r /\ z.currentDataBlockChanged = f.currentDataBlockChanged
        /\ z.nDataBlock = y.nDataBlock /\ z.curDataPtr = y.curDataPtr
        /\ z.currentData = y.currentData /\ z.currentExt = y.currentExt
        /\ z.posInExtBlk = y.posInExtBlk
    BY <1>1, <2>3, <2>5, <2>8 DEF Handles
  <2> HIDE DEF z
  <2>10. ExtKnown(D, E, z) /\ Holds(dosType, D, S, E, z, z.nDataBlock)
    BY <2>5, <2>9 DEF Holds, ExtKnown, ExtAt
  <2>11. z.pos = (z.nDataBlock - 1) * BlockSize + z.posInDataBlk
    BY <2>8, <2>9
  <2>12. Agrees(dosType, D, h, S, E, z)
    BY <2>4, <2>9, <2>10, <2>11 DEF Agrees
  <2> QED
    BY <2>2, <2>9, <2>12
<1> QED
  BY <1>3, <1>4

\* A connection that agrees with the blocks D before a seek agrees with them after.
\* Only a seek that takes another block into memory looks at the disk.
LEMMA SoughtAgrees ==
  ASSUME NEW D \in Disks, NEW h \in Headers, NEW S, NEW E, Chain(dosType, D, h, S, E),
         NEW f \in Handles, Agrees(dosType, D, h, S, E, f), NEW p \in Nat, p <= h.byteSize,
         Reloads(f, p) => DiskBefore(f) = D
  PROVE  LET g == Sought(f, p) IN
         /\ g \in Handles /\ Agrees(dosType, D, h, S, E, g) /\ g.mode = f.mode /\ g.pos = p
         /\ ~Reloads(f, p) => /\ g.curDataPtr = f.curDataPtr /\ g.currentData = f.currentData
                              /\ g.currentExt = f.currentExt
<1> DEFINE g == Sought(f, p)
           y == Saved(f)
           X == DiskBefore(f)
<1>1. CASE f.pos = p /\ f.curDataPtr # 0
  <2>1. g = f
    BY <1>1 DEF Sought
  <2> QED
    BY <1>1, <2>1
<1>2. CASE ~(f.pos = p /\ f.curDataPtr # 0) /\ InCurrentBlock(f, p)
  <2>1. g = MovedTo(f, p)
    BY <1>2 DEF Sought, MovedTo
  <2> QED
    BY <1>2, <2>1, MovesInBlock
<1>3. CASE ~(f.pos = p /\ f.curDataPtr # 0) /\ ~InCurrentBlock(f, p)
  <2>1. f.fileHdr = h /\ (Reloads(f, p) <=> ~(p = h.byteSize /\ InCurrentBlock(f, p - 1)))
    BY <1>3 DEF Stays, Reloads, Agrees
  <2>2. /\ y \in Handles /\ y.mode = f.mode /\ y.fileHdr = f.fileHdr /\ y.pos = f.pos
        /\ y.nDataBlock = f.nDataBlock /\ y.curDataPtr = f.curDataPtr
        /\ y.currentData = f.currentData /\ y.currentExt = f.currentExt
        /\ y.posInExtBlk = f.posInExtBlk /\ y.posInDataBlk = f.posInDataBlk
    BY DEF Saved, Handles
  <2> HIDE DEF y, X
  <2>3. Agrees(dosType, D, h, S, E, y)
    BY <2>2 DEF Agrees, Holds, ExtKnown, ExtAt
  <2>4. CASE p = h.byteSize
    <3>1. g = SeekEOF(X, y)
      BY <1>3, <2>1, <2>4 DEF Sought, y, X
    <3>2. CASE Reloads(f, p)
      BY <2>2, <2>3, <2>4, <3>1, <3>2, SeekEOFAgrees DEF X
    <3>3. CASE ~Reloads(f, p)
      <4>1. InCurrentBlock(f, p - 1) /\ InCurrentBlock(y, p - 1)
        BY <2>1, <2>2, <3>3 DEF InCurrentBlock, CurDatablock
      <4>2. p # 0
        <5>1. S # <<>>
          BY <4>1 DEF Agrees, InCurrentBlock
        <5>2. (S = <<>> <=> Len(S) = 0) /\ Counts(h.byteSize, Len(S), Len(E)) /\ Len(S) \in Nat
          BY ChainFacts DEF Chain, Listed
        <5> QED
          <6>1. Len(S) \in Nat /\ Len(S) >= 1 /\ Len(S) * BlockSize \in Nat
            BY <5>1, <5>2, FileAssumption, MulNat
          <6>2. 1 * BlockSize <= Len(S) * BlockSize /\ 1 * BlockSize = BlockSize
            BY <6>1, FileAssumption, MulMono
          <6> QED
            BY <2>4, <5>2, <6>1, <6>2, FileAssumption DEF Counts
      <4>3. g = [[y EXCEPT !.pos = p - 1, !.posInDataBlk = (p - 1) % BlockSize] EXCEPT
                   !.pos = p, !.posInDataBlk = IF p % BlockSize = 0 THEN BlockSize
                                               ELSE p % BlockSize]
        BY <2>1, <2>2, <2>4, <3>1, <4>1, <4>2 DEF SeekEOF, SeekInside
      <4>4. g = SeekEOF(D, y)
        BY <2>1, <2>2, <2>4, <4>1, <4>2, <4>3 DEF SeekEOF, SeekInside
      <4>5. /\ g.curDataPtr = f.curDataPtr /\ g.currentData = f.currentData
            /\ g.currentExt = f.currentExt
        BY <2>2, <4>3 DEF Handles
      <4> HIDE DEF g
      <4> QED
        BY <2>2, <2>3, <2>4, <4>4, <4>5, SeekEOFAgrees DEF g
    <3> QED
      BY <3>2, <3>3
  <2>5. CASE p # h.byteSize
    <3>1. g = SeekInside(D, y, p) /\ Reloads(f, p)
      BY <1>3, <2>1, <2>5 DEF Sought, y
    <3>2. p < h.byteSize
      BY <2>5 DEF Headers
    <3> QED
      BY <2>2, <2>3, <3>1, <3>2, SeekInsideAgrees
  <2> QED
    BY <2>4, <2>5
<1> QED
  BY <1>1, <1>2, <1>3

----------------------------------------------------------------------------
(* Flushing.                                                                *)

FlushedOn(D, f) ==
    LET e == f.currentExt.headerKey
        ext == IF e = 0 THEN D ELSE [D EXCEPT ![e] = f.currentExt]
    IN  IF f.fileHdr.byteSize > 0 /\ f.curDataPtr # 0
          THEN [ext EXCEPT ![f.curDataPtr] = f.currentData]
          ELSE ext

LEMMA FlushedIs ==
  ASSUME NEW f
  PROVE  FlushedDisk(f) = FlushedOn(disk, f)
  BY DEF FlushedDisk, FlushedOn

\* What a flush writes: the extension block and the data block in memory.
LEMMA FlushedAt ==
  ASSUME NEW D \in Disks, NEW f \in Handles
  PROVE  LET e == f.currentExt.headerKey
             writes == f.fileHdr.byteSize > 0 /\ f.curDataPtr # 0
         IN
         /\ FlushedOn(D, f) \in Disks
         /\ \A s \in Blocks : FlushedOn(D, f)[s] = IF writes /\ s = f.curDataPtr THEN f.currentData
                                                   ELSE IF s = e THEN f.currentExt ELSE D[s]
<1>1. /\ f.currentExt \in ExtBlks /\ f.currentExt.headerKey \in Sectors /\ f.curDataPtr \in Sectors
      /\ f.currentData \in DataBlks
  BY DEF Handles, ExtBlks
<1> DEFINE e == f.currentExt.headerKey
           X == IF e = 0 THEN D ELSE [D EXCEPT ![e] = f.currentExt]
<1>2. X \in Disks /\ \A s \in Blocks : X[s] = IF s = e THEN f.currentExt ELSE D[s]
  <2> HIDE DEF e
  <2>1. e = 0 \/ e \in Blocks
    BY <1>1, SectorFacts DEF e
  <2> QED
    BY <1>1, <2>1, SectorFacts DEF Disks
<1> HIDE DEF X
<1>3. FlushedOn(D, f) = IF f.fileHdr.byteSize > 0 /\ f.curDataPtr # 0
                          THEN [X EXCEPT ![f.curDataPtr] = f.currentData] ELSE X
  BY DEF FlushedOn, X
<1>4. f.curDataPtr = 0 \/ f.curDataPtr \in Blocks
  BY <1>1, SectorFacts
<1> QED
  BY <1>1, <1>2, <1>3, <1>4, SectorFacts DEF Disks

\* Nothing, when the blocks in memory are those on the disk.
LEMMA FlushedNothing ==
  ASSUME NEW D \in Disks, NEW h \in Headers, NEW t, NEW S, NEW E, Chain(t, D, h, S, E),
         NEW f \in Handles, Agrees(t, D, h, S, E, f)
  PROVE  FlushedOn(D, f) = D
<1> DEFINE X == FlushedOn(D, f)
<1>1. /\ X \in Disks
      /\ \A s \in Blocks : X[s] = IF f.fileHdr.byteSize > 0 /\ f.curDataPtr # 0 /\ s = f.curDataPtr
                                    THEN f.currentData
                                  ELSE IF s = f.currentExt.headerKey THEN f.currentExt ELSE D[s]
  BY FlushedAt
<1>2. ASSUME NEW s \in Blocks, s = f.currentExt.headerKey PROVE D[s] = f.currentExt
  <2>1. f.currentExt # NoExt
    BY <1>2, SectorFacts DEF NoExt, Ext
  <2>2. PICK j \in DOMAIN E : f.currentExt = D[E[j]]
    BY <2>1 DEF Agrees, ExtKnown
  <2>3. D[E[j]].headerKey = E[j]
    BY DEF Chain, Listed
  <2> QED
    BY <1>2, <2>2, <2>3
<1>3. ASSUME f.curDataPtr # 0 PROVE D[f.curDataPtr] = f.currentData
  BY <1>3 DEF Agrees, Holds
<1> HIDE DEF X
<1>4. \A s \in Blocks : X[s] = D[s]
  BY <1>1, <1>2, <1>3
<1>5. X = D
  BY <1>1, <1>4 DEF Disks
<1> QED
  BY <1>5 DEF X

----------------------------------------------------------------------------
(* The inductive invariant.                                                 *)

TypesOK ==
    /\ dosType \in DOMAIN MaxSize
    /\ hdr \in Headers /\ disk \in Disks /\ free \subseteq Blocks
    /\ file \in Handles /\ file.pos <= file.fileHdr.byteSize

BlocksIn(S) == {S[i] : i \in DOMAIN S}

\* The connection sees the file as closing it would leave it.
Sees(D, h, S, E) == Agrees(dosType, D, h, S, E, file)

\* D and h are what closing would leave, a file with the data blocks S and the
\* extension blocks E, and no other block is in use.
FileIs(D, h, S, E) ==
    /\ D \in Disks /\ h \in Headers /\ Left = [D |-> D, h |-> h]
    /\ Chain(dosType, D, h, S, E)
    /\ h.byteSize <= MaxSize[dosType]
    /\ Blocks \ free = BlocksIn(S) \cup BlocksIn(E)
    /\ astray => file.mode = "write"
    /\ ~astray /\ file.mode # "closed" => Sees(D, h, S, E)

SoundFile == TypesOK /\ \E D, h, S, E : FileIs(D, h, S, E)

FileInv == lost \/ SoundFile

\* What Left is.
LEMMA LeftIs ==
  ASSUME NEW D, NEW h, Left = [D |-> D, h |-> h]
  PROVE  /\ Left.D = D /\ Left.h = h
         /\ file.mode = "write" => FlushedOn(disk, file) = D /\ file.fileHdr = h
         /\ file.mode # "write" => disk = D /\ hdr = h
<1>1. Left.D = D /\ Left.h = h
  OBVIOUS
<1>2. Left = IF file.mode = "write" THEN [D |-> FlushedOn(disk, file), h |-> file.fileHdr]
             ELSE [D |-> disk, h |-> hdr]
  BY FlushedIs DEF Left
<1>3. ASSUME file.mode = "write" PROVE FlushedOn(disk, file) = D /\ file.fileHdr = h
  <2>1. Left.D = FlushedOn(disk, file) /\ Left.h = file.fileHdr
    BY <1>2, <1>3
  <2> QED
    BY <1>1, <2>1
<1>4. ASSUME file.mode # "write" PROVE disk = D /\ hdr = h
  <2>1. Left.D = disk /\ Left.h = hdr
    BY <1>2, <1>4
  <2> QED
    BY <1>1, <2>1
<1> QED
  BY <1>1, <1>3, <1>4

\* Empty lists make an empty file on any disk.
LEMMA EmptyFile ==
  ASSUME NEW D, NEW h, NEW t, h.byteSize = 0, h.dataBlocks = <<>>, h.extension = 0
  PROVE  Chain(t, D, h, <<>>, <<>>)
<1> USE FileAssumption
<1>1. /\ <<>> \in Seq(Blocks) /\ Len(<<>>) = 0 /\ DOMAIN <<>> = {}
  BY EmptySeq
<1>2. Counts(0, 0, 0)
  <2>1. 0 * BlockSize = 0
    OBVIOUS
  <2> QED
    BY <2>1 DEF Counts
<1>3. Part(<<>>, 0) = <<>>
  <2>1. PartEnd(0, 0) - 0 * MaxDataBlk = 0
    <3>1. 0 * MaxDataBlk = 0 /\ (0 + 1) * MaxDataBlk = MaxDataBlk
      OBVIOUS
    <3> QED
      BY <3>1 DEF PartEnd
  <2> QED
    BY <1>1, <2>1 DEF Part
<1> QED
  BY <1>1, <1>2, <1>3 DEF Chain, Listed, Injective

LEMMA FileInit == ASSUME InitTruncating PROVE SoundFile /\ FileIs(disk, hdr, <<>>, <<>>)
<1> USE FileAssumption DEF InitTruncating, Init
<1>1. TypesOK
  <2>1. Data(Zeros, 0) \in DataBlks
    BY BlankTypes, SectorFacts
  <2>2. disk \in Disks
    BY <2>1 DEF Disks
  <2>3. file.pos = 0 /\ file.fileHdr.byteSize = 0
    BY DEF Closed, NoHeader
  <2> QED
    BY <2>2, <2>3, BlankTypes DEF TypesOK
<1>2. NoHeader.byteSize = 0 /\ NoHeader.dataBlocks = <<>> /\ NoHeader.extension = 0
  BY DEF NoHeader
<1>3. Chain(dosType, disk, hdr, <<>>, <<>>)
  BY <1>2, EmptyFile
<1>4. Left = [D |-> disk, h |-> hdr] /\ file.mode = "closed"
  BY DEF Left, Closed
<1>5. Blocks \ free = BlocksIn(<<>>) \cup BlocksIn(<<>>)
  BY DEF BlocksIn
<1>6. hdr.byteSize <= MaxSize[dosType]
  BY <1>2
<1>7. FileIs(disk, hdr, <<>>, <<>>)
  BY <1>1, <1>3, <1>4, <1>5, <1>6 DEF FileIs, TypesOK
<1> QED
  BY <1>1, <1>7 DEF SoundFile

\* A connection that agrees with the blocks on the disk leaves them.
LEMMA LeavesIt ==
  ASSUME NEW D \in Disks, NEW h \in Headers, NEW S, NEW E, Chain(dosType, D, h, S, E),
         NEW f \in Handles, Agrees(dosType, D, h, S, E, f),
         file' = f, disk' = D, hdr' = h, dosType' = dosType
  PROVE  Left' = [D |-> D, h |-> h] /\ Sees(D, h, S, E)'
<1>1. FlushedOn(D, f) = D
  BY FlushedNothing
<1>2. f.fileHdr = h
  BY DEF Agrees
<1>3. Left' = [D |-> D, h |-> h]
  BY <1>1, <1>2 DEF Left, FlushedDisk, FlushedOn
<1>4. Sees(D, h, S, E)'
  BY DEF Sees
<1> QED
  BY <1>3, <1>4

LEMMA OpenKeeps ==
  ASSUME TypesOK, NEW D, NEW h, NEW S, NEW E, FileIs(D, h, S, E), ~astray, UNCHANGED astray,
         NEW mode \in {"read", "write"}, adfFileOpen(mode)
  PROVE  TypesOK' /\ FileIs(D, h, S, E)' /\ file'.pos = 0 /\ file'.mode # "closed"
<1> DEFINE f == [Closed EXCEPT !.mode = mode, !.fileHdr = hdr]
<1>1. /\ D \in Disks /\ h \in Headers /\ Left = [D |-> D, h |-> h] /\ Chain(dosType, D, h, S, E)
      /\ file.mode = "closed"
  BY DEF FileIs, adfFileOpen
<1>2. disk = D /\ hdr = h
  BY <1>1, LeftIs
<1>3. f \in Handles /\ f.mode = mode /\ f.fileHdr = h /\ f.currentExt = NoExt
  <2>1. Closed \in Handles /\ Closed.currentExt = NoExt
    BY BlankTypes DEF Closed
  <2> QED
    BY <1>1, <1>2, <2>1 DEF Handles
<1>4. ExtKnown(D, E, f)
  BY <1>3 DEF ExtKnown
<1> HIDE DEF f
<1>5. file' = SeekStart(disk, f)
  BY DEF adfFileOpen, f
<1>6. /\ file' \in Handles /\ Agrees(dosType, D, h, S, E, file')
      /\ file'.mode = mode /\ file'.pos = 0
  <2> DEFINE g == SeekStart(D, f)
  <2>1. /\ g \in Handles /\ Agrees(dosType, D, h, S, E, g) /\ g.mode = mode /\ g.pos = 0
    BY <1>1, <1>3, <1>4, SeekStartAgrees
  <2> QED
    BY <1>2, <1>5, <2>1
<1>7. disk' = D /\ hdr' = h /\ dosType' = dosType /\ free' = free
  BY <1>2 DEF adfFileOpen
<1>8. Left' = [D |-> D, h |-> h] /\ Sees(D, h, S, E)'
  <2>1. PICK g : g = file'
    OBVIOUS
  <2> QED
    BY <1>1, <1>6, <1>7, <2>1, LeavesIt
<1>9. TypesOK'
  <2>1. file'.fileHdr = h /\ h.byteSize \in Nat
    BY <1>1, <1>6 DEF Agrees, Headers
  <2> QED
    BY <1>1, <1>6, <1>7, <2>1 DEF TypesOK
<1>10. FileIs(D, h, S, E)'
  BY <1>1, <1>6, <1>7, <1>8 DEF FileIs
<1> QED
  BY <1>6, <1>9, <1>10

LEMMA CloseKeeps ==
  ASSUME TypesOK, NEW D, NEW h, NEW S, NEW E, FileIs(D, h, S, E), adfFileClose, ~astray'
  PROVE  TypesOK' /\ FileIs(D, h, S, E)' /\ file'.mode = "closed"
<1>1. /\ D \in Disks /\ h \in Headers /\ Left = [D |-> D, h |-> h] /\ Chain(dosType, D, h, S, E)
  BY DEF FileIs
<1>2. disk' = D /\ hdr' = h
  BY <1>1, LeftIs, FlushedIs DEF adfFileClose
<1>3. file' = Closed /\ dosType' = dosType /\ free' = free
  BY DEF adfFileClose
<1>4. Closed \in Handles /\ Closed.mode = "closed" /\ Closed.pos = 0 /\ Closed.fileHdr.byteSize = 0
  BY BlankTypes DEF Closed, NoHeader
<1>5. Left' = [D |-> D, h |-> h]
  BY <1>2, <1>3, <1>4 DEF Left
<1>6. TypesOK'
  BY <1>1, <1>2, <1>3, <1>4 DEF TypesOK
<1>7. FileIs(D, h, S, E)'
  BY <1>1, <1>2, <1>3, <1>4, <1>5 DEF FileIs
<1> QED
  BY <1>3, <1>4, <1>6, <1>7

\* What the flush before a seek or an overwrite leaves on the disk.
LEMMA BeforeIs ==
  ASSUME NEW D, NEW h, Left = [D |-> D, h |-> h], ~Unmarked
  PROVE  DiskBefore(file) = D /\ HeaderBefore(file) = h
<1>1. CASE NeedsFlush(file)
  BY <1>1, LeftIs, FlushedIs DEF DiskBefore, HeaderBefore, NeedsFlush
<1>2. CASE file.mode = "write" /\ ~NeedsFlush(file)
  <2>1. FlushedDisk(file) = disk /\ file.fileHdr = hdr
    BY <1>2 DEF Unmarked, NeedsFlush
  <2> QED
    BY <1>2, <2>1, LeftIs, FlushedIs DEF DiskBefore, HeaderBefore
<1>3. CASE file.mode # "write"
  BY <1>3, LeftIs DEF DiskBefore, HeaderBefore, NeedsFlush
<1> QED
  BY <1>1, <1>2, <1>3

\* A flush writes the same when the blocks in memory are the same.
LEMMA FlushesAlike ==
  ASSUME NEW X, NEW f, NEW g, g.fileHdr = f.fileHdr, g.curDataPtr = f.curDataPtr,
         g.currentData = f.currentData, g.currentExt = f.currentExt
  PROVE  FlushedOn(X, g) = FlushedOn(X, f)
  BY DEF FlushedOn

\* What is on the disk after a seek: what was there, or what closing would leave.
LEMMA SoughtDisk ==
  ASSUME NEW D, NEW h, Left = [D |-> D, h |-> h], NEW p, ~(Unmarked /\ Reloads(file, p)),
         NEW X, NEW x, X = (IF Stays(file, p) THEN disk ELSE DiskBefore(file)),
         x = (IF Stays(file, p) THEN hdr ELSE HeaderBefore(file))
  PROVE  ((X = disk /\ x = hdr) /\ ~Reloads(file, p)) \/ (X = D /\ x = h)
<1>1. CASE Stays(file, p)
  BY <1>1 DEF Reloads
<1>2. CASE ~Stays(file, p) /\ ~Unmarked
  BY <1>2, BeforeIs
<1>3. CASE ~Stays(file, p) /\ Unmarked
  BY <1>3 DEF Unmarked, DiskBefore, HeaderBefore, NeedsFlush
<1> QED
  BY <1>1, <1>2, <1>3

LEMMA SeekKeeps ==
  ASSUME TypesOK, NEW D, NEW h, NEW S, NEW E, FileIs(D, h, S, E), ~astray, UNCHANGED astray,
         NEW p \in 0 .. file.fileHdr.byteSize, adfFileSeek(p), ~(Unmarked /\ Reloads(file, p))
  PROVE  TypesOK' /\ FileIs(D, h, S, E)' /\ file'.pos = p /\ file'.mode # "closed"
<1>1. /\ D \in Disks /\ h \in Headers /\ Left = [D |-> D, h |-> h] /\ Chain(dosType, D, h, S, E)
      /\ file.mode # "closed" /\ file \in Handles /\ hdr \in Headers /\ disk \in Disks
  BY DEF FileIs, adfFileSeek, TypesOK
<1>2. Sees(D, h, S, E) /\ Agrees(dosType, D, h, S, E, file) /\ file.fileHdr = h
  BY <1>1 DEF FileIs, Sees, Agrees
<1>3. Reloads(file, p) => DiskBefore(file) = D /\ HeaderBefore(file) = h
  BY <1>1, BeforeIs
<1>4. p \in Nat /\ p <= h.byteSize /\ h.byteSize \in Nat
  BY <1>1, <1>2 DEF Headers
<1>5. PICK g : g = file'
  OBVIOUS
<1>6. g = Sought(file, p)
  BY <1>5 DEF adfFileSeek
<1>7. /\ g \in Handles /\ Agrees(dosType, D, h, S, E, g) /\ g.mode = file.mode /\ g.pos = p
      /\ ~Reloads(file, p) => /\ g.curDataPtr = file.curDataPtr
                              /\ g.currentData = file.currentData
                              /\ g.currentExt = file.currentExt
  BY <1>1, <1>2, <1>3, <1>4, <1>6, SoughtAgrees
<1>8. dosType' = dosType /\ free' = free /\ g.fileHdr = h
  BY <1>7 DEF adfFileSeek, Agrees
<1>9. Left' = [D |-> D, h |-> h] /\ Sees(D, h, S, E)' /\ disk' \in Disks /\ hdr' \in Headers
  <2>1. CASE (disk' = disk /\ hdr' = hdr) /\ ~Reloads(file, p)
    <3>1. FlushedOn(disk, g) = FlushedOn(disk, file)
      BY <1>2, <1>7, <1>8, <2>1, FlushesAlike
    <3>2. Left' = IF g.mode = "write" THEN [D |-> FlushedOn(disk, g), h |-> g.fileHdr]
                  ELSE [D |-> disk, h |-> hdr]
      BY <1>5, <2>1 DEF Left, FlushedDisk, FlushedOn
    <3>3. Left' = [D |-> D, h |-> h]
      BY <1>1, <1>2, <1>7, <1>8, <3>1, <3>2, LeftIs
    <3>4. Sees(D, h, S, E)'
      BY <1>5, <1>7, <1>8 DEF Sees
    <3> QED
      BY <1>1, <2>1, <3>3, <3>4
  <2>2. CASE disk' = D /\ hdr' = h
    BY <1>1, <1>5, <1>7, <1>8, <2>2, LeavesIt
  <2>3. ((disk' = disk /\ hdr' = hdr) /\ ~Reloads(file, p)) \/ (disk' = D /\ hdr' = h)
    BY <1>1, <1>3, SoughtDisk DEF adfFileSeek
  <2> QED
    BY <2>1, <2>2, <2>3
<1>10. TypesOK'
  BY <1>4, <1>5, <1>7, <1>8, <1>9 DEF TypesOK
<1>11. FileIs(D, h, S, E)'
  BY <1>1, <1>5, <1>7, <1>8, <1>9 DEF FileIs
<1> QED
  BY <1>1, <1>5, <1>7, <1>10, <1>11

\* The blocks of a list that begins with S.
LEMMA BeginningOf ==
  ASSUME NEW S \in Seq(Blocks), NEW x \in Seq(Sectors), BeginsWith(x, S, 0)
  PROVE  FirstOf(Len(S), x) = BlocksIn(S)
<1>1. Len(S) \in Nat /\ DOMAIN S = 1 .. Len(S) /\ Len(x) \in Nat
  BY LenProperties
<1>2. Len(x) >= Len(S) /\ \A i \in 1 .. Len(S) : x[i] = S[i]
  BY <1>1 DEF BeginsWith
<1>3. (IF Len(S) < Len(x) THEN Len(S) ELSE Len(x)) = Len(S)
  BY <1>1, <1>2
<1>4. FirstOf(Len(S), x) = {x[i] : i \in 1 .. Len(S)}
  BY <1>3 DEF FirstOf
<1> QED
  BY <1>1, <1>2, <1>4 DEF BlocksIn

LEMMA FreeKeeps ==
  ASSUME TypesOK, NEW D, NEW h, NEW S, NEW E, FileIs(D, h, S, E), ~astray, UNCHANGED astray,
         adfFreeFileBlocks
  PROVE  TypesOK' /\ FileIs(D, NoHeader, <<>>, <<>>)' /\ file' = file /\ file.mode = "closed"
<1>1. /\ D \in Disks /\ h \in Headers /\ Left = [D |-> D, h |-> h] /\ Chain(dosType, D, h, S, E)
      /\ file.mode = "closed" /\ file \in Handles /\ hdr \in Headers /\ disk \in Disks
  BY DEF FileIs, adfFreeFileBlocks, TypesOK
<1>2. D = disk /\ h = hdr
  BY <1>1, LeftIs
<1>3. /\ Listed(dosType, D, h, S, E) /\ S \in Seq(Blocks) /\ E \in Seq(Blocks)
      /\ Counts(h.byteSize, Len(S), Len(E)) /\ h.byteSize \in Nat
  BY <1>1 DEF Chain, Listed, Headers
<1>4. Len(S) = NbData(h.byteSize) /\ Len(E) = NbExtens(h.byteSize)
  BY <1>3, CountsUnique, LenProperties
<1>5. /\ Extens(D, h) \in Seq(Sectors) /\ BeginsWith(Extens(D, h), E, 0)
      /\ DataBlocksOf(D, h) \in Seq(Sectors) /\ BeginsWith(DataBlocksOf(D, h), S, 0)
  BY <1>1, <1>3, ListedReads
<1>6. GetFileBlocks(D, h) = BlocksIn(S) \cup BlocksIn(E)
  <2>1. FirstOf(Len(S), DataBlocksOf(D, h)) = BlocksIn(S)
    BY <1>3, <1>5, BeginningOf
  <2>2. FirstOf(Len(E), Extens(D, h)) = BlocksIn(E)
    BY <1>3, <1>5, BeginningOf
  <2> QED
    BY <1>4, <2>1, <2>2 DEF GetFileBlocks
<1>7. free' = Blocks
  <2>1. free \subseteq Blocks /\ Blocks \ free = BlocksIn(S) \cup BlocksIn(E)
    BY DEF FileIs, TypesOK
  <2> QED
    BY <1>2, <1>6, <2>1 DEF adfFreeFileBlocks
<1>8. /\ hdr' = NoHeader /\ disk' = D /\ file' = file /\ dosType' = dosType
  BY <1>2 DEF adfFreeFileBlocks
<1>9. NoHeader \in Headers /\ NoHeader.byteSize = 0 /\ NoHeader.dataBlocks = <<>>
      /\ NoHeader.extension = 0
  BY BlankTypes DEF NoHeader
<1>10. TypesOK'
  BY <1>1, <1>2, <1>7, <1>8, <1>9 DEF TypesOK
<1>11. Chain(dosType, D, NoHeader, <<>>, <<>>)
  BY <1>9, EmptyFile
<1>12. Left' = [D |-> D, h |-> NoHeader]
  BY <1>1, <1>8 DEF Left
<1>13. MaxSize[dosType] \in Nat
  BY FileAssumption DEF TypesOK
<1>14. BlocksIn(<<>>) = {}
  BY DEF BlocksIn
<1>15. FileIs(D, NoHeader, <<>>, <<>>)'
  BY <1>1, <1>7, <1>8, <1>9, <1>11, <1>12, <1>13, <1>14 DEF FileIs
<1> QED
  BY <1>1, <1>8, <1>10, <1>15

----------------------------------------------------------------------------
(* Reading bytes.                                                           *)

ByteAt(D, S, i) == D[S[((i - 1) \div BlockSize) + 1]].data[(i - 1) % BlockSize]

\* Byte number b of a file is byte i, from 0, of its data block number q, from 0.
Placed(b, q, i) == q \in Nat /\ i \in 0 .. BlockSize - 1 /\ b = q * BlockSize + i + 1

LEMMA BytePlace ==
  ASSUME NEW D, NEW S, NEW q \in Nat, NEW i, NEW b, Placed(b, q, i)
  PROVE  ByteAt(D, S, b) = D[S[q + 1]].data[i]
<1> USE FileAssumption
<1>1. (q * BlockSize + i) \div BlockSize = q /\ (q * BlockSize + i) % BlockSize = i
  BY DivUnique DEF Placed
<1>2. q * BlockSize \in Nat
  BY MulNat DEF Placed
<1>3. b - 1 = q * BlockSize + i
  BY <1>2 DEF Placed
<1> QED
  BY <1>1, <1>3 DEF ByteAt

\* The handle moved on by k bytes in the block in memory.
LEMMA MovedOnAgrees ==
  ASSUME NEW D \in Disks, NEW h \in Headers, NEW S, NEW E, Chain(dosType, D, h, S, E),
         S # <<>>, NEW f \in Handles, Agrees(dosType, D, h, S, E, f),
         NEW k \in 1 .. BlockSize, f.posInDataBlk + k <= BlockSize
  PROVE  LET g == MovedOn(f, k) IN
         /\ g \in Handles /\ Agrees(dosType, D, h, S, E, g)
         /\ g.mode = f.mode /\ g.pos = f.pos + k
<1> USE FileAssumption
<1> DEFINE g == MovedOn(f, k)
<1>1. f.posInDataBlk \in 0 .. BlockSize /\ f.pos \in Nat
  BY DEF Handles
<1>2. f.posInDataBlk + k \in 0 .. BlockSize /\ f.pos + k \in Nat
  BY <1>1
<1>3. /\ f.fileHdr = h /\ ExtKnown(D, E, f) /\ Holds(dosType, D, S, E, f, f.nDataBlock)
      /\ f.pos = (f.nDataBlock - 1) * BlockSize + f.posInDataBlk
  BY DEF Agrees
<1>4. /\ g \in Handles /\ g.fileHdr = f.fileHdr /\ g.mode = f.mode /\ g.pos = f.pos + k
      /\ g.posInDataBlk = f.posInDataBlk + k
      /\ g.nDataBlock = f.nDataBlock /\ g.curDataPtr = f.curDataPtr
      /\ g.currentData = f.currentData /\ g.currentExt = f.currentExt
      /\ g.posInExtBlk = f.posInExtBlk
  BY <1>2 DEF MovedOn, Handles
<1> HIDE DEF g
<1>5. ExtKnown(D, E, g) /\ Holds(dosType, D, S, E, g, g.nDataBlock)
  BY <1>3, <1>4 DEF Holds, ExtKnown, ExtAt
<1>6. g.pos = (g.nDataBlock - 1) * BlockSize + g.posInDataBlk
  <2>1. f.nDataBlock \in Nat /\ (f.nDataBlock - 1) * BlockSize \in Int
    BY DEF Handles
  <2> QED
    BY <1>1, <1>3, <1>4, <2>1
<1>7. Agrees(dosType, D, h, S, E, g)
  BY <1>3, <1>4, <1>5, <1>6 DEF Agrees
<1> QED
  BY <1>4, <1>7 DEF g

\* The next block is taken into memory when the one there is used up.
LEMMA NextAgrees ==
  ASSUME NEW D \in Disks, NEW h \in Headers, NEW S, NEW E, Chain(dosType, D, h, S, E),
         NEW f \in Handles, Agrees(dosType, D, h, S, E, f),
         f.posInDataBlk = BlockSize, f.pos < h.byteSize
  PROVE  LET n == ReadNextBlock(D, f)
             g == [n EXCEPT !.posInDataBlk = 0]
         IN
         /\ S # <<>> /\ n \in Handles /\ SameRest(f, n)
         /\ g \in Handles /\ Agrees(dosType, D, h, S, E, g) /\ g.mode = f.mode /\ g.pos = f.pos
         /\ g.posInDataBlk = 0 /\ n.curDataPtr # 0
<1> USE FileAssumption
<1> DEFINE n == ReadNextBlock(D, f)
           g == [n EXCEPT !.posInDataBlk = 0]
           c == f.nDataBlock
<1>1. /\ Len(S) \in Nat /\ DOMAIN S = 1 .. Len(S) /\ h.byteSize \in Nat /\ f.pos \in Nat
      /\ h.byteSize <= Len(S) * BlockSize /\ (S = <<>> <=> Len(S) = 0)
      /\ \A i \in DOMAIN S : S[i] # 0
  <2>1. h.byteSize \in Nat /\ f.pos \in Nat
    BY DEF Headers, Handles
  <2>2. h.byteSize <= Len(S) * BlockSize
    BY DEF Chain, Listed, Counts
  <2> QED
    BY <2>1, <2>2, ChainFacts
<1>2. S # <<>>
  <2>1. 0 * BlockSize = 0
    OBVIOUS
  <2> QED
    BY <1>1, <2>1
<1>3. /\ f.fileHdr = h /\ ExtKnown(D, E, f) /\ Holds(dosType, D, S, E, f, c)
      /\ f.pos = (c - 1) * BlockSize + f.posInDataBlk /\ c \in DOMAIN S
  BY <1>2 DEF Agrees, Holds
<1> HIDE DEF c
<1>4. f.pos = c * BlockSize /\ c \in Nat
  BY <1>1, <1>3, MulSucc
<1>5. c \in 1 .. Len(S) - 1
  <2>1. CASE c >= Len(S)
    <3>1. Len(S) * BlockSize <= c * BlockSize
      BY <1>1, <1>4, <2>1, MulMono
    <3>2. Len(S) * BlockSize \in Nat /\ c * BlockSize \in Nat
      BY <1>1, <1>4, MulNat
    <3> QED
      BY <1>1, <1>4, <3>1, <3>2
  <2> QED
    BY <1>1, <1>3, <2>1
<1>6. n \in Handles /\ SameRest(f, n) /\ Holds(dosType, D, S, E, n, c + 1)
  BY <1>3, <1>5, ReadsNext
<1> HIDE DEF n
<1>7. 0 \in 0 .. BlockSize
  OBVIOUS
<1>8. /\ g \in Handles /\ g.fileHdr = h /\ g.mode = f.mode /\ g.pos = f.pos
      /\ g.posInDataBlk = 0 /\ g.nDataBlock = c + 1
      /\ g.nDataBlock = n.nDataBlock /\ g.curDataPtr = n.curDataPtr
      /\ g.currentData = n.currentData /\ g.currentExt = n.currentExt
      /\ g.posInExtBlk = n.posInExtBlk
  BY <1>3, <1>6, <1>7 DEF Handles, Holds, SameRest
<1> HIDE DEF g
<1>9. ExtKnown(D, E, g) /\ Holds(dosType, D, S, E, g, g.nDataBlock)
  BY <1>6, <1>8 DEF Holds, ExtKnown, ExtAt
<1>10. g.pos = (g.nDataBlock - 1) * BlockSize + g.posInDataBlk
  <2>1. (c + 1) - 1 = c /\ c * BlockSize + 0 = c * BlockSize
    BY <1>4
  <2> QED
    BY <1>4, <1>8, <2>1
<1>11. Agrees(dosType, D, h, S, E, g)
  BY <1>2, <1>8, <1>9, <1>10 DEF Agrees
<1>12. n.curDataPtr # 0
  BY <1>1, <1>6 DEF Holds
<1> QED
  BY <1>2, <1>6, <1>8, <1>11, <1>12 DEF g, n

\* The bytes of the block in memory.
LEMMA BytesInMemory ==
  ASSUME NEW D \in Disks, NEW h \in Headers, NEW S, NEW E, Chain(dosType, D, h, S, E),
         S # <<>>, NEW f \in Handles, Agrees(dosType, D, h, S, E, f),
         NEW i \in Nat, f.posInDataBlk + i < BlockSize
  PROVE  f.currentData.data[f.posInDataBlk + i] = ByteAt(D, S, f.pos + i + 1)
<1> USE FileAssumption
<1> DEFINE q == f.nDataBlock - 1
           j == f.posInDataBlk + i
<1>1. /\ Len(S) \in Nat /\ DOMAIN S = 1 .. Len(S)
      /\ f.posInDataBlk \in 0 .. BlockSize /\ f.pos \in Nat
  BY ChainFacts DEF Handles
<1>2. /\ f.nDataBlock \in DOMAIN S /\ f.currentData = D[S[f.nDataBlock]]
      /\ f.pos = q * BlockSize + f.posInDataBlk
  BY DEF Agrees, Holds
<1>3. q \in Nat /\ q + 1 = f.nDataBlock /\ j \in 0 .. BlockSize - 1
  <2>1. f.nDataBlock \in Nat /\ f.nDataBlock > 0
    BY <1>1, <1>2
  <2>2. q \in Nat /\ q + 1 = f.nDataBlock
    BY <2>1
  <2>3. j \in 0 .. BlockSize - 1
    BY <1>1
  <2> QED
    BY <2>2, <2>3
<1>4. q * BlockSize \in Nat
  BY <1>3, MulNat
<1> HIDE DEF q
<1> DEFINE b == f.pos + i + 1
<1>5. b = q * BlockSize + j + 1
  BY <1>1, <1>2, <1>4
<1> HIDE DEF j, b
<1>6. ByteAt(D, S, b) = D[S[q + 1]].data[j]
  <2>1. Placed(b, q, j) /\ q \in Nat
    BY <1>3, <1>5 DEF Placed
  <2> QED
    BY <2>1, BytePlace
<1> QED
  BY <1>2, <1>3, <1>6 DEF j, b

LEMMA ReadKeeps ==
  ASSUME TypesOK, NEW D, NEW h, NEW S, NEW E, FileIs(D, h, S, E), ~astray, UNCHANGED astray,
         NEW k \in 1 .. BlockSize, adfFileRead(k)
  PROVE  /\ TypesOK' /\ FileIs(D, h, S, E)' /\ file'.mode # "closed" /\ file.mode # "closed"
         /\ file'.pos = file.pos + k /\ file'.pos <= h.byteSize
         /\ out' = [i \in 1 .. k |-> ByteAt(D, S, file.pos + i)]
<1> USE FileAssumption
<1>1. /\ D \in Disks /\ h \in Headers /\ Left = [D |-> D, h |-> h] /\ Chain(dosType, D, h, S, E)
      /\ file.mode = "read" /\ file \in Handles /\ hdr \in Headers /\ disk \in Disks
  BY DEF FileIs, adfFileRead, TypesOK
<1>2. /\ Agrees(dosType, D, h, S, E, file) /\ file.fileHdr = h /\ D = disk /\ h = hdr
  BY <1>1, LeftIs DEF FileIs, Sees, Agrees
<1>3. /\ h.byteSize \in Nat /\ file.pos \in Nat /\ file.posInDataBlk \in 0 .. BlockSize
      /\ file.pos + k <= h.byteSize
  BY <1>1, <1>2 DEF Headers, Handles, adfFileRead
<1>4. PICK f : f = ForReading(file)
  OBVIOUS
<1>5. /\ f \in Handles /\ Agrees(dosType, D, h, S, E, f) /\ f.mode = "read" /\ f.pos = file.pos
      /\ S # <<>>
  <2>1. CASE file.posInDataBlk = BlockSize
    <3> DEFINE n == ReadNextBlock(disk, file)
               g == [n EXCEPT !.posInDataBlk = 0]
    <3>1. file.pos < h.byteSize
      BY <1>3
    <3>2. /\ S # <<>> /\ n \in Handles
          /\ g \in Handles /\ Agrees(dosType, D, h, S, E, g) /\ g.mode = "read" /\ g.pos = file.pos
      BY <1>1, <1>2, <2>1, <3>1, NextAgrees
    <3> HIDE DEF n
    <3>3. f = [n EXCEPT !.posInDataBlk = 0, !.currentDataBlockChanged = FALSE]
      BY <1>4, <2>1 DEF ForReading, n
    <3>4. /\ f \in Handles /\ f.mode = g.mode /\ f.fileHdr = g.fileHdr /\ f.pos = g.pos
          /\ f.posInDataBlk = g.posInDataBlk
          /\ f.nDataBlock = g.nDataBlock /\ f.curDataPtr = g.curDataPtr
          /\ f.currentData = g.currentData /\ f.currentExt = g.currentExt
          /\ f.posInExtBlk = g.posInExtBlk
      BY <3>2, <3>3 DEF Handles
    <3> HIDE DEF g
    <3>5. Agrees(dosType, D, h, S, E, f)
      BY <3>2, <3>4 DEF Agrees, Holds, ExtKnown, ExtAt
    <3> QED
      BY <3>2, <3>4, <3>5
  <2>2. CASE file.posInDataBlk # BlockSize
    <3>1. f = file
      BY <1>4, <2>2 DEF ForReading
    <3>2. S # <<>>
      <4>1. Len(S) \in Nat /\ (S = <<>> <=> Len(S) = 0) /\ h.byteSize <= Len(S) * BlockSize
        BY <1>1, ChainFacts DEF Chain, Listed, Counts
      <4>2. 0 * BlockSize = 0
        OBVIOUS
      <4> QED
        BY <1>3, <4>1, <4>2
    <3> QED
      BY <1>1, <1>2, <3>1, <3>2
  <2> QED
    BY <2>1, <2>2
<1>6. f.posInDataBlk + k <= BlockSize /\ f.posInDataBlk \in 0 .. BlockSize
  BY <1>4, <1>5 DEF adfFileRead, Handles
<1>7. PICK g : g = file'
  OBVIOUS
<1>8. g = MovedOn(f, k) /\ out' = Got(f, k)
  BY <1>4, <1>7 DEF adfFileRead
<1>9. /\ g \in Handles /\ Agrees(dosType, D, h, S, E, g) /\ g.mode = "read"
      /\ g.pos = file.pos + k
  BY <1>1, <1>5, <1>6, <1>8, MovedOnAgrees
<1>10. disk' = D /\ hdr' = h /\ dosType' = dosType /\ free' = free /\ g.fileHdr = h
  BY <1>2, <1>9 DEF adfFileRead, Agrees
<1>11. Left' = [D |-> D, h |-> h] /\ Sees(D, h, S, E)'
  BY <1>1, <1>7, <1>9, <1>10, LeavesIt
<1>12. TypesOK'
  BY <1>1, <1>3, <1>7, <1>9, <1>10 DEF TypesOK
<1>13. FileIs(D, h, S, E)'
  BY <1>1, <1>7, <1>9, <1>10, <1>11 DEF FileIs
<1>14. out' = [i \in 1 .. k |-> ByteAt(D, S, file.pos + i)]
  <2>1. ASSUME NEW i \in 1 .. k
        PROVE  f.currentData.data[f.posInDataBlk + i - 1] = ByteAt(D, S, file.pos + i)
    <3> DEFINE j == i - 1
    <3>1. j \in Nat /\ f.posInDataBlk + j < BlockSize
      BY <1>6
    <3>2. f.posInDataBlk + i - 1 = f.posInDataBlk + j /\ file.pos + i = f.pos + j + 1
      BY <1>3, <1>5, <1>6
    <3> HIDE DEF j
    <3>3. f.currentData.data[f.posInDataBlk + j] = ByteAt(D, S, f.pos + j + 1)
      BY <1>1, <1>5, <3>1, BytesInMemory
    <3> QED
      BY <3>2, <3>3
  <2> QED
    BY <1>8, <2>1 DEF Got
<1> QED
  BY <1>1, <1>3, <1>7, <1>9, <1>12, <1>13, <1>14

----------------------------------------------------------------------------
(* Writing bytes.                                                           *)

\* k bytes v are written at position p; the other bytes stay.
Wrote(D, h, S, D2, h2, S2, p, k, v) ==
    /\ h2.byteSize = IF p + k > h.byteSize THEN p + k ELSE h.byteSize
    /\ \A b \in 1 .. h2.byteSize :
          ByteAt(D2, S2, b) = IF p < b /\ b <= p + k THEN v ELSE ByteAt(D, S, b)

\* Bytes and size may change when the lists and the links do not.
LEMMA ChainSame ==
  ASSUME NEW D, NEW h, NEW t, NEW S, NEW E, Chain(t, D, h, S, E), NEW D2, NEW h2,
         Counts(h2.byteSize, Len(S), Len(E)), h2.firstData = h.firstData,
         h2.dataBlocks = h.dataBlocks, h2.extension = h.extension,
         \A j \in DOMAIN E : D2[E[j]] = D[E[j]],
         \A i \in DOMAIN S : D2[S[i]].kind = "data" /\ D2[S[i]].nextData = D[S[i]].nextData
  PROVE  Chain(t, D2, h2, S, E)
<1>1. Listed(t, D2, h2, S, E)
  BY DEF Chain, Listed
<1> QED
  BY <1>1 DEF Chain

\* What Overwrite makes of a handle.
IsOverwrite(f, k, v, g) ==
    /\ g \in Handles /\ g.mode = f.mode /\ g.currentDataBlockChanged = TRUE /\ g.pos = f.pos + k
    /\ g.posInDataBlk = f.posInDataBlk + k /\ g.nDataBlock = f.nDataBlock
    /\ g.curDataPtr = f.curDataPtr /\ g.currentExt = f.currentExt
    /\ g.posInExtBlk = f.posInExtBlk
    /\ g.fileHdr.byteSize =
          (IF f.pos + k > f.fileHdr.byteSize THEN f.pos + k ELSE f.fileHdr.byteSize)
    /\ g.fileHdr.firstData = f.fileHdr.firstData
    /\ g.fileHdr.dataBlocks = f.fileHdr.dataBlocks
    /\ g.fileHdr.extension = f.fileHdr.extension
    /\ g.currentData.kind = "data" /\ g.currentData.nextData = f.currentData.nextData
    /\ \A i \in Offsets :
          g.currentData.data[i] = IF f.posInDataBlk <= i /\ i < f.posInDataBlk + k THEN v
                                  ELSE f.currentData.data[i]

LEMMA OverwriteIs ==
  ASSUME NEW f \in Handles, NEW k \in 1 .. BlockSize, f.posInDataBlk + k <= BlockSize,
         NEW v \in Values \cup {0}
  PROVE  IsOverwrite(f, k, v, Overwrite(f, k, v))
<1> USE FileAssumption
<1> DEFINE last == f.pos + k
           data == [i \in Offsets |-> IF f.posInDataBlk <= i /\ i < f.posInDataBlk + k THEN v
                                      ELSE f.currentData.data[i]]
           size == IF last > f.fileHdr.byteSize THEN last ELSE f.fileHdr.byteSize
           b == [f.currentData EXCEPT !.data = data]
           x == [f.fileHdr EXCEPT !.byteSize = size]
           moved == f.posInDataBlk + k
           z == [f EXCEPT !.currentData = b, !.pos = last, !.posInDataBlk = moved,
                          !.currentDataBlockChanged = TRUE, !.fileHdr = x]
           g == Overwrite(f, k, v)
<1>1. /\ f.currentData \in DataBlks /\ f.fileHdr \in Headers /\ f.pos \in Nat
      /\ f.posInDataBlk \in 0 .. BlockSize
  BY DEF Handles
<1>2. last \in Nat /\ size \in Nat /\ moved \in 0 .. BlockSize
  BY <1>1 DEF Headers
<1>3. data \in [Offsets -> Values \cup {0}]
  BY <1>1 DEF DataBlks
<1>4. g = z
  BY DEF Overwrite, Handles
<1> HIDE DEF data, size, last, moved
<1>5. b \in DataBlks /\ b.kind = "data" /\ b.nextData = f.currentData.nextData /\ b.data = data
  BY <1>1, <1>3 DEF DataBlks
<1>6. /\ x \in Headers /\ x.byteSize = size /\ x.firstData = f.fileHdr.firstData
      /\ x.dataBlocks = f.fileHdr.dataBlocks /\ x.extension = f.fileHdr.extension
  BY <1>1, <1>2 DEF Headers
<1> HIDE DEF b, x, g
<1>7. /\ z \in Handles /\ z.mode = f.mode /\ z.currentDataBlockChanged = TRUE /\ z.pos = last
      /\ z.posInDataBlk = moved /\ z.nDataBlock = f.nDataBlock
      /\ z.curDataPtr = f.curDataPtr /\ z.currentExt = f.currentExt
      /\ z.posInExtBlk = f.posInExtBlk /\ z.fileHdr = x /\ z.currentData = b
  BY <1>2, <1>5, <1>6 DEF Handles
<1> HIDE DEF z
<1>8. /\ g \in Handles /\ g.mode = f.mode /\ g.currentDataBlockChanged = TRUE /\ g.pos = last
      /\ g.posInDataBlk = moved /\ g.nDataBlock = f.nDataBlock
      /\ g.curDataPtr = f.curDataPtr /\ g.currentExt = f.currentExt
      /\ g.posInExtBlk = f.posInExtBlk /\ g.fileHdr = x /\ g.currentData = b
  BY <1>4, <1>7
<1>9. \A i \in Offsets : b.data[i] = IF f.posInDataBlk <= i /\ i < f.posInDataBlk + k THEN v
                                     ELSE f.currentData.data[i]
  BY <1>5 DEF data
<1> QED
  BY <1>5, <1>6, <1>8, <1>9 DEF g, last, size, moved, IsOverwrite

\* Which block a byte that is overwritten is in: a matter of numbers.
LEMMA WrittenPlace ==
  ASSUME NEW q \in Nat, NEW i \in 0 .. BlockSize - 1, NEW b, b = q * BlockSize + i + 1,
         NEW c \in Nat, NEW o \in 0 .. BlockSize, NEW k \in 1 .. BlockSize, o + k <= BlockSize,
         NEW p, p = c * BlockSize + o
  PROVE  (p < b /\ b <= p + k) <=> (q = c /\ o <= i /\ i < o + k)
<1> USE FileAssumption
<1>1. q * BlockSize \in Nat /\ c * BlockSize \in Nat
  BY MulNat
<1>2. ASSUME p < b, b <= p + k PROVE q = c
  <2>1. c * BlockSize < q * BlockSize + BlockSize
    BY <1>1, <1>2
  <2>2. q * BlockSize < c * BlockSize + BlockSize
    BY <1>1, <1>2
  <2>3. c <= q
    BY <2>1, MulLess
  <2>4. q <= c
    BY <2>2, MulLess
  <2> QED
    BY <2>3, <2>4
<1>3. ASSUME q = c PROVE (p < b /\ b <= p + k) <=> (o <= i /\ i < o + k)
  <2>1. b = c * BlockSize + i + 1
    BY <1>3
  <2> QED
    BY <1>1, <2>1
<1> QED
  BY <1>2, <1>3

\* A flush of the handle f to the disk X would leave the blocks D, f agrees with
\* them, and k bytes fit into the block in memory.
CanOverwrite(X, D, h, S, E, f, k, v) ==
    /\ X \in Disks /\ D \in Disks /\ h \in Headers /\ Chain(dosType, D, h, S, E) /\ S # <<>>
    /\ f \in Handles /\ Agrees(dosType, D, h, S, E, f) /\ FlushedOn(X, f) = D
    /\ k \in 1 .. BlockSize /\ f.posInDataBlk + k <= BlockSize /\ v \in Values \cup {0}

\* The handle g agrees with what its flush leaves, and that has the bytes written.
HasWritten(X, D, h, S, E, f, k, v, g) ==
    /\ g \in Handles /\ g.mode = f.mode /\ g.currentDataBlockChanged = TRUE
    /\ g.pos = f.pos + k /\ g.pos <= g.fileHdr.byteSize
    /\ FlushedOn(X, g) \in Disks /\ Chain(dosType, FlushedOn(X, g), g.fileHdr, S, E)
    /\ Agrees(dosType, FlushedOn(X, g), g.fileHdr, S, E, g)
    /\ Wrote(D, h, S, FlushedOn(X, g), g.fileHdr, S, f.pos, k, v)

LEMMA OverwriteAgrees ==
  ASSUME NEW X, NEW D, NEW h, NEW S, NEW E, NEW f, NEW k, NEW v,
         CanOverwrite(X, D, h, S, E, f, k, v)
  PROVE  HasWritten(X, D, h, S, E, f, k, v, Overwrite(f, k, v))
<1>0. /\ X \in Disks /\ D \in Disks /\ h \in Headers /\ Chain(dosType, D, h, S, E) /\ S # <<>>
      /\ f \in Handles /\ Agrees(dosType, D, h, S, E, f) /\ FlushedOn(X, f) = D
      /\ k \in 1 .. BlockSize /\ f.posInDataBlk + k <= BlockSize /\ v \in Values \cup {0}
  BY DEF CanOverwrite
<1> USE <1>0
<1> USE FileAssumption
<1> DEFINE g == Overwrite(f, k, v)
           D2 == FlushedOn(X, g)
           c == f.nDataBlock
           h2 == g.fileHdr
           N == Len(S)
           o == f.posInDataBlk
<1>1. /\ S \in Seq(Blocks) /\ N \in Nat /\ DOMAIN S = 1 .. N /\ N # 0
      /\ DOMAIN E = 1 .. Len(E)
      /\ \A i \in DOMAIN S : S[i] \in Blocks /\ S[i] # 0
      /\ \A j \in DOMAIN E : E[j] \in Blocks
  BY ChainFacts
<1>2. /\ Counts(h.byteSize, N, Len(E)) /\ h.byteSize \in Nat
      /\ Injective(S) /\ \A i \in DOMAIN S, j \in DOMAIN E : S[i] # E[j]
      /\ \A i \in DOMAIN S : D[S[i]].kind = "data"
  BY DEF Chain, Listed, Headers
<1>3. /\ f.fileHdr = h /\ ExtKnown(D, E, f) /\ ExtAt(dosType, D, E, f)
      /\ c \in DOMAIN S /\ f.curDataPtr = S[c] /\ f.currentData = D[S[c]]
      /\ f.pos = (c - 1) * BlockSize + o
  BY DEF Agrees, Holds
<1>4. /\ g \in Handles /\ g.mode = f.mode /\ g.currentDataBlockChanged = TRUE /\ g.pos = f.pos + k
      /\ g.posInDataBlk = o + k /\ g.nDataBlock = c
      /\ g.curDataPtr = S[c] /\ g.currentExt = f.currentExt /\ g.posInExtBlk = f.posInExtBlk
      /\ h2.byteSize = (IF f.pos + k > h.byteSize THEN f.pos + k ELSE h.byteSize)
      /\ h2.firstData = h.firstData /\ h2.dataBlocks = h.dataBlocks /\ h2.extension = h.extension
      /\ g.currentData.kind = "data" /\ g.currentData.nextData = f.currentData.nextData
      /\ \A i \in Offsets : g.currentData.data[i] = IF o <= i /\ i < o + k THEN v
                                                    ELSE f.currentData.data[i]
  <2>1. IsOverwrite(f, k, v, g)
    BY OverwriteIs
  <2> HIDE DEF g
  <2> QED
    BY <1>3, <2>1 DEF IsOverwrite
<1> HIDE DEF g, h2
<1>5. f.pos \in Nat /\ o \in 0 .. BlockSize /\ h2 \in Headers
  BY <1>4 DEF Handles, h2
\* Sizes.
<1>6. /\ N * BlockSize \in Nat /\ h.byteSize <= N * BlockSize
      /\ N * BlockSize < h.byteSize + BlockSize
  BY <1>1, <1>2, MulNat DEF Counts
<1>7. f.pos + k <= N * BlockSize
  <2>1. c * BlockSize <= N * BlockSize /\ (c - 1) * BlockSize = c * BlockSize - BlockSize
        /\ c * BlockSize \in Nat
    BY <1>1, <1>3, MulMono, MulSucc, MulNat
  <2> QED
    BY <1>3, <1>5, <1>6, <2>1
<1>8. Counts(h2.byteSize, N, Len(E))
  <2>1. h2.byteSize = IF f.pos + k > h.byteSize THEN f.pos + k ELSE h.byteSize
    BY <1>4
  <2>2. f.pos \in Nat /\ k \in Nat /\ h.byteSize \in Nat
    BY <1>2, <1>5
  <2>3. h2.byteSize <= N * BlockSize /\ N * BlockSize < h2.byteSize + BlockSize
    BY <1>6, <1>7, <2>1, <2>2
  <2> QED
    BY <1>2, <2>3 DEF Counts
<1>9. h.byteSize > 0 /\ h2.byteSize > 0 /\ h2.byteSize <= N * BlockSize /\ h2.byteSize \in Nat
      /\ g.pos <= h2.byteSize
  <2>1. 1 * BlockSize <= N * BlockSize /\ 1 * BlockSize = BlockSize
    BY <1>1, MulMono
  <2>2. f.pos \in Nat /\ N * BlockSize \in Nat /\ h.byteSize \in Nat /\ k \in Nat /\ k > 0
    BY <1>2, <1>5, <1>6
  <2>3. h.byteSize > 0
    BY <1>6, <2>1, <2>2
  <2>4. h2.byteSize = IF f.pos + k > h.byteSize THEN f.pos + k ELSE h.byteSize
    BY <1>4
  <2>5. h2.byteSize \in Nat /\ h2.byteSize >= h.byteSize /\ h2.byteSize >= f.pos + k
    BY <2>2, <2>4
  <2>6. h2.byteSize <= N * BlockSize
    BY <1>6, <1>7, <2>4
  <2> QED
    BY <1>4, <2>2, <2>3, <2>5, <2>6
\* The disks.
<1>10. S[c] \in Blocks /\ S[c] # 0
  BY <1>1, <1>3
<1>11. \A s \in Blocks : D[s] = IF s = S[c] THEN f.currentData
                                ELSE IF s = f.currentExt.headerKey THEN f.currentExt ELSE X[s]
  <2> DEFINE Y == FlushedOn(X, f)
  <2>1. \A s \in Blocks : Y[s] = IF s = S[c] THEN f.currentData
                                 ELSE IF s = f.currentExt.headerKey THEN f.currentExt ELSE X[s]
    BY <1>3, <1>9, <1>10, FlushedAt
  <2> HIDE DEF Y
  <2>2. Y = D
    BY DEF Y
  <2> QED
    BY <2>1, <2>2
<1>12. /\ D2 \in Disks
       /\ \A s \in Blocks : D2[s] = IF s = S[c] THEN g.currentData
                                    ELSE IF s = f.currentExt.headerKey THEN f.currentExt ELSE X[s]
  BY <1>4, <1>9, <1>10, FlushedAt DEF h2
<1> HIDE DEF D2
<1>13. D2[S[c]] = g.currentData /\ \A s \in Blocks : s # S[c] => D2[s] = D[s]
  BY <1>10, <1>11, <1>12
<1>14. \A j \in DOMAIN E : D2[E[j]] = D[E[j]]
  BY <1>1, <1>2, <1>3, <1>13
<1>15. \A i \in DOMAIN S : i # c => D2[S[i]] = D[S[i]]
  BY <1>1, <1>2, <1>3, <1>13 DEF Injective
<1>16. \A i \in DOMAIN S : D2[S[i]].kind = "data" /\ D2[S[i]].nextData = D[S[i]].nextData
  <2> SUFFICES ASSUME NEW i \in DOMAIN S
               PROVE  D2[S[i]].kind = "data" /\ D2[S[i]].nextData = D[S[i]].nextData
    OBVIOUS
  <2>1. CASE i = c
    BY <1>3, <1>4, <1>13, <2>1
  <2>2. CASE i # c
    BY <1>2, <1>15, <2>2
  <2> QED
    BY <2>1, <2>2
<1>17. Chain(dosType, D2, h2, S, E)
  BY <1>4, <1>8, <1>14, <1>16, ChainSame
\* The handle.
<1>18. ExtKnown(D2, E, g) /\ ExtAt(dosType, D2, E, g)
  BY <1>3, <1>4, <1>14 DEF ExtKnown, ExtAt
<1>19. g.pos = (g.nDataBlock - 1) * BlockSize + g.posInDataBlk
  <2>1. (c - 1) * BlockSize \in Int
    BY <1>1, <1>3
  <2> QED
    BY <1>3, <1>4, <1>5, <2>1
<1>20. Agrees(dosType, D2, h2, S, E, g)
  BY <1>1, <1>3, <1>4, <1>13, <1>18, <1>19 DEF Agrees, Holds, h2
\* The bytes.
<1>21. ASSUME NEW b \in 1 .. h2.byteSize
       PROVE  ByteAt(D2, S, b) = IF f.pos < b /\ b <= f.pos + k THEN v ELSE ByteAt(D, S, b)
  <2> DEFINE a == b - 1
             q == a \div BlockSize
             i == a % BlockSize
  <2>1. a \in Nat /\ a < h2.byteSize
    BY <1>9
  <2> HIDE DEF a
  <2>2. q \in 0 .. N - 1 /\ i \in 0 .. BlockSize - 1 /\ a = q * BlockSize + i
    BY <1>1, <1>9, <2>1, PosInBlock
  <2> HIDE DEF q, i
  <2>3. q * BlockSize \in Nat /\ q \in Nat /\ q + 1 \in DOMAIN S
    BY <1>1, <2>2, MulNat
  <2>4. b = q * BlockSize + i + 1
    BY <2>1, <2>2, <2>3 DEF a
  <2>5. ByteAt(D2, S, b) = D2[S[q + 1]].data[i] /\ ByteAt(D, S, b) = D[S[q + 1]].data[i]
    <3>1. Placed(b, q, i)
      BY <2>2, <2>3, <2>4 DEF Placed
    <3>2. ByteAt(D2, S, b) = D2[S[q + 1]].data[i]
      BY <2>3, <3>1, BytePlace
    <3>3. ByteAt(D, S, b) = D[S[q + 1]].data[i]
      BY <2>3, <3>1, BytePlace
    <3> QED
      BY <3>2, <3>3
  <2>6. (f.pos < b /\ b <= f.pos + k) <=> (q = c - 1 /\ o <= i /\ i < o + k)
    <3> DEFINE c1 == c - 1
    <3>1. c1 \in Nat /\ f.pos = c1 * BlockSize + o
      BY <1>1, <1>3
    <3> HIDE DEF c1, o, c
    <3>2. (f.pos < b /\ b <= f.pos + k) <=> (q = c1 /\ o <= i /\ i < o + k)
      <4>1. o + k <= BlockSize
        BY DEF o
      <4> QED
        BY <1>5, <2>2, <2>3, <2>4, <3>1, <4>1, WrittenPlace
    <3> QED
      BY <3>2 DEF c1
  <2>7. CASE q + 1 = c
    <3>1. D2[S[q + 1]].data[i] = IF o <= i /\ i < o + k THEN v ELSE D[S[q + 1]].data[i]
      <4>1. D2[S[q + 1]] = g.currentData /\ D[S[q + 1]] = f.currentData /\ i \in Offsets
        BY <1>3, <1>13, <2>2, <2>7 DEF Offsets
      <4> QED
        BY <1>4, <4>1
    <3>2. q = c - 1
      BY <1>1, <1>3, <2>3, <2>7
    <3> QED
      BY <2>5, <2>6, <3>1, <3>2
  <2>8. CASE q + 1 # c
    <3>1. D2[S[q + 1]] = D[S[q + 1]]
      BY <1>15, <2>3, <2>8
    <3>2. q # c - 1
      BY <1>1, <1>3, <2>3, <2>8
    <3> QED
      BY <2>5, <2>6, <3>1, <3>2
  <2> QED
    BY <2>7, <2>8
<1>22. Wrote(D, h, S, D2, h2, S, f.pos, k, v)
  BY <1>4, <1>21 DEF Wrote
<1> QED
  BY <1>4, <1>9, <1>12, <1>17, <1>20, <1>22 DEF g, h2, D2, HasWritten

\* How each of the writing turns ends: with Overwrite, on a handle f that agrees
\* with the blocks D.
LEMMA WriteEnds ==
  ASSUME dosType \in DOMAIN MaxSize, NEW X \in Disks, NEW D \in Disks, NEW h \in Headers, NEW S, NEW E,
         Chain(dosType, D, h, S, E), S # <<>>, h.byteSize <= MaxSize[dosType],
         NEW f \in Handles, Agrees(dosType, D, h, S, E, f), FlushedOn(X, f) = D, f.mode = "write",
         NEW k \in 1 .. BlockSize, f.posInDataBlk + k <= BlockSize, NEW v \in Values \cup {0},
         f.pos + k <= MaxSize[dosType],
         dosType' = dosType, disk' = X, hdr' \in Headers, free' \subseteq Blocks,
         Blocks \ free' = BlocksIn(S) \cup BlocksIn(E),
         file' = Overwrite(f, k, v), ~astray'
  PROVE  /\ TypesOK' /\ file'.mode = "write" /\ file'.pos = f.pos + k
         /\ \E D2, h2 : FileIs(D2, h2, S, E)' /\ Wrote(D, h, S, D2, h2, S, f.pos, k, v)
<1>1. PICK g : g = Overwrite(f, k, v)
  OBVIOUS
<1>2. PICK D2 : D2 = FlushedOn(X, g)
  OBVIOUS
<1>3. PICK h2 : h2 = g.fileHdr
  OBVIOUS
<1>4. /\ g \in Handles /\ g.mode = "write" /\ g.currentDataBlockChanged = TRUE
      /\ g.pos = f.pos + k /\ g.pos <= h2.byteSize
      /\ D2 \in Disks /\ Chain(dosType, D2, h2, S, E) /\ Agrees(dosType, D2, h2, S, E, g)
      /\ Wrote(D, h, S, D2, h2, S, f.pos, k, v)
  <2>1. CanOverwrite(X, D, h, S, E, f, k, v)
    BY DEF CanOverwrite
  <2>2. HasWritten(X, D, h, S, E, f, k, v, g)
    BY <1>1, <2>1, OverwriteAgrees
  <2> QED
    BY <1>2, <1>3, <2>2 DEF HasWritten
<1>5. h2 \in Headers
  BY <1>3, <1>4 DEF Handles
<1>6. h2.byteSize <= MaxSize[dosType]
  <2>1. h2.byteSize = IF f.pos + k > h.byteSize THEN f.pos + k ELSE h.byteSize
    BY <1>4 DEF Wrote
  <2> QED
    BY <2>1
<1>7. file' = g
  BY <1>1
<1>8. Left' = [D |-> D2, h |-> h2]
  BY <1>2, <1>3, <1>4, <1>7 DEF Left, FlushedDisk, FlushedOn
<1>9. Sees(D2, h2, S, E)'
  BY <1>4, <1>7 DEF Sees
<1>10. FileIs(D2, h2, S, E)'
  BY <1>4, <1>5, <1>6, <1>8, <1>9 DEF FileIs
<1>11. TypesOK'
  <2>1. file' \in Handles /\ file'.pos <= file'.fileHdr.byteSize
    BY <1>3, <1>4, <1>7
  <2>2. disk' \in Disks /\ dosType' \in DOMAIN MaxSize
    OBVIOUS
  <2> QED
    BY <2>1, <2>2 DEF TypesOK
<1> QED
  BY <1>4, <1>7, <1>10, <1>11

LEMMA WriteHereKeeps ==
  ASSUME TypesOK, NEW D, NEW h, NEW S, NEW E, FileIs(D, h, S, E), ~astray, UNCHANGED astray,
         NEW k \in 1 .. BlockSize, NEW v \in Values \cup {0}, WriteHere(k, v)
  PROVE  /\ TypesOK' /\ file.mode = "write" /\ file'.mode = "write" /\ file'.pos = file.pos + k
         /\ \E D2, h2 : FileIs(D2, h2, S, E)' /\ Wrote(D, h, S, D2, h2, S, file.pos, k, v)
<1> USE FileAssumption
<1>1. /\ D \in Disks /\ h \in Headers /\ Left = [D |-> D, h |-> h] /\ Chain(dosType, D, h, S, E)
      /\ file.mode = "write" /\ file \in Handles /\ hdr \in Headers /\ disk \in Disks
      /\ h.byteSize <= MaxSize[dosType] /\ file.pos + k <= MaxSize[dosType]
      /\ Blocks \ free = BlocksIn(S) \cup BlocksIn(E) /\ dosType \in DOMAIN MaxSize
      /\ free \subseteq Blocks
  BY DEF FileIs, WriteHere, Writes, TypesOK
<1>2. Agrees(dosType, D, h, S, E, file) /\ FlushedOn(disk, file) = D /\ file.fileHdr = h
  BY <1>1, LeftIs DEF FileIs, Sees
<1>3. S # <<>>
  <2> SUFFICES ASSUME S = <<>> PROVE FALSE
    OBVIOUS
  <2>1. file.pos = 0
    BY <1>2 DEF Agrees
  <2>2. h.byteSize = 0
    <3>1. Len(S) = 0 /\ h.byteSize <= Len(S) * BlockSize /\ h.byteSize \in Nat
      BY <1>1, ChainFacts DEF Chain, Listed, Counts, Headers
    <3>2. 0 * BlockSize = 0
      OBVIOUS
    <3> QED
      BY <3>1, <3>2
  <2>3. 0 % BlockSize = 0
    OBVIOUS
  <2> QED
    BY <1>2, <2>1, <2>2, <2>3 DEF WriteHere, AtEdge, AtEOF
<1>4. PICK f : f = file
  OBVIOUS
<1>5. /\ dosType' = dosType /\ disk' = disk /\ hdr' = hdr /\ free' = free
      /\ file' = Overwrite(f, k, v) /\ f.posInDataBlk + k <= BlockSize
  BY <1>4 DEF WriteHere, Writes
<1> QED
  BY <1>1, <1>2, <1>3, <1>4, <1>5, WriteEnds

LEMMA WriteNextKeeps ==
  ASSUME TypesOK, NEW D, NEW h, NEW S, NEW E, FileIs(D, h, S, E), ~astray, UNCHANGED astray,
         ~Unmarked, NEW k \in 1 .. BlockSize, NEW v \in Values \cup {0}, WriteNext(k, v)
  PROVE  /\ TypesOK' /\ file.mode = "write" /\ file'.mode = "write" /\ file'.pos = file.pos + k
         /\ \E D2, h2 : FileIs(D2, h2, S, E)' /\ Wrote(D, h, S, D2, h2, S, file.pos, k, v)
<1> USE FileAssumption
<1>1. /\ D \in Disks /\ h \in Headers /\ Left = [D |-> D, h |-> h] /\ Chain(dosType, D, h, S, E)
      /\ file.mode = "write" /\ file \in Handles /\ hdr \in Headers /\ disk \in Disks
      /\ h.byteSize <= MaxSize[dosType] /\ file.pos + k <= MaxSize[dosType]
      /\ Blocks \ free = BlocksIn(S) \cup BlocksIn(E) /\ dosType \in DOMAIN MaxSize
      /\ free \subseteq Blocks /\ file.pos <= file.fileHdr.byteSize
  BY DEF FileIs, WriteNext, Writes, TypesOK
<1>2. Sees(D, h, S, E) /\ Agrees(dosType, D, h, S, E, file) /\ file.fileHdr = h
  BY <1>1 DEF FileIs, Sees, Agrees
<1>3. DiskBefore(file) = D /\ HeaderBefore(file) = h
  BY <1>1, BeforeIs
<1>4. PICK y : y = Saved(file)
  OBVIOUS
<1>5. /\ y \in Handles /\ y.mode = file.mode /\ y.fileHdr = file.fileHdr /\ y.pos = file.pos
      /\ y.nDataBlock = file.nDataBlock /\ y.curDataPtr = file.curDataPtr
      /\ y.currentData = file.currentData /\ y.currentExt = file.currentExt
      /\ y.posInExtBlk = file.posInExtBlk /\ y.posInDataBlk = file.posInDataBlk
  BY <1>1, <1>4 DEF Saved, Handles
<1>6. Agrees(dosType, D, h, S, E, y)
  BY <1>2, <1>5 DEF Agrees, Holds, ExtKnown, ExtAt
<1>7. file.pos < h.byteSize /\ file.posInDataBlk = BlockSize
  <2>1. file.pos # h.byteSize /\ file.posInDataBlk = BlockSize
    BY <1>2 DEF WriteNext, AtEOF
  <2>2. file.pos \in Nat /\ h.byteSize \in Nat
    BY <1>1 DEF Handles, Headers
  <2> QED
    BY <1>1, <1>2, <2>1, <2>2
<1>8. PICK n : n = ReadNextBlock(D, y)
  OBVIOUS
<1>9. PICK f : f = [n EXCEPT !.posInDataBlk = 0]
  OBVIOUS
<1>10. /\ S # <<>> /\ f \in Handles /\ Agrees(dosType, D, h, S, E, f) /\ f.mode = "write"
       /\ f.pos = file.pos /\ f.posInDataBlk = 0 /\ n.curDataPtr # 0
  BY <1>1, <1>5, <1>6, <1>7, <1>8, <1>9, NextAgrees
<1>11. /\ dosType' = dosType /\ disk' = D /\ hdr' = h /\ free' = free /\ k <= BlockSize
       /\ file' = Overwrite(f, k, v)
  BY <1>3, <1>4, <1>8, <1>9, <1>10 DEF WriteNext, Writes
<1>12. FlushedOn(D, f) = D
  BY <1>1, <1>10, FlushedNothing
<1>13. f.posInDataBlk + k <= BlockSize
  BY <1>10
<1> QED
  BY <1>1, <1>10, <1>11, <1>12, <1>13, WriteEnds

----------------------------------------------------------------------------
(* A further data block.                                                    *)

LEMMA AppendFacts ==
  ASSUME NEW S \in Seq(Blocks), NEW s \in Blocks
  PROVE  LET T == Append(S, s) IN
         /\ T \in Seq(Blocks) /\ Len(T) = Len(S) + 1 /\ T # <<>>
         /\ Len(S) \in Nat /\ DOMAIN S = 1 .. Len(S) /\ DOMAIN T = 1 .. Len(S) + 1
         /\ T[Len(S) + 1] = s /\ \A i \in 1 .. Len(S) : T[i] = S[i]
         /\ BlocksIn(T) = BlocksIn(S) \cup {s}
         /\ Injective(S) /\ s \notin BlocksIn(S) => Injective(T)
<1> DEFINE T == Append(S, s)
<1>1. /\ T \in Seq(Blocks) /\ Len(T) = Len(S) + 1
      /\ T[Len(S) + 1] = s /\ \A i \in 1 .. Len(S) : T[i] = S[i]
  BY AppendProperties
<1>2. Len(S) \in Nat /\ DOMAIN S = 1 .. Len(S) /\ DOMAIN T = 1 .. Len(S) + 1
  BY <1>1, LenProperties
<1>3. T # <<>>
  BY <1>1, <1>2, EmptySeq
<1> HIDE DEF T
<1>4. BlocksIn(T) = BlocksIn(S) \cup {s}
  <2>1. ASSUME NEW i \in DOMAIN T PROVE T[i] \in BlocksIn(S) \cup {s}
    <3>1. i = Len(S) + 1 \/ i \in DOMAIN S
      BY <1>2
    <3> QED
      BY <1>1, <1>2, <3>1 DEF BlocksIn
  <2>2. ASSUME NEW i \in DOMAIN S PROVE S[i] \in BlocksIn(T)
    BY <1>1, <1>2, <2>2 DEF BlocksIn
  <2>3. s \in BlocksIn(T)
    BY <1>1, <1>2 DEF BlocksIn
  <2>4. BlocksIn(T) \subseteq BlocksIn(S) \cup {s}
    BY <2>1 DEF BlocksIn
  <2>5. BlocksIn(S) \subseteq BlocksIn(T)
    BY <2>2 DEF BlocksIn
  <2> QED
    BY <2>3, <2>4, <2>5
<1>5. ASSUME Injective(S), s \notin BlocksIn(S) PROVE Injective(T)
  <2> SUFFICES ASSUME NEW i \in DOMAIN T, NEW j \in DOMAIN T, T[i] = T[j] PROVE i = j
    BY DEF Injective
  <2>1. \A m \in DOMAIN S : T[m] = S[m] /\ S[m] # s
    BY <1>1, <1>2, <1>5 DEF BlocksIn
  <2>2. CASE i \in DOMAIN S /\ j \in DOMAIN S
    BY <1>5, <2>1, <2>2 DEF Injective
  <2>3. CASE i = Len(S) + 1
    <3>1. T[i] = s
      BY <1>1, <2>3
    <3>2. j \notin DOMAIN S
      BY <2>1, <3>1
    <3> QED
      BY <1>2, <2>3, <3>2
  <2>4. CASE j = Len(S) + 1
    <3>1. T[j] = s
      BY <1>1, <2>4
    <3>2. i \notin DOMAIN S
      BY <2>1, <3>1
    <3> QED
      BY <1>2, <2>4, <3>2
  <2> QED
    BY <1>2, <2>2, <2>3, <2>4
<1> QED
  BY <1>1, <1>2, <1>3, <1>4, <1>5 DEF T

\* A pointer behind those of a list.
LEMMA PutBehind ==
  ASSUME NEW l \in Seq(Sectors), NEW i \in Nat, Len(l) = i, NEW s \in Sectors
  PROVE  Put(l, i, s) = [j \in 1 .. i + 1 |-> IF j = i + 1 THEN s ELSE l[j]]
<1>1. \A j \in 1 .. i : At(l, j - 1) = l[j]
  BY DEF At
<1> QED
  BY <1>1 DEF Put

\* Only the last list, or a new one, changes when a block is added.
LEMMA PartAppend ==
  ASSUME NEW S \in Seq(Blocks), NEW s \in Blocks, NEW j \in Nat
  PROVE  /\ (j + 1) * MaxDataBlk <= Len(S) => Part(Append(S, s), j) = Part(S, j)
         /\ j * MaxDataBlk <= Len(S) /\ Len(S) < (j + 1) * MaxDataBlk =>
              /\ Part(S, j) \in Seq(Sectors) /\ Len(Part(S, j)) = Len(S) - j * MaxDataBlk
              /\ Part(Append(S, s), j) = Put(Part(S, j), Len(S) - j * MaxDataBlk, s)
<1> USE FileAssumption
<1> DEFINE T == Append(S, s)
           N == Len(S)
           o == j * MaxDataBlk
<1>1. /\ N \in Nat /\ Len(T) = N + 1 /\ T[N + 1] = s /\ \A i \in 1 .. N : T[i] = S[i]
      /\ DOMAIN S = 1 .. N
  BY AppendFacts
<1>2. o \in Nat /\ (j + 1) * MaxDataBlk = o + MaxDataBlk
  BY MulNat, MulSucc
<1>3. /\ Part(S, j) = [i \in 1 .. PartEnd(N, j) - o |-> S[o + i]]
      /\ Part(T, j) = [i \in 1 .. PartEnd(N + 1, j) - o |-> T[o + i]]
  BY <1>1 DEF Part
<1>4. \A n \in Nat : PartEnd(n, j) = IF o + MaxDataBlk <= n THEN o + MaxDataBlk ELSE n
  BY <1>2 DEF PartEnd
<1> HIDE DEF T, N, o
<1>5. ASSUME o + MaxDataBlk <= N PROVE Part(T, j) = Part(S, j)
  <2>1. PartEnd(N, j) - o = MaxDataBlk /\ PartEnd(N + 1, j) - o = MaxDataBlk
    BY <1>1, <1>2, <1>4, <1>5
  <2>2. \A i \in 1 .. MaxDataBlk : o + i \in 1 .. N
    BY <1>1, <1>2, <1>5
  <2> QED
    BY <1>1, <1>3, <2>1, <2>2
<1>6. ASSUME o <= N, N < o + MaxDataBlk
      PROVE  /\ Part(S, j) \in Seq(Sectors) /\ Len(Part(S, j)) = N - o
             /\ Part(T, j) = Put(Part(S, j), N - o, s)
  <2> DEFINE m == N - o
  <2>1. m \in Nat /\ PartEnd(N, j) - o = m /\ PartEnd(N + 1, j) - o = m + 1 /\ N = o + m
    BY <1>1, <1>2, <1>4, <1>6
  <2>2. Part(S, j) = [i \in 1 .. m |-> S[o + i]] /\ Part(T, j) = [i \in 1 .. m + 1 |-> T[o + i]]
    BY <1>3, <2>1
  <2> HIDE DEF m
  <2>3. \A i \in 1 .. m : o + i \in 1 .. N /\ S[o + i] \in Sectors
    <3>1. \A i \in 1 .. m : o + i \in 1 .. N
      BY <1>1, <1>2, <2>1
    <3> QED
      BY <3>1, ElementOfSeq, SectorFacts DEF N
  <2>4. Part(S, j) \in Seq(Sectors) /\ Len(Part(S, j)) = m
    BY <2>1, <2>2, <2>3
  <2>5. Put(Part(S, j), m, s) = [i \in 1 .. m + 1 |-> IF i = m + 1 THEN s ELSE Part(S, j)[i]]
    BY <2>1, <2>4, PutBehind, SectorFacts
  <2>6. ASSUME NEW i \in 1 .. m + 1
        PROVE  T[o + i] = IF i = m + 1 THEN s ELSE Part(S, j)[i]
    <3>1. CASE i = m + 1
      BY <1>1, <1>2, <2>1, <3>1
    <3>2. CASE i # m + 1
      <4>1. i \in 1 .. m
        BY <2>1, <3>2
      <4> QED
        BY <1>1, <2>2, <2>3, <3>2, <4>1
    <3> QED
      BY <3>1, <3>2
  <2>7. Part(T, j) = Put(Part(S, j), m, s)
    BY <2>2, <2>5, <2>6
  <2> QED
    BY <2>4, <2>7 DEF m
<1> QED
  BY <1>2, <1>5, <1>6 DEF T, N, o

\* A writing connection at the end of a file whose blocks are full.
AtFullEnd(D, h, S, E, k) ==
    /\ D \in Disks /\ h \in Headers /\ Chain(dosType, D, h, S, E) /\ dosType \in DOMAIN MaxSize
    /\ disk \in Disks /\ file \in Handles /\ file.mode = "write"
    /\ Agrees(dosType, D, h, S, E, file) /\ FlushedOn(disk, file) = D /\ HasItsExt(file)
    /\ AtEdge /\ AtEOF /\ k \in 1 .. BlockSize /\ file.pos + k <= MaxSize[dosType]

LEMMA FullEnd ==
  ASSUME NEW D, NEW h, NEW S, NEW E, NEW k, AtFullEnd(D, h, S, E, k)
  PROVE  /\ h.byteSize = Len(S) * BlockSize /\ file.pos = h.byteSize /\ file.nDataBlock = Len(S)
         /\ S # <<>> => /\ file.curDataPtr = S[Len(S)] /\ file.currentData = D[S[Len(S)]]
                        /\ Len(S) \in DOMAIN S /\ file.pos >= BlockSize
         /\ S = <<>> => file.pos < BlockSize
<1> USE FileAssumption DEF AtFullEnd
<1> DEFINE N == Len(S)
           c == file.nDataBlock
           o == file.posInDataBlk
<1>1. /\ N \in Nat /\ DOMAIN S = 1 .. N /\ (S = <<>> <=> N = 0)
      /\ h.byteSize \in Nat /\ h.byteSize <= N * BlockSize /\ N * BlockSize < h.byteSize + BlockSize
      /\ file.fileHdr = h
  BY ChainFacts DEF Chain, Listed, Counts, Headers, Agrees
<1>2. file.pos = h.byteSize /\ file.pos % BlockSize = 0 /\ file.pos \in Nat
  BY <1>1 DEF AtEOF, AtEdge
<1> DEFINE q == file.pos \div BlockSize
<1>3. q \in Nat /\ file.pos = q * BlockSize
  <2>1. /\ q \in Nat /\ file.pos % BlockSize \in 0 .. BlockSize - 1
        /\ file.pos = q * BlockSize + (file.pos % BlockSize)
    BY <1>2, DivLaw
  <2>2. q * BlockSize \in Nat
    BY <2>1, MulNat
  <2> HIDE DEF q
  <2> QED
    BY <1>2, <2>1, <2>2
<1> HIDE DEF q, N
<1>4. q = N
  <2>1. q * BlockSize \in Nat /\ N * BlockSize \in Nat
    BY <1>1, <1>3, MulNat
  <2>2. N * BlockSize < q * BlockSize + BlockSize /\ q * BlockSize < N * BlockSize + BlockSize
    BY <1>1, <1>2, <1>3, <2>1
  <2> QED
    BY <1>1, <1>3, <2>2, MulLess
<1>5. h.byteSize = N * BlockSize
  BY <1>2, <1>3, <1>4
<1>6. CASE S = <<>>
  <2>1. 0 * BlockSize = 0
    OBVIOUS
  <2>2. c = 0
    BY <1>6 DEF Agrees
  <2>3. N = 0
    BY <1>1, <1>6
  <2> QED
    BY <1>2, <1>5, <1>6, <2>1, <2>2, <2>3 DEF N
<1>7. CASE S # <<>>
  <2>1. /\ c \in 1 .. N /\ file.curDataPtr = S[c] /\ file.currentData = D[S[c]]
        /\ file.pos = (c - 1) * BlockSize + o /\ o \in 0 .. BlockSize
    BY <1>1, <1>7 DEF Agrees, Holds, Handles
  <2> HIDE DEF c, o
  <2>2. (c - 1) * BlockSize = c * BlockSize - BlockSize /\ c * BlockSize \in Nat
    BY <2>1, MulSucc, MulNat
  <2>3. N * BlockSize \in Nat /\ 1 * BlockSize <= N * BlockSize /\ 1 * BlockSize = BlockSize
    BY <1>1, <1>7, MulNat, MulMono
  <2>4. N * BlockSize <= c * BlockSize
    BY <1>2, <1>5, <2>1, <2>2, <2>3
  <2>5. N <= c
    <3>1. N * BlockSize < c * BlockSize + BlockSize
      BY <2>2, <2>3, <2>4
    <3> QED
      BY <1>1, <2>1, <3>1, MulLess
  <2>6. c = N
    BY <1>1, <2>1, <2>5
  <2> QED
    BY <1>1, <1>2, <1>5, <1>7, <2>1, <2>3, <2>6 DEF c, N
<1> QED
  BY <1>6, <1>7

\* HasItsExt: the extension block in memory is the one that data block number
\* f.nDataBlock is in, on OFS too.
LEMMA ItsExtAt ==
  ASSUME NEW D \in Disks, NEW h \in Headers, NEW S, NEW E, Chain(dosType, D, h, S, E),
         NEW f \in Handles, Agrees(dosType, D, h, S, E, f), S # <<>>,
         HasItsExt(f), f.nDataBlock > MaxDataBlk
  PROVE  \E e \in DOMAIN E : /\ f.nDataBlock = e * MaxDataBlk + f.posInExtBlk
                             /\ f.posInExtBlk > 0 /\ f.currentExt = D[E[e]]
<1> USE FileAssumption
<1> DEFINE c == f.nDataBlock
           i == f.posInExtBlk
<1>1. /\ S \in Seq(Blocks) /\ Len(S) \in Nat /\ DOMAIN S = 1 .. Len(S) /\ Len(E) \in Nat
      /\ DOMAIN E = 1 .. Len(E) /\ \A m \in DOMAIN S : S[m] # 0
  BY ChainFacts
<1>2. c \in DOMAIN S /\ f.curDataPtr = S[c] /\ ExtKnown(D, E, f)
  BY DEF Agrees, Holds
<1>3. i \in 1 .. MaxDataBlk /\ At(f.currentExt.dataBlocks, i - 1) = S[c]
  BY <1>2 DEF HasItsExt, Handles
<1> HIDE DEF c, i
<1>4. f.currentExt # NoExt
  <2> SUFFICES ASSUME f.currentExt = NoExt PROVE FALSE
    OBVIOUS
  <2>1. NoExt.dataBlocks = <<>> /\ Len(<<>>) = 0
    BY DEF NoExt, Ext
  <2>2. At(<<>>, i - 1) = 0
    BY <1>3, <2>1 DEF At
  <2> QED
    BY <1>1, <1>2, <1>3, <2>1, <2>2
<1>5. PICK e \in DOMAIN E : f.currentExt = D[E[e]]
  BY <1>2, <1>4 DEF ExtKnown
<1> DEFINE l == Part(S, e)
           o == e * MaxDataBlk
<1>6. f.currentExt.dataBlocks = l /\ Injective(S) /\ Counts(h.byteSize, Len(S), Len(E))
  BY <1>5 DEF Chain, Listed
<1>7. e \in Nat /\ o \in Nat /\ (e + 1) * MaxDataBlk = o + MaxDataBlk
  BY <1>1, MulNat, MulSucc
<1>8. l = [k \in 1 .. PartEnd(Len(S), e) - o |-> S[o + k]]
  BY DEF Part
<1>9. PartEnd(Len(S), e) = IF o + MaxDataBlk <= Len(S) THEN o + MaxDataBlk ELSE Len(S)
  BY <1>7 DEF PartEnd
<1> HIDE DEF l, o
<1>10. o + i <= Len(S)
  <2>1. o < Len(S)
    <3>1. e <= Len(E)
      BY <1>1, <1>7
    <3>2. e * MaxDataBlk <= Len(E) * MaxDataBlk /\ Len(E) * MaxDataBlk \in Nat
      BY <1>1, <1>7, <3>1, MulMono, MulNat
    <3>3. Len(S) # 0
      BY <1>1, <1>2
    <3>4. Len(E) * MaxDataBlk < Len(S)
      BY <1>1, <1>6, <1>7, <3>1, <3>3 DEF Counts
    <3> QED
      BY <1>1, <1>7, <3>2, <3>4 DEF o
  <2>2. Len(l) = PartEnd(Len(S), e) - o
    <3>1. PartEnd(Len(S), e) - o \in Nat
      BY <1>1, <1>7, <1>9, <2>1, FileAssumption
    <3> QED
      BY <1>8, <3>1
  <2>3. i - 1 < Len(l)
    <3>1. CASE ~(i - 1 < Len(l))
      <4>1. At(l, i - 1) = 0
        BY <3>1 DEF At
      <4> QED
        BY <1>1, <1>2, <1>3, <1>6, <4>1
    <3> QED
      BY <3>1
  <2> QED
    BY <1>1, <1>3, <1>7, <1>9, <2>2, <2>3
<1>11. At(l, i - 1) = S[o + (i - 1) + 1]
  <2>1. i - 1 \in Nat /\ i - 1 < MaxDataBlk /\ e * MaxDataBlk + (i - 1) < Len(S)
    BY <1>1, <1>3, <1>7, <1>10 DEF o
  <2> QED
    BY <1>1, <1>7, <2>1, PartAt DEF l, o
<1>12. c = o + i
  <2>1. o + (i - 1) + 1 = o + i /\ o + i \in DOMAIN S
    BY <1>1, <1>3, <1>7, <1>10
  <2>2. S[o + i] = S[c]
    BY <1>3, <1>6, <1>11, <2>1
  <2> QED
    BY <1>2, <1>6, <2>1, <2>2 DEF Injective
<1> QED
  BY <1>3, <1>5, <1>12 DEF c, i, o

\* The extension block in memory is then the last one of the file.
LEMMA FullEndExt ==
  ASSUME NEW D, NEW h, NEW S, NEW E, NEW k, AtFullEnd(D, h, S, E, k)
  PROVE  /\ E = <<>> => file.currentExt = NoExt
         /\ E # <<>> => /\ Len(E) \in DOMAIN E /\ file.currentExt = D[E[Len(E)]]
                        /\ Len(S) = Len(E) * MaxDataBlk + file.posInExtBlk
                        /\ file.posInExtBlk \in 1 .. MaxDataBlk
<1> USE FileAssumption
<1> DEFINE N == Len(S)
           M == Len(E)
<1>0. /\ Chain(dosType, D, h, S, E) /\ D \in Disks /\ h \in Headers /\ dosType \in DOMAIN MaxSize
      /\ Agrees(dosType, D, h, S, E, file) /\ k \in 1 .. BlockSize /\ file \in Handles
      /\ HasItsExt(file)
  BY DEF AtFullEnd
<1>1. /\ N \in Nat /\ DOMAIN S = 1 .. N /\ M \in Nat /\ DOMAIN E = 1 .. M
      /\ (S = <<>> <=> N = 0) /\ (E = <<>> <=> M = 0)
  BY <1>0, ChainFacts
<1>2. Counts(h.byteSize, N, M)
  BY <1>0 DEF Chain, Listed
<1>3. h.byteSize = N * BlockSize /\ file.pos = h.byteSize /\ file.nDataBlock = N
  BY FullEnd
<1>4. CASE E = <<>>
  BY <1>0, <1>1, <1>4 DEF Agrees, ExtKnown
<1>5. CASE E # <<>>
  <2> HIDE DEF N, M
  <2>1. M # 0 /\ N # 0
    BY <1>1, <1>2, <1>5 DEF Counts
  <2>2. /\ M * MaxDataBlk \in Nat /\ M * MaxDataBlk < N /\ N <= M * MaxDataBlk + MaxDataBlk
    BY <1>1, <1>2, <2>1, MulNat, MulSucc DEF Counts
  <2>3. MaxDataBlk < N
    <3>1. 1 * MaxDataBlk <= M * MaxDataBlk /\ 1 * MaxDataBlk = MaxDataBlk
      BY <1>1, <2>1, MulMono
    <3> QED
      BY <1>1, <2>2, <3>1
  <2>5. PICK e \in DOMAIN E : /\ N = e * MaxDataBlk + file.posInExtBlk /\ file.posInExtBlk > 0
                              /\ file.currentExt = D[E[e]]
    <3>1. S # <<>>
      BY <1>1, <2>1
    <3> QED
      BY <1>0, <1>3, <2>3, <3>1, ItsExtAt
  <2>6. file.posInExtBlk \in 1 .. MaxDataBlk
    BY <1>0, <2>5 DEF Handles
  <2>7. e = M
    <3>1. e \in Nat /\ e * MaxDataBlk \in Nat
      BY <1>1, MulNat
    <3>2. e * MaxDataBlk < M * MaxDataBlk + MaxDataBlk /\ M * MaxDataBlk < e * MaxDataBlk + MaxDataBlk
      BY <1>1, <2>2, <2>5, <2>6, <3>1
    <3> QED
      BY <1>1, <3>1, <3>2, MulLess
  <2> QED
    BY <1>1, <1>5, <2>5, <2>6, <2>7 DEF N, M
<1> QED
  BY <1>4, <1>5

\* A new extension block is needed when all lists are full.
LEMMA NeedsExtWhenFull ==
  ASSUME NEW D, NEW h, NEW S, NEW E, NEW k, AtFullEnd(D, h, S, E, k)
  PROVE  /\ Len(S) \in Nat /\ Len(E) \in Nat /\ Counts(h.byteSize, Len(S), Len(E))
         /\ NeedsExt(file) => Len(S) = (Len(E) + 1) * MaxDataBlk
         /\ ~NeedsExt(file) => Len(S) < (Len(E) + 1) * MaxDataBlk
         /\ Len(E) * MaxDataBlk <= Len(S)
<1> USE FileAssumption
<1> DEFINE N == Len(S)
           M == Len(E)
<1>1. /\ N \in Nat /\ M \in Nat /\ Counts(h.byteSize, N, M)
  <2>1. Chain(dosType, D, h, S, E) /\ D \in Disks /\ h \in Headers
    BY DEF AtFullEnd
  <2> QED
    BY <2>1, ChainFacts DEF Chain, Listed
<1>2. file.nDataBlock = N
  BY FullEnd
<1> HIDE DEF N, M
<1>3. NeedsExt(file) <=> (N >= MaxDataBlk /\ N % MaxDataBlk = 0)
  BY <1>2 DEF NeedsExt
<1>4. M * MaxDataBlk \in Nat /\ (M + 1) * MaxDataBlk = M * MaxDataBlk + MaxDataBlk
  BY <1>1, MulNat, MulSucc
<1>5. CASE N = 0
  <2>1. M = 0 /\ 0 * MaxDataBlk = 0
    BY <1>1, <1>5 DEF Counts
  <2> QED
    BY <1>1, <1>3, <1>4, <1>5, <2>1 DEF N, M
<1>6. CASE N # 0
  <2>1. M * MaxDataBlk < N /\ N <= M * MaxDataBlk + MaxDataBlk
    BY <1>1, <1>4, <1>6 DEF Counts
  <2>2. CASE N = M * MaxDataBlk + MaxDataBlk
    <3> DEFINE m == M + 1
    <3>1. m \in Nat /\ N = m * MaxDataBlk + 0
      BY <1>1, <1>4, <2>2
    <3> HIDE DEF m
    <3>2. N % MaxDataBlk = 0
      <4>1. (m * MaxDataBlk + 0) % MaxDataBlk = 0
        BY <3>1, DivUnique
      <4> QED
        BY <3>1, <4>1
    <3>3. N >= MaxDataBlk
      BY <1>4, <2>2
    <3> QED
      BY <1>1, <1>3, <1>4, <2>1, <2>2, <3>2, <3>3 DEF N, M
  <2>3. CASE N # M * MaxDataBlk + MaxDataBlk
    <3> DEFINE r == N - M * MaxDataBlk
    <3>1. r \in 0 .. MaxDataBlk - 1 /\ r # 0 /\ N = M * MaxDataBlk + r
      BY <1>1, <1>4, <2>1, <2>3
    <3> HIDE DEF r
    <3>2. N % MaxDataBlk = r
      <4>1. (M * MaxDataBlk + r) % MaxDataBlk = r
        BY <1>1, <3>1, DivUnique
      <4> QED
        BY <3>1, <4>1
    <3> QED
      BY <1>1, <1>3, <1>4, <2>1, <2>3, <3>1, <3>2 DEF N, M
  <2> QED
    BY <2>2, <2>3
<1> QED
  BY <1>5, <1>6

\* What differs between the disk and the blocks as a flush would leave them.
LEMMA FullEndDisk ==
  ASSUME NEW D, NEW h, NEW S, NEW E, NEW k, AtFullEnd(D, h, S, E, k), NEW s \in Blocks,
         S # <<>> => s # S[Len(S)], E # <<>> => s # E[Len(E)]
  PROVE  disk[s] = D[s]
<1> USE FileAssumption
<1>1. /\ file \in Handles /\ disk \in Disks /\ FlushedOn(disk, file) = D /\ file.fileHdr = h
      /\ Chain(dosType, D, h, S, E) /\ D \in Disks /\ h \in Headers
  BY DEF AtFullEnd, Agrees
<1>2. ~(file.fileHdr.byteSize > 0 /\ s = file.curDataPtr)
  <2>1. CASE S = <<>>
    <3>1. h.byteSize = 0
      <4>1. Len(S) = 0 /\ h.byteSize = Len(S) * BlockSize
        BY <1>1, <2>1, ChainFacts, FullEnd
      <4>2. 0 * BlockSize = 0
        OBVIOUS
      <4> QED
        BY <4>1, <4>2
    <3> QED
      BY <1>1, <3>1
  <2>2. CASE S # <<>>
    BY <2>2, FullEnd
  <2> QED
    BY <2>1, <2>2
<1>3. s # file.currentExt.headerKey
  <2>1. CASE E = <<>>
    <3>1. file.currentExt = NoExt
      BY <2>1, FullEndExt
    <3> QED
      BY <3>1, SectorFacts DEF NoExt, Ext
  <2>2. CASE E # <<>>
    <3>1. Len(E) \in DOMAIN E /\ file.currentExt = D[E[Len(E)]]
      BY <2>2, FullEndExt
    <3>2. D[E[Len(E)]].headerKey = E[Len(E)]
      BY <1>1, <3>1 DEF Chain, Listed
    <3> QED
      BY <2>2, <3>1, <3>2
  <2> QED
    BY <2>1, <2>2
<1> DEFINE Y == FlushedOn(disk, file)
<1>4. Y[s] = IF file.fileHdr.byteSize > 0 /\ file.curDataPtr # 0 /\ s = file.curDataPtr
               THEN file.currentData
             ELSE IF s = file.currentExt.headerKey THEN file.currentExt ELSE disk[s]
  BY <1>1, FlushedAt
<1> HIDE DEF Y
<1>5. Y[s] = disk[s]
  BY <1>2, <1>3, <1>4
<1> QED
  BY <1>1, <1>5 DEF Y

\* The handle with the new block s in memory, before the bytes are copied; its
\* header is hd, and its extension block is x with i pointers used.
JoinedTo(f, hd, x, i, s) ==
    [f EXCEPT !.fileHdr = hd, !.currentExt = x, !.posInExtBlk = i, !.currentData = Data(Zeros, 0),
              !.curDataPtr = s, !.nDataBlock = @ + 1, !.posInDataBlk = 0]

LEMMA JoinedToIs ==
  ASSUME NEW f \in Handles, NEW hd \in Headers, NEW x \in ExtBlks, NEW i \in 0 .. MaxDataBlk,
         NEW s \in Sectors
  PROVE  LET g == JoinedTo(f, hd, x, i, s) IN
         /\ g \in Handles /\ g.mode = f.mode /\ g.fileHdr = hd /\ g.currentExt = x
         /\ g.posInExtBlk = i /\ g.currentData = Data(Zeros, 0) /\ g.curDataPtr = s
         /\ g.nDataBlock = f.nDataBlock + 1 /\ g.posInDataBlk = 0 /\ g.pos = f.pos
<1> USE FileAssumption
<1> DEFINE g == JoinedTo(f, hd, x, i, s)
           b == Data(Zeros, 0)
           n == f.nDataBlock + 1
<1>1. b \in DataBlks
  BY BlankTypes, SectorFacts
<1>2. n \in Nat /\ 0 \in 0 .. BlockSize
  BY DEF Handles
<1>3. g = [f EXCEPT !.fileHdr = hd, !.currentExt = x, !.posInExtBlk = i, !.currentData = b,
                    !.curDataPtr = s, !.nDataBlock = n, !.posInDataBlk = 0]
  BY DEF JoinedTo, Handles
<1> HIDE DEF b, n, g
<1>4. /\ g \in Handles /\ g.mode = f.mode /\ g.fileHdr = hd /\ g.currentExt = x
      /\ g.posInExtBlk = i /\ g.currentData = b /\ g.curDataPtr = s
      /\ g.nDataBlock = n /\ g.posInDataBlk = 0 /\ g.pos = f.pos
  BY <1>1, <1>2, <1>3 DEF Handles
<1> QED
  BY <1>4 DEF b, n, g

\* Overwrite, by the parts of the handle it goes by.
OverwriteBy(f, data, pos, q, hd, k, v) ==
    [f EXCEPT !.currentData = [data EXCEPT !.data =
                [i \in Offsets |-> IF q <= i /\ i < q + k THEN v ELSE @[i]]],
              !.pos = pos + k, !.posInDataBlk = q + k,
              !.currentDataBlockChanged = TRUE,
              !.fileHdr = [hd EXCEPT !.byteSize = IF pos + k > @ THEN pos + k ELSE @]]

\* The bytes are copied alike when the header has the new size already.
LEMMA OverwriteAtEnd ==
  ASSUME NEW g \in Handles, NEW k \in 1 .. BlockSize, NEW v,
         g.fileHdr.byteSize = g.pos + k, NEW size \in Nat, size <= g.pos + k,
         NEW y, y = [g EXCEPT !.fileHdr = [g.fileHdr EXCEPT !.byteSize = size]]
  PROVE  Overwrite(y, k, v) = Overwrite(g, k, v)
<1> USE FileAssumption
<1> DEFINE last == g.pos + k
           hd == g.fileHdr
           h0 == [hd EXCEPT !.byteSize = size]
           a == g.currentData
           p == g.pos
           q == g.posInDataBlk
           b == [a EXCEPT !.data = [i \in Offsets |-> IF q <= i /\ i < q + k THEN v ELSE @[i]]]
           m == q + k
           Z(f, x) == [f EXCEPT !.currentData = b, !.pos = last, !.posInDataBlk = m,
                                !.currentDataBlockChanged = TRUE, !.fileHdr = x]
<1>1. hd \in Headers /\ g.pos \in Nat /\ last \in Nat
  BY DEF Handles
<1>2. h0.byteSize = size /\ [h0 EXCEPT !.byteSize = last] = hd
        /\ [hd EXCEPT !.byteSize = last] = hd
  BY <1>1 DEF Headers
<1>3. Overwrite(g, k, v) = OverwriteBy(g, a, p, q, hd, k, v)
  BY DEF Overwrite, OverwriteBy, Handles
<1>4. /\ y.fileHdr = h0 /\ y.pos = p /\ y.posInDataBlk = q
      /\ y.currentData = a
  BY DEF Handles
<1>5. y \in Handles
  <2>1. h0 \in Headers
    BY <1>1 DEF Headers
  <2> HIDE DEF h0
  <2>2. y = [g EXCEPT !.fileHdr = h0]
    BY DEF h0
  <2> QED
    BY <2>1, <2>2 DEF Handles
<1>6. Overwrite(y, k, v) = OverwriteBy(y, y.currentData, y.pos, y.posInDataBlk, y.fileHdr, k, v)
  BY <1>5 DEF Overwrite, OverwriteBy, Handles
<1>7. Overwrite(y, k, v) = OverwriteBy(y, a, p, q, h0, k, v)
  BY <1>4, <1>6
<1>8. /\ OverwriteBy(g, a, p, q, hd, k, v)
           = Z(g, [hd EXCEPT !.byteSize = IF last > @ THEN last ELSE @])
      /\ OverwriteBy(y, a, p, q, h0, k, v)
           = Z(y, [h0 EXCEPT !.byteSize = IF last > @ THEN last ELSE @])
  BY DEF OverwriteBy
<1>9. [hd EXCEPT !.byteSize = IF last > @ THEN last ELSE @] = hd
  BY <1>1, <1>2
<1>10. [h0 EXCEPT !.byteSize = IF last > @ THEN last ELSE @] = hd
  <2>1. CASE last > size
    BY <1>1, <1>2, <2>1 DEF Headers
  <2>2. CASE ~(last > size)
    <3>1. size = last
      BY <1>1, <2>2
    <3> QED
      BY <1>1, <1>2, <3>1 DEF Headers
  <2> QED
    BY <2>1, <2>2
<1>11. y = [g EXCEPT !.fileHdr = h0]
  OBVIOUS
<1> HIDE DEF b, last, hd, h0, m, a, p, q
<1>12. Z(y, hd) = Z(g, hd)
  BY <1>11 DEF Handles
<1>13. Overwrite(g, k, v) = Z(g, hd)
  BY ONLY <1>3, <1>8, <1>9
<1>14. Overwrite(y, k, v) = Z(y, hd)
  BY ONLY <1>7, <1>8, <1>10
<1> QED
  BY <1>12, <1>13, <1>14

\* What adfFileCreateNextBlock has arranged when the block s is behind the data
\* blocks S: the header hd, the extension blocks E1 with x, the last of them, in
\* memory, and the disk X, which lacks x and s.
Added(D, h, S, E, X, s, E1, hd, x, i, k) ==
    /\ AtFullEnd(D, h, S, E, k) /\ X \in Disks
    /\ s \in Blocks /\ s \notin BlocksIn(S) /\ s \notin BlocksIn(E1)
    /\ E1 \in Seq(Blocks) /\ Injective(E1) /\ BlocksIn(S) \cap BlocksIn(E1) = {}
    /\ hd \in Headers /\ hd.byteSize = h.byteSize + k /\ hd.dataBlocks = Part(Append(S, s), 0)
    /\ hd.firstData = IF S = <<>> THEN s ELSE h.firstData
    /\ hd.extension = IF E1 = <<>> THEN 0 ELSE E1[1]
    /\ Counts(hd.byteSize, Len(S) + 1, Len(E1))
    /\ x \in ExtBlks /\ i \in 0 .. MaxDataBlk
    /\ E1 = <<>> => x = NoExt
    /\ E1 # <<>> => /\ x.headerKey = E1[Len(E1)]
                    /\ x.dataBlocks = Part(Append(S, s), Len(E1))
                    /\ dosType # "OFS" => i > 0 /\ Len(S) + 1 = Len(E1) * MaxDataBlk + i
    /\ \A j \in DOMAIN E1 : j < Len(E1) => /\ X[E1[j]].kind = "ext"
                                           /\ X[E1[j]].headerKey = E1[j]
                                           /\ X[E1[j]].dataBlocks = Part(Append(S, s), j)
                                           /\ X[E1[j]].extension = E1[j + 1]
    /\ \A m \in DOMAIN S :
          /\ X[S[m]].kind = "data" /\ X[S[m]].data = D[S[m]].data
          /\ dosType = "OFS" => X[S[m]].nextData = IF m = Len(S) THEN s ELSE D[S[m]].nextData

\* The header is the block lists' first part, whatever has been done to it.
LEMMA AddsBlock ==
  ASSUME NEW D, NEW h, NEW S, NEW E, NEW X, NEW s, NEW E1, NEW hd, NEW x, NEW i, NEW k,
         Added(D, h, S, E, X, s, E1, hd, x, i, k),
         NEW g, g = JoinedTo(file, hd, x, i, s), NEW D1, D1 = FlushedOn(X, g)
  PROVE  /\ g \in Handles /\ g.mode = "write" /\ g.pos = h.byteSize /\ g.posInDataBlk = 0
         /\ D1 \in Disks /\ Chain(dosType, D1, hd, Append(S, s), E1)
         /\ Agrees(dosType, D1, hd, Append(S, s), E1, g)
         /\ \A m \in DOMAIN S : D1[S[m]].data = D[S[m]].data
<1> USE FileAssumption
<1> DEFINE T == Append(S, s)
           N == Len(S)
           M == Len(E1)
<1>0. /\ AtFullEnd(D, h, S, E, k) /\ X \in Disks
      /\ s \in Blocks /\ s \notin BlocksIn(S) /\ s \notin BlocksIn(E1)
      /\ E1 \in Seq(Blocks) /\ Injective(E1) /\ BlocksIn(S) \cap BlocksIn(E1) = {}
      /\ hd \in Headers /\ hd.byteSize = h.byteSize + k /\ hd.dataBlocks = Part(T, 0)
      /\ hd.firstData = IF S = <<>> THEN s ELSE h.firstData
      /\ hd.extension = IF E1 = <<>> THEN 0 ELSE E1[1]
      /\ Counts(hd.byteSize, N + 1, M)
      /\ x \in ExtBlks /\ i \in 0 .. MaxDataBlk
      /\ E1 = <<>> => x = NoExt
  BY DEF Added
<1>1. /\ D \in Disks /\ h \in Headers /\ Chain(dosType, D, h, S, E)
      /\ file \in Handles /\ file.mode = "write" /\ k \in Nat \ {0} /\ h.byteSize \in Nat
  BY <1>0 DEF AtFullEnd, Headers
<1>2. /\ S \in Seq(Blocks) /\ Injective(S) /\ N \in Nat /\ DOMAIN S = 1 .. N
      /\ (S = <<>> <=> N = 0) /\ (S # <<>> => h.firstData = S[1])
      /\ \A m \in DOMAIN S : S[m] \in Blocks
      /\ \A m \in DOMAIN S : dosType = "OFS" /\ m < N => D[S[m]].nextData = S[m + 1]
  <2>1. \A m \in DOMAIN S : S[m] \in Blocks
    BY <1>1, ChainFacts
  <2> QED
    BY <1>1, <2>1, ChainFacts DEF Chain, Listed
<1>3. /\ M \in Nat /\ DOMAIN E1 = 1 .. M /\ (E1 = <<>> <=> M = 0)
      /\ \A j \in DOMAIN E1 : E1[j] \in Blocks
  BY <1>0, LenProperties, EmptySeq, ElementOfSeq
<1>4. h.byteSize = N * BlockSize /\ file.pos = h.byteSize /\ file.nDataBlock = N
  BY <1>0, FullEnd
<1>5. /\ T \in Seq(Blocks) /\ Len(T) = N + 1 /\ T # <<>> /\ DOMAIN T = 1 .. N + 1
      /\ T[N + 1] = s /\ \A m \in 1 .. N : T[m] = S[m]
      /\ Injective(T)
  BY <1>0, <1>2, AppendFacts
<1>6. /\ g \in Handles /\ g.mode = file.mode /\ g.fileHdr = hd /\ g.currentExt = x
      /\ g.posInExtBlk = i /\ g.currentData = Data(Zeros, 0) /\ g.curDataPtr = s
      /\ g.nDataBlock = file.nDataBlock + 1 /\ g.posInDataBlk = 0 /\ g.pos = file.pos
  BY <1>0, <1>1, SectorFacts, JoinedToIs
<1>7. /\ D1 \in Disks
      /\ \A b \in Blocks : D1[b] = IF b = s THEN Data(Zeros, 0)
                                   ELSE IF b = x.headerKey THEN x ELSE X[b]
  <2>1. g.fileHdr.byteSize > 0 /\ g.curDataPtr # 0
    BY <1>0, <1>1, <1>6, SectorFacts
  <2>2. /\ FlushedOn(X, g) \in Disks
        /\ \A b \in Blocks : FlushedOn(X, g)[b] =
              IF g.fileHdr.byteSize > 0 /\ g.curDataPtr # 0 /\ b = g.curDataPtr THEN g.currentData
              ELSE IF b = g.currentExt.headerKey THEN g.currentExt ELSE X[b]
    <3>1. X \in Disks /\ g \in Handles
      BY <1>0, <1>6
    <3> QED
      BY <3>1, FlushedAt
  <2> QED
    BY <1>6, <2>1, <2>2
<1> HIDE DEF T, N, M
<1>8. D1[s].kind = "data" /\ D1[s] = Data(Zeros, 0)
  <2>1. D1[s] = Data(Zeros, 0)
    BY <1>0, <1>7
  <2>2. Data(Zeros, 0).kind = "data"
    BY DEF Data
  <2> QED
    BY <2>1, <2>2
<1>9. \A m \in DOMAIN S : S[m] # s /\ S[m] # x.headerKey
  <2> SUFFICES ASSUME NEW m \in DOMAIN S PROVE S[m] # s /\ S[m] # x.headerKey
    OBVIOUS
  <2>1. S[m] \in BlocksIn(S)
    BY DEF BlocksIn
  <2>2. CASE E1 = <<>>
    <3>1. x.headerKey = 0
      BY <1>0, <2>2 DEF NoExt, Ext
    <3> QED
      BY <1>0, <1>2, <2>1, <3>1, SectorFacts
  <2>3. CASE E1 # <<>>
    <3>1. x.headerKey = E1[M] /\ M \in DOMAIN E1
      BY <1>3, <2>3 DEF Added, M
    <3>2. E1[M] \in BlocksIn(E1)
      BY <3>1 DEF BlocksIn
    <3> QED
      BY <1>0, <2>1, <3>1, <3>2
  <2> QED
    BY <2>2, <2>3
<1>10. \A m \in DOMAIN S : D1[S[m]] = X[S[m]]
  BY <1>2, <1>7, <1>9
<1>11. \A j \in DOMAIN E1 : D1[E1[j]] = IF j = M THEN x ELSE X[E1[j]]
  <2> SUFFICES ASSUME NEW j \in DOMAIN E1 PROVE D1[E1[j]] = IF j = M THEN x ELSE X[E1[j]]
    OBVIOUS
  <2>1. E1[j] # s
    BY <1>0 DEF BlocksIn
  <2>2. M \in DOMAIN E1 /\ x.headerKey = E1[M]
    BY <1>3 DEF Added, M
  <2>3. E1[j] = E1[M] <=> j = M
    BY <1>0, <2>2 DEF Injective
  <2> QED
    BY <1>3, <1>7, <2>1, <2>2, <2>3
<1>12. Listed(dosType, D1, hd, T, E1)
  <2>1. \A m \in DOMAIN T, j \in DOMAIN E1 : T[m] # E1[j]
    <3> SUFFICES ASSUME NEW m \in DOMAIN T, NEW j \in DOMAIN E1, T[m] = E1[j] PROVE FALSE
      OBVIOUS
    <3>1. E1[j] \in BlocksIn(E1)
      BY DEF BlocksIn
    <3>2. CASE m = N + 1
      BY <1>0, <1>5, <3>1, <3>2
    <3>3. CASE m # N + 1
      <4>1. m \in DOMAIN S /\ T[m] = S[m]
        BY <1>2, <1>5, <3>3
      <4>2. S[m] \in BlocksIn(S)
        BY <4>1 DEF BlocksIn
      <4> QED
        BY <1>0, <3>1, <4>1, <4>2
    <3> QED
      BY <3>2, <3>3
  <2>2. hd.firstData = T[1]
    <3>1. CASE S = <<>>
      BY <1>0, <1>2, <1>5, <3>1
    <3>2. CASE S # <<>>
      BY <1>0, <1>2, <1>5, <3>2
    <3> QED
      BY <3>1, <3>2
  <2>3. ASSUME NEW j \in DOMAIN E1
        PROVE  /\ D1[E1[j]].kind = "ext"
               /\ D1[E1[j]].headerKey = E1[j]
               /\ D1[E1[j]].dataBlocks = Part(T, j)
               /\ j < M => D1[E1[j]].extension = E1[j + 1]
    <3>1. CASE j = M
      <4>1. D1[E1[j]] = x /\ x.kind = "ext"
        BY <1>0, <1>11, <3>1 DEF ExtBlks
      <4>2. x.headerKey = E1[M] /\ x.dataBlocks = Part(T, M)
        BY <1>3 DEF Added, M, T
      <4> QED
        BY <1>3, <3>1, <4>1, <4>2
    <3>2. CASE j # M
      <4>1. D1[E1[j]] = X[E1[j]] /\ j < M
        BY <1>3, <1>11, <3>2
      <4>2. /\ X[E1[j]].kind = "ext" /\ X[E1[j]].headerKey = E1[j]
            /\ X[E1[j]].dataBlocks = Part(T, j) /\ X[E1[j]].extension = E1[j + 1]
        BY <4>1 DEF Added, M, T
      <4> QED
        BY <3>2, <4>1, <4>2
    <3> QED
      BY <3>1, <3>2
  <2> QED
    BY <1>0, <1>3, <1>5, <2>1, <2>2, <2>3 DEF Listed, M, T
<1>13. Chain(dosType, D1, hd, T, E1)
  <2> SUFFICES ASSUME NEW m \in DOMAIN T
               PROVE  /\ D1[T[m]].kind = "data"
                      /\ dosType = "OFS" /\ m < Len(T) => D1[T[m]].nextData = T[m + 1]
    BY <1>12 DEF Chain
  <2>1. CASE m = N + 1
    BY <1>5, <1>8, <2>1
  <2>2. CASE m # N + 1
    <3>1. m \in DOMAIN S /\ T[m] = S[m] /\ D1[S[m]] = X[S[m]]
      BY <1>2, <1>5, <1>10, <2>2
    <3>2. /\ X[S[m]].kind = "data"
          /\ dosType = "OFS" => X[S[m]].nextData = IF m = N THEN s ELSE D[S[m]].nextData
      BY <3>1 DEF Added, N
    <3>3. dosType = "OFS" => X[S[m]].nextData = T[m + 1]
      <4>1. CASE m = N
        BY <1>5, <3>2, <4>1
      <4>2. CASE m # N
        <5>1. m < N /\ m + 1 \in 1 .. N
          BY <1>2, <3>1, <4>2
        <5> QED
          BY <1>2, <1>5, <3>1, <3>2, <4>2, <5>1
      <4> QED
        BY <4>1, <4>2
    <3> QED
      BY <3>1, <3>2, <3>3
  <2> QED
    BY <2>1, <2>2
<1>14. Agrees(dosType, D1, hd, T, E1, g)
  <2>1. ExtKnown(D1, E1, g)
    <3>1. CASE E1 = <<>>
      BY <1>0, <1>6, <3>1 DEF ExtKnown
    <3>2. CASE E1 # <<>>
      <4>1. M \in DOMAIN E1
        BY <1>3, <3>2
      <4> QED
        BY <1>6, <1>11, <4>1 DEF ExtKnown
    <3> QED
      BY <3>1, <3>2
  <2>2. g.nDataBlock = N + 1
    BY <1>4, <1>6
  <2>3. ExtAt(dosType, D1, E1, g)
    <3> SUFFICES ASSUME dosType # "OFS", N + 1 > MaxDataBlk
                 PROVE  \E e \in DOMAIN E1 : /\ N + 1 = e * MaxDataBlk + i /\ i > 0
                                             /\ x = D1[E1[e]]
      BY <1>6, <2>2 DEF ExtAt
    <3>1. M # 0
      <4>1. N + 1 <= (M + 1) * MaxDataBlk /\ (0 + 1) * MaxDataBlk = MaxDataBlk
        BY <1>0, <1>2 DEF Counts, M, N
      <4> QED
        BY <1>2, <1>3, <4>1
    <3>2. M \in DOMAIN E1
      BY <1>3, <3>1
    <3>3. i > 0 /\ N + 1 = M * MaxDataBlk + i
      BY <1>3, <3>1 DEF Added, M, N
    <3> QED
      BY <1>11, <3>2, <3>3
  <2>4. Holds(dosType, D1, T, E1, g, N + 1)
    <3>1. N + 1 \in DOMAIN T
      BY <1>2, <1>5
    <3> QED
      BY <1>5, <1>6, <1>8, <2>1, <2>2, <2>3, <3>1 DEF Holds
  <2>5. g.pos = ((N + 1) - 1) * BlockSize + 0
    <3>1. (N + 1) - 1 = N /\ N * BlockSize \in Nat
      BY <1>2, MulNat
    <3> QED
      BY <1>4, <1>6, <3>1 DEF N
  <2> QED
    BY <1>5, <1>6, <2>1, <2>2, <2>4, <2>5 DEF Agrees
<1>15. \A m \in DOMAIN S : D1[S[m]].data = D[S[m]].data
  BY <1>10 DEF Added
<1> QED
  BY <1>1, <1>4, <1>6, <1>7, <1>13, <1>14, <1>15 DEF T

\* How adfFileCreateNextBlock and the overwriting behind it end.
LEMMA AddedEnds ==
  ASSUME NEW D, NEW h, NEW S, NEW E, NEW X, NEW s, NEW E1, NEW hd, NEW x, NEW i, NEW k,
         Added(D, h, S, E, X, s, E1, hd, x, i, k), NEW v \in Values \cup {0},
         dosType' = dosType, disk' = X, hdr' \in Headers, free' \subseteq Blocks,
         Blocks \ free' = BlocksIn(S) \cup {s} \cup BlocksIn(E1),
         file' = Overwrite(JoinedTo(file, hd, x, i, s), k, v), ~astray'
  PROVE  /\ TypesOK' /\ file'.mode = "write" /\ file'.pos = file.pos + k
         /\ \E D2, h2 : /\ FileIs(D2, h2, Append(S, s), E1)'
                        /\ Wrote(D, h, S, D2, h2, Append(S, s), file.pos, k, v)
<1> USE FileAssumption
<1>1. PICK g : g = JoinedTo(file, hd, x, i, s)
  OBVIOUS
<1>2. PICK D1 : D1 = FlushedOn(X, g)
  OBVIOUS
<1>3. PICK T : T = Append(S, s)
  OBVIOUS
<1>4. /\ g \in Handles /\ g.mode = "write" /\ g.pos = h.byteSize /\ g.posInDataBlk = 0
      /\ D1 \in Disks /\ Chain(dosType, D1, hd, T, E1)
      /\ Agrees(dosType, D1, hd, T, E1, g)
      /\ \A m \in DOMAIN S : D1[S[m]].data = D[S[m]].data
  BY <1>1, <1>2, <1>3, AddsBlock
<1>5. /\ AtFullEnd(D, h, S, E, k) /\ X \in Disks /\ s \in Blocks /\ s \notin BlocksIn(S)
      /\ hd \in Headers /\ hd.byteSize = h.byteSize + k
  BY DEF Added
<1>6. /\ D \in Disks /\ h \in Headers /\ Chain(dosType, D, h, S, E) /\ dosType \in DOMAIN MaxSize
      /\ k \in 1 .. BlockSize /\ file.pos + k <= MaxSize[dosType] /\ h.byteSize \in Nat
  BY <1>5 DEF AtFullEnd, Headers
<1>7. file.pos = h.byteSize /\ h.byteSize = Len(S) * BlockSize
  BY <1>5, FullEnd
<1>8. S \in Seq(Blocks) /\ Len(S) \in Nat
  BY <1>6, ChainFacts
<1>9. T # <<>> /\ BlocksIn(T) = BlocksIn(S) \cup {s} /\ \A m \in 1 .. Len(S) : T[m] = S[m]
  BY <1>3, <1>5, <1>8, AppendFacts
<1>10. /\ TypesOK' /\ file'.mode = "write" /\ file'.pos = g.pos + k
       /\ \E D2, h2 : FileIs(D2, h2, T, E1)' /\ Wrote(D1, hd, T, D2, h2, T, g.pos, k, v)
  <2>1. hd.byteSize <= MaxSize[dosType] /\ g.posInDataBlk + k <= BlockSize
        /\ g.pos + k <= MaxSize[dosType]
    BY <1>4, <1>5, <1>6, <1>7
  <2>2. Blocks \ free' = BlocksIn(T) \cup BlocksIn(E1)
    BY <1>9
  <2> QED
    BY <1>1, <1>2, <1>4, <1>5, <1>6, <1>9, <2>1, <2>2, WriteEnds
<1>11. PICK D2, h2 : FileIs(D2, h2, T, E1)' /\ Wrote(D1, hd, T, D2, h2, T, g.pos, k, v)
  BY <1>10
<1>12. Wrote(D, h, S, D2, h2, T, file.pos, k, v)
  <2>1. h2.byteSize = file.pos + k /\ file.pos + k > h.byteSize
    <3>1. h2.byteSize = IF g.pos + k > hd.byteSize THEN g.pos + k ELSE hd.byteSize
      BY <1>11 DEF Wrote
    <3> QED
      BY <1>4, <1>5, <1>6, <1>7, <3>1
  <2>2. ASSUME NEW b \in 1 .. h2.byteSize
        PROVE  ByteAt(D2, T, b) = IF file.pos < b /\ b <= file.pos + k THEN v ELSE ByteAt(D, S, b)
    <3>1. ByteAt(D2, T, b) = IF file.pos < b /\ b <= file.pos + k THEN v ELSE ByteAt(D1, T, b)
      BY <1>4, <1>7, <1>11 DEF Wrote
    <3>2. ASSUME b <= file.pos PROVE ByteAt(D1, T, b) = ByteAt(D, S, b)
      <4> DEFINE q == (b - 1) \div BlockSize
                 o == (b - 1) % BlockSize
      <4>1. q \in Nat /\ o \in 0 .. BlockSize - 1 /\ b - 1 = q * BlockSize + o
        <5>1. b - 1 \in Nat
          BY <1>6, <2>1, <1>7
        <5> QED
          BY <5>1, DivLaw
      <4> HIDE DEF q, o
      <4>2. q * BlockSize \in Nat /\ Len(S) * BlockSize \in Nat
        BY <1>8, <4>1, MulNat
      <4>3. q + 1 \in 1 .. Len(S)
        <5>1. q < Len(S)
          <6>1. CASE Len(S) <= q
            <7>1. Len(S) * BlockSize <= q * BlockSize
              BY <1>8, <4>1, <6>1, MulMono
            <7> QED
              BY <1>7, <3>2, <4>1, <4>2, <7>1
          <6> QED
            BY <1>8, <4>1, <6>1
        <5> QED
          BY <1>8, <4>1, <5>1
      <4>4. Placed(b, q, o)
        BY <4>1, <4>2, <1>6, <1>7, <2>1 DEF Placed
      <4>9. q \in Nat
        BY <4>1
      <4>5. ByteAt(D1, T, b) = D1[T[q + 1]].data[o] /\ ByteAt(D, S, b) = D[S[q + 1]].data[o]
        <5>1. ByteAt(D1, T, b) = D1[T[q + 1]].data[o]
          BY ONLY <4>4, <4>9, BytePlace
        <5>2. ByteAt(D, S, b) = D[S[q + 1]].data[o]
          BY ONLY <4>4, <4>9, BytePlace
        <5> QED
          BY <5>1, <5>2
      <4>6. T[q + 1] = S[q + 1] /\ q + 1 \in DOMAIN S
        BY <1>8, <1>9, <4>3, LenProperties
      <4> QED
        BY <1>4, <4>5, <4>6
    <3>3. b <= file.pos \/ (file.pos < b /\ b <= file.pos + k)
      BY <1>6, <1>7, <2>1
    <3> QED
      BY <3>1, <3>2, <3>3
  <2> QED
    BY <1>6, <2>1, <2>2 DEF Wrote
<1> QED
  BY <1>3, <1>4, <1>7, <1>10, <1>11, <1>12

\* What adfFileCreateNextBlock makes of the handle, before the bytes are copied.
Joins(f, s) == [WithNewData(f, s) EXCEPT !.currentData = Data(Zeros, 0), !.curDataPtr = s,
                                         !.nDataBlock = @ + 1, !.posInDataBlk = 0]

LEMMA JoinsHeader ==
  ASSUME NEW f \in Handles, NEW s \in Sectors, f.nDataBlock < MaxDataBlk,
         NEW hc, hc = [f.fileHdr EXCEPT !.firstData = IF f.nDataBlock = 0 THEN s ELSE @,
                                        !.dataBlocks = Put(@, f.nDataBlock, s)]
  PROVE  Joins(f, s) = JoinedTo(f, hc, f.currentExt, f.posInExtBlk, s)
<1>1. WithNewData(f, s) = [f EXCEPT !.fileHdr = hc]
  BY DEF WithNewData, Handles
<1> DEFINE b == Data(Zeros, 0)
           n == f.nDataBlock + 1
           Z(y) == [y EXCEPT !.currentData = b, !.curDataPtr = s, !.nDataBlock = n, !.posInDataBlk = 0]
<1>2. Joins(f, s) = Z([f EXCEPT !.fileHdr = hc])
  BY <1>1 DEF Joins, Handles
<1>3. JoinedTo(f, hc, f.currentExt, f.posInExtBlk, s)
        = [f EXCEPT !.fileHdr = hc, !.currentExt = f.currentExt, !.posInExtBlk = f.posInExtBlk,
                    !.currentData = b, !.curDataPtr = s, !.nDataBlock = n, !.posInDataBlk = 0]
  BY DEF JoinedTo, Handles
<1> HIDE DEF b, n
<1>4. Z([f EXCEPT !.fileHdr = hc])
        = [f EXCEPT !.fileHdr = hc, !.currentData = b, !.curDataPtr = s, !.nDataBlock = n,
                    !.posInDataBlk = 0]
  BY DEF Handles
<1>5. [f EXCEPT !.fileHdr = hc, !.currentData = b, !.curDataPtr = s, !.nDataBlock = n,
                !.posInDataBlk = 0]
        = [f EXCEPT !.fileHdr = hc, !.currentExt = f.currentExt, !.posInExtBlk = f.posInExtBlk,
                    !.currentData = b, !.curDataPtr = s, !.nDataBlock = n, !.posInDataBlk = 0]
  BY DEF Handles
<1> QED
  BY <1>2, <1>3, <1>4, <1>5

\* An extension block with the block s in place i, and a handle with another
\* header and extension block.
WithPointer(x, i, s) == [x EXCEPT !.dataBlocks = Put(@, i, s)]
WithExt(f, hc, x, i) == [f EXCEPT !.fileHdr = hc, !.currentExt = x, !.posInExtBlk = i]

LEMMA JoinsExt ==
  ASSUME NEW y \in Handles, NEW hc \in Headers, NEW z \in ExtBlks, NEW i \in 0 .. MaxDataBlk,
         NEW s \in Sectors, y.nDataBlock >= MaxDataBlk
  PROVE  Joins(WithExt(y, hc, z, i), s) = JoinedTo(y, hc, WithPointer(z, i, s), i + 1, s)
<1> USE FileAssumption
<1> DEFINE x == WithPointer(z, i, s)
           b == Data(Zeros, 0)
           n == y.nDataBlock + 1
           j == i + 1
           Z(u) == [u EXCEPT !.currentData = b, !.curDataPtr = s, !.nDataBlock = n, !.posInDataBlk = 0]
<1>1. PICK f : f = WithExt(y, hc, z, i)
  OBVIOUS
<1>2. f = [y EXCEPT !.fileHdr = hc, !.currentExt = z, !.posInExtBlk = i]
  BY <1>1 DEF WithExt
<1>3. f \in Handles /\ f.nDataBlock = y.nDataBlock /\ f.currentExt = z /\ f.posInExtBlk = i
  BY <1>2 DEF Handles
<1>4. ~(f.nDataBlock < MaxDataBlk)
  BY <1>3 DEF Handles
<1>5. WithNewData(f, s) = [f EXCEPT !.currentExt = x, !.posInExtBlk = j]
  BY <1>3, <1>4 DEF WithNewData, WithPointer, Handles
<1>6. Joins(f, s) = Z([f EXCEPT !.currentExt = x, !.posInExtBlk = j])
  BY <1>3, <1>5 DEF Joins, Handles
<1>7. JoinedTo(y, hc, x, i + 1, s)
        = [y EXCEPT !.fileHdr = hc, !.currentExt = x, !.posInExtBlk = j,
                    !.currentData = b, !.curDataPtr = s, !.nDataBlock = n, !.posInDataBlk = 0]
  BY DEF JoinedTo, Handles
<1> HIDE DEF b, n, j, x
<1>8. Z([f EXCEPT !.currentExt = x, !.posInExtBlk = j])
        = [f EXCEPT !.currentExt = x, !.posInExtBlk = j,
                    !.currentData = b, !.curDataPtr = s, !.nDataBlock = n, !.posInDataBlk = 0]
  BY <1>3 DEF Handles
<1>9. [f EXCEPT !.currentExt = x, !.posInExtBlk = j,
                !.currentData = b, !.curDataPtr = s, !.nDataBlock = n, !.posInDataBlk = 0]
        = [y EXCEPT !.fileHdr = hc, !.currentExt = x, !.posInExtBlk = j,
                    !.currentData = b, !.curDataPtr = s, !.nDataBlock = n, !.posInDataBlk = 0]
  BY <1>2 DEF Handles
<1>10. Joins(f, s) = JoinedTo(y, hc, x, i + 1, s)
  BY <1>6, <1>7, <1>8, <1>9
<1> QED
  BY <1>1, <1>10 DEF x

\* The size may be in the header already.
LEMMA OverwriteJoined ==
  ASSUME NEW f \in Handles, NEW hc \in Headers, NEW x \in ExtBlks, NEW i \in 0 .. MaxDataBlk,
         NEW s \in Sectors, NEW k \in 1 .. BlockSize, NEW v, hc.byteSize = f.pos,
         NEW hd, hd = [hc EXCEPT !.byteSize = f.pos + k]
  PROVE  /\ hd \in Headers
         /\ Overwrite(JoinedTo(f, hc, x, i, s), k, v) = Overwrite(JoinedTo(f, hd, x, i, s), k, v)
<1> USE FileAssumption
<1>1. f.pos \in Nat /\ f.pos + k \in Nat
  BY DEF Handles
<1>2. hd \in Headers /\ hd.byteSize = f.pos + k
  BY <1>1 DEF Headers
<1>3. hc = [hd EXCEPT !.byteSize = f.pos]
  BY DEF Headers
<1>4. PICK g : g = JoinedTo(f, hd, x, i, s)
  OBVIOUS
<1>5. PICK y : y = JoinedTo(f, hc, x, i, s)
  OBVIOUS
<1>6. g \in Handles /\ g.fileHdr = hd /\ g.pos = f.pos
  BY <1>2, <1>4, JoinedToIs
<1>7. y = [g EXCEPT !.fileHdr = hc]
  <2> DEFINE b == Data(Zeros, 0)
             n == f.nDataBlock + 1
  <2>1. y = [f EXCEPT !.fileHdr = hc, !.currentExt = x, !.posInExtBlk = i,
                      !.currentData = b, !.curDataPtr = s, !.nDataBlock = n, !.posInDataBlk = 0]
    BY <1>5 DEF JoinedTo, Handles
  <2>2. g = [f EXCEPT !.fileHdr = hd, !.currentExt = x, !.posInExtBlk = i,
                      !.currentData = b, !.curDataPtr = s, !.nDataBlock = n, !.posInDataBlk = 0]
    BY <1>4 DEF JoinedTo, Handles
  <2> HIDE DEF b, n
  <2> QED
    BY <2>1, <2>2 DEF Handles
<1>8. y = [g EXCEPT !.fileHdr = [g.fileHdr EXCEPT !.byteSize = f.pos]]
  BY <1>3, <1>6, <1>7
<1>9. Overwrite(y, k, v) = Overwrite(g, k, v)
  <2>1. PICK size : size = f.pos
    OBVIOUS
  <2>2. g.fileHdr.byteSize = g.pos + k /\ size \in Nat /\ size <= g.pos + k
    BY <1>1, <1>2, <1>6, <2>1
  <2>3. y = [g EXCEPT !.fileHdr = [g.fileHdr EXCEPT !.byteSize = size]]
    BY <1>8, <2>1
  <2>4. g \in Handles /\ k \in 1 .. BlockSize
    BY <1>6
  <2> QED
    BY ONLY <2>2, <2>3, <2>4, OverwriteAtEnd
<1> QED
  BY <1>2, <1>4, <1>5, <1>9

\* The data block in memory on the disk, linked to the new block s for OFS.
LEMMA SavedData ==
  ASSUME NEW D, NEW h, NEW S, NEW E, NEW k, AtFullEnd(D, h, S, E, k), NEW s \in Blocks,
         NEW X0 \in Disks, \A m \in DOMAIN S : X0[S[m]] = disk[S[m]],
         NEW X, X = SavedPrevious(X0, file, s)
  PROVE  /\ X \in Disks
         /\ \A b \in Blocks : (S # <<>> => b # S[Len(S)]) => X[b] = X0[b]
         /\ \A m \in DOMAIN S :
               /\ X[S[m]].kind = "data" /\ X[S[m]].data = D[S[m]].data
               /\ dosType = "OFS" => X[S[m]].nextData = IF m = Len(S) THEN s ELSE D[S[m]].nextData
<1> USE FileAssumption
<1> DEFINE N == Len(S)
<1>1. /\ D \in Disks /\ h \in Headers /\ Chain(dosType, D, h, S, E) /\ file \in Handles
      /\ file.pos \in Nat
  BY DEF AtFullEnd, Handles
<1>2. /\ N \in Nat /\ DOMAIN S = 1 .. N
      /\ \A m \in DOMAIN S : S[m] \in Blocks /\ D[S[m]] \in DataBlks
      /\ E # <<>> => Len(E) \in DOMAIN E
      /\ \A m \in DOMAIN S, j \in DOMAIN E : S[m] # E[j]
  <2>1. /\ N \in Nat /\ DOMAIN S = 1 .. N
        /\ \A m \in DOMAIN S : S[m] \in Blocks /\ D[S[m]] \in DataBlks
    BY <1>1, ChainFacts
  <2>2. E # <<>> => Len(E) \in DOMAIN E
    <3>1. Len(E) \in Nat /\ DOMAIN E = 1 .. Len(E) /\ (E = <<>> <=> Len(E) = 0)
      BY <1>1, ChainFacts
    <3> QED
      BY <3>1
  <2> QED
    BY <1>1, <2>1, <2>2 DEF Chain, Listed
<1> HIDE DEF N
<1>3. CASE S = <<>>
  <2>1. X = X0
    <3>1. file.pos < BlockSize
      BY <1>3, FullEnd
    <3> QED
      BY <1>1, <3>1 DEF SavedPrevious
  <2>2. DOMAIN S = {}
    BY <1>3
  <2> QED
    BY <1>3, <2>1, <2>2
<1>4. CASE S # <<>>
  <2>1. /\ file.curDataPtr = S[N] /\ file.currentData = D[S[N]] /\ N \in DOMAIN S
        /\ file.pos >= BlockSize
    BY <1>4, FullEnd DEF N
  <2> DEFINE a == D[S[N]]
             b == IF isOFS THEN [a EXCEPT !.nextData = s] ELSE a
  <2>2. X = [X0 EXCEPT ![S[N]] = b]
    BY <2>1 DEF SavedPrevious
  <2>3. a \in DataBlks /\ S[N] \in Blocks
    BY <1>2, <2>1
  <2> HIDE DEF a
  <2>4. b \in DataBlks /\ b.kind = "data" /\ b.data = a.data
        /\ (dosType = "OFS" => b.nextData = s)
    BY <2>3, SectorFacts DEF DataBlks, isOFS
  <2> HIDE DEF b
  <2>5. X \in Disks /\ \A c \in Blocks : X[c] = IF c = S[N] THEN b ELSE X0[c]
    BY <2>2, <2>3, <2>4 DEF Disks
  <2>6. ASSUME NEW m \in DOMAIN S
        PROVE  /\ X[S[m]].kind = "data" /\ X[S[m]].data = D[S[m]].data
               /\ dosType = "OFS" => X[S[m]].nextData = IF m = N THEN s ELSE D[S[m]].nextData
    <3>1. CASE m = N
      BY <2>3, <2>4, <2>5, <3>1 DEF a
    <3>2. CASE m # N
      <4>1. S[m] # S[N]
        <5>1. Injective(S)
          BY <1>1 DEF Chain, Listed
        <5> QED
          BY <2>1, <3>2, <5>1 DEF Injective
      <4>2. disk[S[m]] = D[S[m]]
        <5>1. E # <<>> => S[m] # E[Len(E)]
          BY <1>2
        <5>2. S[m] \in Blocks /\ S[m] # S[Len(S)]
          BY <1>2, <4>1 DEF N
        <5>3. PICK c : c = S[m]
          OBVIOUS
        <5>4. disk[c] = D[c]
          <6>1. /\ AtFullEnd(D, h, S, E, k) /\ c \in Blocks
                /\ S # <<>> => c # S[Len(S)]
                /\ E # <<>> => c # E[Len(E)]
            BY <5>1, <5>2, <5>3
          <6> QED
            BY ONLY <6>1, FullEndDisk
        <5> QED
          BY <5>3, <5>4
      <4>3. X[S[m]] = D[S[m]]
        BY <1>2, <2>5, <4>1, <4>2
      <4>4. D[S[m]].kind = "data"
        BY <1>2 DEF DataBlks
      <4> QED
        BY <3>2, <4>3, <4>4
    <3> QED
      BY <3>1, <3>2
  <2> QED
    BY <1>4, <2>5, <2>6 DEF N
<1> QED
  BY <1>3, <1>4

LEMMA CountsMore ==
  ASSUME NEW N \in Nat, NEW M \in Nat, NEW k \in 1 .. BlockSize, NEW n, n = N * BlockSize,
         M * MaxDataBlk <= N, N < (M + 1) * MaxDataBlk
  PROVE  Counts(n + k, N + 1, M)
<1> USE FileAssumption
<1>1. N * BlockSize \in Nat /\ (N + 1) * BlockSize = N * BlockSize + BlockSize
      /\ M * MaxDataBlk \in Nat /\ (M + 1) * MaxDataBlk = M * MaxDataBlk + MaxDataBlk
  BY MulNat, MulSucc
<1>2. n + k <= (N + 1) * BlockSize /\ (N + 1) * BlockSize < n + k + BlockSize
  BY <1>1
<1>3. M * MaxDataBlk < N + 1 /\ N + 1 <= (M + 1) * MaxDataBlk /\ N + 1 # 0
  BY <1>1
<1> QED
  BY <1>2, <1>3 DEF Counts

LEMMA LowestIn ==
  ASSUME NEW Q \in SUBSET Blocks, Q # {}
  PROVE  Lowest(Q) \in Q
<1> DEFINE IsLeast(b) == \A c \in Q : b <= c
<1>1. \E b \in Q : IsLeast(b)
  BY SectorFacts, NatMin
<1>2. Lowest(Q) = CHOOSE b \in Q : IsLeast(b)
  BY DEF Lowest
<1> HIDE DEF IsLeast
<1> QED
  BY <1>1, <1>2

\* The new block has its pointer in the header.
LEMMA AddsToHeader ==
  ASSUME NEW D, NEW h, NEW S, NEW E, NEW k, AtFullEnd(D, h, S, E, k), ~NeedsExt(file),
         file.nDataBlock < MaxDataBlk, NEW v,
         NEW s \in Blocks, s \notin BlocksIn(S), s \notin BlocksIn(E),
         NEW X, X = SavedPrevious(disk, file, s)
  PROVE  \E hd, x, i : /\ Added(D, h, S, E, X, s, E, hd, x, i, k)
                       /\ Overwrite(Joins(file, s), k, v) = Overwrite(JoinedTo(file, hd, x, i, s), k, v)
<1> USE FileAssumption
<1> DEFINE N == Len(S)
           T == Append(S, s)
<1>1. /\ D \in Disks /\ h \in Headers /\ Chain(dosType, D, h, S, E) /\ file \in Handles
      /\ k \in 1 .. BlockSize /\ disk \in Disks /\ file.fileHdr = h
  BY DEF AtFullEnd, Agrees
<1>2. /\ h.byteSize = N * BlockSize /\ file.pos = h.byteSize /\ file.nDataBlock = N
      /\ N < MaxDataBlk
  BY FullEnd
<1>3. /\ N \in Nat /\ Counts(h.byteSize, N, Len(E)) /\ Len(E) \in Nat
      /\ Len(E) * MaxDataBlk <= N
  BY NeedsExtWhenFull
<1>4. S \in Seq(Blocks) /\ (E = <<>> <=> Len(E) = 0) /\ (S = <<>> <=> N = 0)
  BY <1>1, ChainFacts
<1>5. E = <<>> /\ Len(E) = 0
  <2>1. CASE Len(E) = 0
    BY <1>4, <2>1
  <2>2. CASE Len(E) # 0
    <3>1. 1 * MaxDataBlk <= Len(E) * MaxDataBlk /\ 1 * MaxDataBlk = MaxDataBlk
          /\ Len(E) * MaxDataBlk \in Nat
      BY <1>3, <2>2, MulMono, MulNat
    <3> QED
      BY <1>2, <1>3, <3>1
  <2> QED
    BY <2>1, <2>2
<1> HIDE DEF N
<1>6. h.dataBlocks = Part(S, 0) /\ h.extension = 0
  BY <1>1, <1>5 DEF Chain, Listed
<1>7. file.currentExt = NoExt /\ NoExt \in ExtBlks /\ file.posInExtBlk \in 0 .. MaxDataBlk
  BY <1>1, <1>5, FullEndExt, BlankTypes DEF Handles
<1> DEFINE i == file.posInExtBlk
           list == Put(h.dataBlocks, N, s)
           first == IF N = 0 THEN s ELSE h.firstData
           hc == [h EXCEPT !.firstData = first, !.dataBlocks = list]
           hd == [hc EXCEPT !.byteSize = file.pos + k]
<1>8. list = Part(T, 0) /\ list \in Lists
  <2>1. 0 * MaxDataBlk = 0 /\ (0 + 1) * MaxDataBlk = MaxDataBlk
    OBVIOUS
  <2>2. Part(T, 0) = Put(Part(S, 0), N - 0 * MaxDataBlk, s)
    BY <1>2, <1>3, <1>4, <2>1, PartAppend DEF N
  <2>3. N - 0 * MaxDataBlk = N
    BY <1>3, <2>1
  <2>4. Part(S, 0) \in Seq(Sectors) /\ Len(Part(S, 0)) = N
    <3>1. Part(S, 0) \in Seq(Sectors) /\ Len(Part(S, 0)) = N - 0 * MaxDataBlk
      BY <1>2, <1>3, <1>4, <2>1, PartAppend DEF N
    <3> QED
      BY <2>3, <3>1
  <2>5. list = [j \in 1 .. N + 1 |-> IF j = N + 1 THEN s ELSE Part(S, 0)[j]]
    <3>1. /\ N \in Nat /\ s \in Sectors /\ Part(S, 0) \in Seq(Sectors) /\ Len(Part(S, 0)) = N
          /\ list = Put(Part(S, 0), N, s)
      BY <1>3, <1>6, <2>4, SectorFacts
    <3> QED
      BY ONLY <3>1, PutBehind
  <2>6. list \in [1 .. N + 1 -> Sectors]
    <3>1. \A j \in 1 .. N : Part(S, 0)[j] \in Sectors
      BY <1>3, <2>4, ElementOfSeq
    <3> HIDE DEF list
    <3> QED
      BY <1>3, <2>5, <3>1, SectorFacts
  <2> HIDE DEF list
  <2>7. list \in Seq(Sectors) /\ Len(list) = N + 1
    BY <1>3, <2>6
  <2> QED
    BY <1>2, <1>3, <1>6, <2>2, <2>3, <2>7 DEF Lists, list
<1>9. hc \in Headers /\ hc.byteSize = file.pos
  <2>1. first \in Sectors
    BY <1>1, SectorFacts DEF Headers
  <2> HIDE DEF first, list
  <2> QED
    BY <1>1, <1>2, <1>8, <2>1 DEF Headers
<1>10. /\ hc.firstData = first /\ hc.dataBlocks = list /\ hc.extension = h.extension
  BY <1>1 DEF Headers
<1>11. Joins(file, s) = JoinedTo(file, hc, NoExt, i, s)
  <2>1. hc = [file.fileHdr EXCEPT !.firstData = IF file.nDataBlock = 0 THEN s ELSE @,
                                  !.dataBlocks = Put(@, file.nDataBlock, s)]
    BY <1>1, <1>2 DEF Headers
  <2> HIDE DEF hc
  <2> QED
    BY <1>1, <1>7, <2>1, SectorFacts, JoinsHeader
<1> HIDE DEF hc
<1>12. hd \in Headers /\ Overwrite(Joins(file, s), k, v) = Overwrite(JoinedTo(file, hd, NoExt, i, s), k, v)
  BY <1>1, <1>7, <1>9, <1>11, SectorFacts, OverwriteJoined
<1>13. /\ hd.byteSize = h.byteSize + k /\ hd.firstData = first /\ hd.dataBlocks = list
       /\ hd.extension = h.extension
  BY <1>2, <1>9, <1>10 DEF Headers
<1> HIDE DEF hd, list, first, i
<1>14. Counts(hd.byteSize, N + 1, Len(E))
  BY <1>1, <1>2, <1>3, <1>5, <1>13, CountsMore
<1>15. /\ X \in Disks
       /\ \A m \in DOMAIN S :
             /\ X[S[m]].kind = "data" /\ X[S[m]].data = D[S[m]].data
             /\ dosType = "OFS" => X[S[m]].nextData = IF m = N THEN s ELSE D[S[m]].nextData
  BY <1>1, SavedData DEF N
<1>16. /\ E \in Seq(Blocks) /\ Injective(E) /\ BlocksIn(E) = {} /\ DOMAIN E = {}
  BY <1>5, EmptySeq DEF Injective, BlocksIn
<1>17. Added(D, h, S, E, X, s, E, hd, NoExt, i, k)
  <2>1. /\ hd.firstData = IF S = <<>> THEN s ELSE h.firstData
        /\ hd.extension = IF E = <<>> THEN 0 ELSE E[1]
    BY <1>4, <1>5, <1>6, <1>13 DEF first
  <2>2. i \in 0 .. MaxDataBlk
    BY <1>7 DEF i
  <2> QED
    BY <1>5, <1>7, <1>8, <1>12, <1>13, <1>14, <1>15, <1>16, <2>1, <2>2 DEF Added, N, T
<1> QED
  BY <1>12, <1>17

\* What a pointer behind the others makes of an extension block.
LEMMA PutInExt ==
  ASSUME NEW S \in Seq(Blocks), NEW s \in Blocks, NEW M \in Nat, M * MaxDataBlk <= Len(S),
         Len(S) < (M + 1) * MaxDataBlk, NEW y \in ExtBlks, y.dataBlocks = Part(S, M),
         NEW p, p = Len(S) - M * MaxDataBlk,
         NEW x, x = WithPointer(y, p, s)
  PROVE  /\ x \in ExtBlks /\ x.headerKey = y.headerKey /\ x.extension = y.extension
         /\ x.dataBlocks = Part(Append(S, s), M) /\ p \in Nat /\ p + 1 \in 0 .. MaxDataBlk
<1> USE FileAssumption
<1> DEFINE l == Part(S, M)
           list == Put(l, p, s)
<1>1. /\ Len(S) \in Nat /\ M * MaxDataBlk \in Nat
      /\ (M + 1) * MaxDataBlk = M * MaxDataBlk + MaxDataBlk
  BY LenProperties, MulNat, MulSucc
<1>2. p \in Nat /\ p < MaxDataBlk
  BY <1>1
<1>3. l \in Seq(Sectors) /\ Len(l) = p /\ list = Part(Append(S, s), M)
  <2>1. S \in Seq(Blocks) /\ s \in Blocks /\ M \in Nat /\ M * MaxDataBlk <= Len(S)
        /\ Len(S) < (M + 1) * MaxDataBlk /\ p = Len(S) - M * MaxDataBlk
    OBVIOUS
  <2> QED
    BY ONLY <2>1, PartAppend
<1> HIDE DEF l
<1>4. list = [j \in 1 .. p + 1 |-> IF j = p + 1 THEN s ELSE l[j]]
  <2>1. s \in Sectors /\ p \in Nat /\ l \in Seq(Sectors) /\ Len(l) = p
    BY <1>2, <1>3, SectorFacts
  <2> QED
    BY ONLY <2>1, PutBehind
<1>7. list = Put(y.dataBlocks, p, s)
  BY DEF l
<1> HIDE DEF list
<1>5. list \in Lists
  <2>1. \A j \in 1 .. p : l[j] \in Sectors
    BY <1>2, <1>3, ElementOfSeq
  <2>2. list \in [1 .. p + 1 -> Sectors]
    <3>1. s \in Sectors
      BY SectorFacts
    <3> QED
      BY ONLY <1>2, <1>4, <2>1, <3>1
  <2>3. PICK n : n = p + 1
    OBVIOUS
  <2>4. n \in Nat /\ n <= MaxDataBlk /\ list \in [1 .. n -> Sectors]
    BY ONLY <1>2, <2>2, <2>3, FileAssumption
  <2>5. list \in Seq(Sectors) /\ Len(list) = n
    BY ONLY <2>4
  <2> QED
    BY ONLY <2>4, <2>5 DEF Lists
<1>6. x = [y EXCEPT !.dataBlocks = list]
  BY <1>7 DEF WithPointer
<1>8. /\ x \in ExtBlks /\ x.headerKey = y.headerKey /\ x.extension = y.extension
      /\ x.dataBlocks = list
  BY <1>5, <1>6 DEF ExtBlks
<1>9. p + 1 \in 0 .. MaxDataBlk
  BY <1>2
<1> QED
  BY ONLY <1>2, <1>3, <1>8, <1>9

\* The extension blocks before the last one, on the disk.
LEMMA EarlierExts ==
  ASSUME NEW D, NEW h, NEW S, NEW E, NEW k, AtFullEnd(D, h, S, E, k), NEW s \in Blocks,
         NEW j \in DOMAIN E, j < Len(E)
  PROVE  /\ E[j] \in Blocks /\ disk[E[j]].kind = "ext" /\ disk[E[j]].headerKey = E[j]
         /\ disk[E[j]].dataBlocks = Part(Append(S, s), j)
         /\ disk[E[j]].extension = E[j + 1] /\ E[j] # E[Len(E)]
         /\ S # <<>> => E[j] # S[Len(S)]
<1> USE FileAssumption
<1>1. /\ D \in Disks /\ h \in Headers /\ Chain(dosType, D, h, S, E)
  BY DEF AtFullEnd
<1>2. /\ S \in Seq(Blocks) /\ Len(S) \in Nat /\ DOMAIN S = 1 .. Len(S)
      /\ Len(E) \in Nat /\ DOMAIN E = 1 .. Len(E) /\ E[j] \in Blocks
      /\ (S = <<>> <=> Len(S) = 0)
  BY <1>1, ChainFacts
<1>3. E[j] # E[Len(E)]
  <2>1. Injective(E) /\ Len(E) \in DOMAIN E
    BY <1>1, <1>2 DEF Chain, Listed
  <2> QED
    BY <1>2, <2>1 DEF Injective
<1>4. S # <<>> => E[j] # S[Len(S)]
  <2>1. \A m \in DOMAIN S : S[m] # E[j]
    BY <1>1 DEF Chain, Listed
  <2> QED
    BY <1>2, <2>1
<1>5. disk[E[j]] = D[E[j]]
  <2>1. PICK c : c = E[j]
    OBVIOUS
  <2>2. /\ AtFullEnd(D, h, S, E, k) /\ c \in Blocks
        /\ S # <<>> => c # S[Len(S)]
        /\ E # <<>> => c # E[Len(E)]
    BY <1>2, <1>3, <1>4, <2>1
  <2>3. disk[c] = D[c]
    BY ONLY <2>2, FullEndDisk
  <2> QED
    BY <2>1, <2>3
<1>6. /\ D[E[j]].kind = "ext" /\ D[E[j]].headerKey = E[j]
      /\ D[E[j]].dataBlocks = Part(S, j) /\ D[E[j]].extension = E[j + 1]
  BY <1>1 DEF Chain, Listed
<1>7. Part(Append(S, s), j) = Part(S, j)
  <2>1. Len(E) * MaxDataBlk <= Len(S)
    BY NeedsExtWhenFull
  <2>2. j + 1 \in Nat /\ j + 1 <= Len(E) /\ j \in Nat
    BY <1>2
  <2>3. (j + 1) * MaxDataBlk <= Len(E) * MaxDataBlk /\ (j + 1) * MaxDataBlk \in Nat
        /\ Len(E) * MaxDataBlk \in Nat
    BY <1>2, <2>2, MulMono, MulNat
  <2>4. (j + 1) * MaxDataBlk <= Len(S)
    BY <1>2, <2>1, <2>3
  <2> QED
    BY <1>2, <2>2, <2>4, PartAppend
<1> QED
  BY <1>2, <1>3, <1>4, <1>5, <1>6, <1>7

\* The new block has its pointer in the extension block in memory.
LEMMA AddsToExt ==
  ASSUME NEW D, NEW h, NEW S, NEW E, NEW k, AtFullEnd(D, h, S, E, k), ~NeedsExt(file),
         file.nDataBlock >= MaxDataBlk, NEW v,
         NEW s \in Blocks, s \notin BlocksIn(S), s \notin BlocksIn(E),
         NEW X, X = SavedPrevious(disk, file, s)
  PROVE  \E hd, x, i : /\ Added(D, h, S, E, X, s, E, hd, x, i, k)
                       /\ Overwrite(Joins(file, s), k, v) = Overwrite(JoinedTo(file, hd, x, i, s), k, v)
<1> USE FileAssumption
<1> DEFINE N == Len(S)
           M == Len(E)
           T == Append(S, s)
           p == file.posInExtBlk
           y == file.currentExt
           x == WithPointer(y, p, s)
           hd == [h EXCEPT !.byteSize = file.pos + k]
<1>1. /\ D \in Disks /\ h \in Headers /\ Chain(dosType, D, h, S, E) /\ file \in Handles
      /\ k \in 1 .. BlockSize /\ disk \in Disks /\ file.fileHdr = h
  BY DEF AtFullEnd, Agrees
<1>2. /\ h.byteSize = N * BlockSize /\ file.pos = h.byteSize /\ file.nDataBlock = N
      /\ N >= MaxDataBlk
  BY FullEnd
<1>3. /\ N \in Nat /\ M \in Nat /\ M * MaxDataBlk <= N /\ N < (M + 1) * MaxDataBlk
  BY NeedsExtWhenFull
<1>4. S \in Seq(Blocks) /\ (E = <<>> <=> M = 0) /\ (S = <<>> <=> N = 0) /\ E \in Seq(Blocks)
      /\ DOMAIN E = 1 .. M
  BY <1>1, ChainFacts
<1>5. M # 0 /\ E # <<>>
  <2>1. (0 + 1) * MaxDataBlk = MaxDataBlk
    OBVIOUS
  <2> QED
    BY <1>2, <1>3, <1>4, <2>1
<1>6. /\ M \in DOMAIN E /\ y = D[E[M]] /\ N = M * MaxDataBlk + p /\ p \in 1 .. MaxDataBlk
  BY <1>5, FullEndExt
<1>7. y \in ExtBlks /\ y.headerKey = E[M] /\ y.dataBlocks = Part(S, M)
  <2>1. D[E[M]] \in ExtBlks
    BY <1>1, <1>6, ChainFacts
  <2>2. D[E[M]].headerKey = E[M] /\ D[E[M]].dataBlocks = Part(S, M)
    BY <1>1, <1>6 DEF Chain, Listed
  <2> QED
    BY <1>6, <2>1, <2>2
<1>8. /\ x \in ExtBlks /\ x.headerKey = E[M] /\ x.dataBlocks = Part(T, M)
      /\ p + 1 \in 0 .. MaxDataBlk /\ p \in Nat
  <2>1. M * MaxDataBlk \in Nat
    BY <1>3, MulNat
  <2>2. p = N - M * MaxDataBlk
    <3> DEFINE a == M * MaxDataBlk
    <3>1. a \in Nat /\ N \in Nat /\ N = a + p /\ p \in Nat
      BY <1>3, <1>6, <2>1
    <3> HIDE DEF a, p, N
    <3>2. p = N - a
      BY ONLY <3>1
    <3> QED
      BY <3>2 DEF a
  <2> HIDE DEF p, y, M, x
  <2>3. x = WithPointer(y, p, s)
    BY DEF x
  <2>4. /\ S \in Seq(Blocks) /\ s \in Blocks /\ M \in Nat /\ M * MaxDataBlk <= Len(S)
        /\ Len(S) < (M + 1) * MaxDataBlk /\ y \in ExtBlks /\ y.dataBlocks = Part(S, M)
        /\ p = Len(S) - M * MaxDataBlk
    BY <1>3, <1>4, <1>7, <2>2
  <2>5. /\ x \in ExtBlks /\ x.headerKey = y.headerKey /\ x.extension = y.extension
        /\ x.dataBlocks = Part(T, M) /\ p \in Nat /\ p + 1 \in 0 .. MaxDataBlk
    BY ONLY <2>3, <2>4, PutInExt
  <2> QED
    BY <1>7, <2>5
<1>9. h.byteSize = file.pos /\ file.pos + k = h.byteSize + k
  BY <1>2
<1>10. Joins(file, s) = JoinedTo(file, h, x, p + 1, s)
  <2>1. file = WithExt(file, h, y, p)
    BY <1>1 DEF Handles, WithExt
  <2>2. /\ file \in Handles /\ h \in Headers /\ y \in ExtBlks /\ p \in 0 .. MaxDataBlk
        /\ s \in Sectors /\ file.nDataBlock >= MaxDataBlk
    BY <1>1, <1>6, <1>7, SectorFacts
  <2> HIDE DEF y, p
  <2>3. Joins(WithExt(file, h, y, p), s) = JoinedTo(file, h, WithPointer(y, p, s), p + 1, s)
    BY ONLY <2>2, JoinsExt
  <2> QED
    BY ONLY <2>1, <2>3 DEF x
<1> HIDE DEF x, p, y, N, M
<1>11. hd \in Headers /\ Overwrite(Joins(file, s), k, v) = Overwrite(JoinedTo(file, hd, x, p + 1, s), k, v)
  BY <1>1, <1>8, <1>9, <1>10, SectorFacts, OverwriteJoined
<1>12. /\ hd.byteSize = h.byteSize + k /\ hd.firstData = h.firstData
       /\ hd.dataBlocks = h.dataBlocks /\ hd.extension = h.extension
  BY <1>1, <1>9 DEF Headers
<1> HIDE DEF hd
<1>13. Counts(hd.byteSize, N + 1, M)
  BY <1>1, <1>2, <1>3, <1>12, CountsMore
<1>14. /\ X \in Disks
       /\ \A b \in Blocks : (S # <<>> => b # S[N]) => X[b] = disk[b]
       /\ \A m \in DOMAIN S :
             /\ X[S[m]].kind = "data" /\ X[S[m]].data = D[S[m]].data
             /\ dosType = "OFS" => X[S[m]].nextData = IF m = N THEN s ELSE D[S[m]].nextData
  BY <1>1, SavedData DEF N
<1>15. hd.dataBlocks = Part(T, 0)
  <2>1. h.dataBlocks = Part(S, 0) /\ (0 + 1) * MaxDataBlk = MaxDataBlk
    BY <1>1 DEF Chain, Listed
  <2>2. Part(T, 0) = Part(S, 0)
    BY <1>2, <1>4, <2>1, PartAppend DEF N
  <2> QED
    BY <1>12, <2>1, <2>2
<1>16. \A j \in DOMAIN E : j < M => /\ X[E[j]].kind = "ext" /\ X[E[j]].headerKey = E[j]
                                    /\ X[E[j]].dataBlocks = Part(T, j)
                                    /\ X[E[j]].extension = E[j + 1]
  <2> SUFFICES ASSUME NEW j \in DOMAIN E, j < M
               PROVE  /\ X[E[j]].kind = "ext" /\ X[E[j]].headerKey = E[j]
                      /\ X[E[j]].dataBlocks = Part(T, j) /\ X[E[j]].extension = E[j + 1]
    OBVIOUS
  <2>1. /\ E[j] \in Blocks /\ disk[E[j]].kind = "ext" /\ disk[E[j]].headerKey = E[j]
        /\ disk[E[j]].dataBlocks = Part(T, j)
        /\ disk[E[j]].extension = E[j + 1]
        /\ S # <<>> => E[j] # S[N]
    BY EarlierExts DEF M, N
  <2>2. X[E[j]] = disk[E[j]]
    BY <1>14, <2>1
  <2> QED
    BY <2>1, <2>2
<1>17. /\ Injective(E) /\ BlocksIn(S) \cap BlocksIn(E) = {}
       /\ hd.firstData = (IF S = <<>> THEN s ELSE h.firstData)
       /\ hd.extension = (IF E = <<>> THEN 0 ELSE E[1])
  <2>1. /\ Injective(E) /\ \A i \in DOMAIN S, j \in DOMAIN E : S[i] # E[j]
        /\ h.extension = IF E = <<>> THEN 0 ELSE E[1]
    BY <1>1 DEF Chain, Listed
  <2>2. S # <<>>
    BY <1>2, <1>4
  <2> QED
    BY <1>12, <2>1, <2>2 DEF BlocksIn
<1>18. N + 1 = M * MaxDataBlk + (p + 1)
  <2>1. M * MaxDataBlk \in Nat
    BY <1>3, MulNat
  <2> QED
    BY <1>6, <2>1
<1>19. p + 1 > 0
  BY <1>8
<1>20. Added(D, h, S, E, X, s, E, hd, x, p + 1, k)
  BY <1>4, <1>5, <1>6, <1>8, <1>11, <1>12, <1>13, <1>14, <1>15, <1>16, <1>17, <1>18, <1>19
     DEF Added, N, M, T
<1> QED
  BY <1>11, <1>20

\* The extension block in memory on the disk, linked to the new one.
LEMMA LinkedExtIs ==
  ASSUME NEW D, NEW h, NEW S, NEW E, NEW k, AtFullEnd(D, h, S, E, k), NeedsExt(file),
         NEW e \in Blocks, NEW X0, X0 = LinkedExt(disk, file, e)
  PROVE  /\ X0 \in Disks
         /\ E = <<>> => X0 = disk
         /\ \A b \in Blocks : (E # <<>> => b # E[Len(E)]) => X0[b] = disk[b]
         /\ E # <<>> => /\ X0[E[Len(E)]].kind = "ext" /\ X0[E[Len(E)]].headerKey = E[Len(E)]
                        /\ X0[E[Len(E)]].dataBlocks = Part(S, Len(E))
                        /\ X0[E[Len(E)]].extension = e
         /\ Len(S) = MaxDataBlk <=> E = <<>>
<1> USE FileAssumption
<1> DEFINE N == Len(S)
           M == Len(E)
           y == file.currentExt
<1>1. /\ D \in Disks /\ h \in Headers /\ Chain(dosType, D, h, S, E) /\ file \in Handles
      /\ disk \in Disks
  BY DEF AtFullEnd
<1>2. file.nDataBlock = N
  BY FullEnd
<1>3. N \in Nat /\ M \in Nat /\ N = (M + 1) * MaxDataBlk
  BY NeedsExtWhenFull
<1>4. (E = <<>> <=> M = 0)
  BY <1>1, ChainFacts
<1> HIDE DEF N, M
<1>5. CASE E = <<>>
  <2>1. N = MaxDataBlk
    <3>1. (0 + 1) * MaxDataBlk = MaxDataBlk
      OBVIOUS
    <3> QED
      BY <1>3, <1>4, <1>5, <3>1
  <2>2. ~(file.nDataBlock >= 2 * MaxDataBlk)
    BY <1>2, <2>1
  <2>3. X0 = disk
    BY <2>2 DEF LinkedExt
  <2> QED
    BY <1>1, <1>5, <2>1, <2>3 DEF N
<1>6. CASE E # <<>>
  <2>1. N >= 2 * MaxDataBlk /\ N # MaxDataBlk
    <3>1. M + 1 \in Nat /\ 2 <= M + 1
      BY <1>3, <1>4, <1>6
    <3>2. 2 * MaxDataBlk <= (M + 1) * MaxDataBlk /\ 2 * MaxDataBlk \in Nat
      BY <3>1, MulMono, MulNat
    <3> QED
      BY <1>3, <3>2
  <2>2. y = D[E[M]] /\ M \in DOMAIN E
    BY <1>6, FullEndExt DEF M
  <2>3. /\ E[M] \in Blocks /\ y \in ExtBlks /\ y.kind = "ext" /\ y.headerKey = E[M]
        /\ y.dataBlocks = Part(S, M)
    <3>1. D[E[M]] \in ExtBlks /\ E[M] \in Blocks
      BY <1>1, <2>2, ChainFacts
    <3>2. D[E[M]].kind = "ext" /\ D[E[M]].headerKey = E[M] /\ D[E[M]].dataBlocks = Part(S, M)
      BY <1>1, <2>2 DEF Chain, Listed
    <3> QED
      BY <2>2, <3>1, <3>2
  <2> DEFINE z == [y EXCEPT !.extension = e]
  <2>4. X0 = [disk EXCEPT ![E[M]] = z]
    BY <1>2, <2>1, <2>3 DEF LinkedExt
  <2> HIDE DEF y
  <2>5. /\ z \in ExtBlks /\ z.kind = "ext" /\ z.headerKey = E[M] /\ z.extension = e
        /\ z.dataBlocks = Part(S, M)
    BY <2>3, SectorFacts DEF ExtBlks
  <2> HIDE DEF z
  <2>6. X0 \in Disks /\ \A b \in Blocks : X0[b] = IF b = E[M] THEN z ELSE disk[b]
    BY <1>1, <2>3, <2>4, <2>5 DEF Disks
  <2> QED
    BY <1>6, <2>1, <2>3, <2>5, <2>6 DEF N, M
<1> QED
  BY <1>5, <1>6

\* The new block has the first pointer of a new extension block.
LEMMA AddsWithExt ==
  ASSUME NEW D, NEW h, NEW S, NEW E, NEW k, AtFullEnd(D, h, S, E, k), NeedsExt(file), NEW v,
         NEW s \in Blocks, s \notin BlocksIn(S), s \notin BlocksIn(E),
         NEW e \in Blocks, e \notin BlocksIn(S), e \notin BlocksIn(E), e # s,
         NEW X, X = SavedPrevious(LinkedExt(disk, file, e), file, s)
  PROVE  \E hd, x, i : /\ Added(D, h, S, E, X, s, Append(E, e), hd, x, i, k)
                       /\ Overwrite(Joins(WithNewExt(file, e), s), k, v)
                            = Overwrite(JoinedTo(file, hd, x, i, s), k, v)
<1> USE FileAssumption
<1> DEFINE N == Len(S)
           M == Len(E)
           T == Append(S, s)
           E1 == Append(E, e)
           x == WithPointer(Ext(e), 0, s)
           hc == [h EXCEPT !.extension = IF N = MaxDataBlk THEN e ELSE @]
           hd == [hc EXCEPT !.byteSize = file.pos + k]
<1>1. /\ D \in Disks /\ h \in Headers /\ Chain(dosType, D, h, S, E) /\ file \in Handles
      /\ k \in 1 .. BlockSize /\ disk \in Disks /\ file.fileHdr = h
  BY DEF AtFullEnd, Agrees
<1>2. /\ h.byteSize = N * BlockSize /\ file.pos = h.byteSize /\ file.nDataBlock = N
  BY FullEnd
<1>3. /\ N \in Nat /\ M \in Nat /\ N = (M + 1) * MaxDataBlk /\ M + 1 \in Nat
  BY NeedsExtWhenFull
<1>4. S \in Seq(Blocks) /\ (E = <<>> <=> M = 0) /\ (S = <<>> <=> N = 0) /\ E \in Seq(Blocks)
      /\ DOMAIN E = 1 .. M
  BY <1>1, ChainFacts
<1>5. /\ E1 \in Seq(Blocks) /\ Len(E1) = M + 1 /\ E1 # <<>> /\ DOMAIN E1 = 1 .. M + 1
      /\ E1[M + 1] = e /\ \A i \in 1 .. M : E1[i] = E[i]
      /\ BlocksIn(E1) = BlocksIn(E) \cup {e} /\ Injective(E1)
  <2>1. Injective(E)
    BY <1>1 DEF Chain, Listed
  <2> QED
    BY <1>4, <2>1, AppendFacts
<1>6. N >= MaxDataBlk
  <2>1. 1 * MaxDataBlk <= (M + 1) * MaxDataBlk /\ 1 * MaxDataBlk = MaxDataBlk
    BY <1>3, MulMono
  <2> QED
    BY <1>3, <2>1
<1> HIDE DEF N, M, E1
<1>7. /\ x \in ExtBlks /\ x.headerKey = e /\ x.extension = 0 /\ x.dataBlocks = Part(T, M + 1)
  <2> DEFINE y == Ext(e)
             m == M + 1
             p == 0
  <2>1. /\ m \in Nat /\ m * MaxDataBlk = N /\ (m + 1) * MaxDataBlk = N + MaxDataBlk
    BY <1>3, MulSucc
  <2>2. y \in ExtBlks /\ y.dataBlocks = <<>> /\ y.headerKey = e /\ y.extension = 0
    BY BlankTypes, SectorFacts DEF Ext
  <2> HIDE DEF m, y
  <2>3. Part(S, m) = <<>>
    <3>1. /\ S \in Seq(Blocks) /\ s \in Blocks /\ m \in Nat
          /\ m * MaxDataBlk <= Len(S) /\ Len(S) < (m + 1) * MaxDataBlk
      BY <1>3, <1>4, <2>1 DEF N
    <3>2. Part(S, m) \in Seq(Sectors) /\ Len(Part(S, m)) = Len(S) - m * MaxDataBlk
      BY ONLY <3>1, PartAppend
    <3> QED
      BY <1>3, <2>1, <3>2, EmptySeq DEF N
  <2>4. /\ S \in Seq(Blocks) /\ s \in Blocks /\ m \in Nat /\ m * MaxDataBlk <= Len(S)
        /\ Len(S) < (m + 1) * MaxDataBlk /\ y \in ExtBlks /\ y.dataBlocks = Part(S, m)
        /\ p = Len(S) - m * MaxDataBlk
    BY <1>3, <1>4, <2>1, <2>2, <2>3 DEF N
  <2>5. x = WithPointer(y, p, s)
    BY DEF y
  <2> HIDE DEF x, p
  <2>6. /\ x \in ExtBlks /\ x.headerKey = y.headerKey /\ x.extension = y.extension
        /\ x.dataBlocks = Part(T, m)
    BY ONLY <2>4, <2>5, PutInExt
  <2> QED
    BY <2>2, <2>6 DEF m
<1>8. /\ hc \in Headers /\ hc.byteSize = file.pos /\ hc.firstData = h.firstData
      /\ hc.dataBlocks = h.dataBlocks
      /\ hc.extension = IF N = MaxDataBlk THEN e ELSE h.extension
  <2>1. (IF N = MaxDataBlk THEN e ELSE h.extension) \in Sectors
    BY <1>1, SectorFacts DEF Headers
  <2> QED
    BY <1>1, <1>2, <2>1 DEF Headers
<1>9. Joins(WithNewExt(file, e), s) = JoinedTo(file, hc, x, 1, s)
  <2>1. WithNewExt(file, e) = WithExt(file, hc, Ext(e), 0)
    <3>1. WithNewExt(file, e) = [file EXCEPT !.currentExt = Ext(e), !.posInExtBlk = 0, !.fileHdr = hc]
      BY <1>1, <1>2 DEF WithNewExt, Handles
    <3> HIDE DEF hc
    <3> QED
      BY <1>1, <3>1 DEF WithExt, Handles
  <2>2. /\ file \in Handles /\ hc \in Headers /\ Ext(e) \in ExtBlks /\ 0 \in 0 .. MaxDataBlk
        /\ s \in Sectors /\ file.nDataBlock >= MaxDataBlk
    BY <1>1, <1>2, <1>6, <1>8, BlankTypes, SectorFacts
  <2> HIDE DEF hc
  <2>3. Joins(WithExt(file, hc, Ext(e), 0), s) = JoinedTo(file, hc, WithPointer(Ext(e), 0, s), 0 + 1, s)
    BY ONLY <2>2, JoinsExt
  <2> QED
    BY ONLY <2>1, <2>3 DEF x
<1> HIDE DEF x, hc
<1>10. hd \in Headers /\ Overwrite(Joins(WithNewExt(file, e), s), k, v) = Overwrite(JoinedTo(file, hd, x, 1, s), k, v)
  BY <1>1, <1>7, <1>8, <1>9, SectorFacts, OverwriteJoined
<1>11. /\ hd.byteSize = h.byteSize + k /\ hd.firstData = h.firstData
       /\ hd.dataBlocks = h.dataBlocks
       /\ hd.extension = IF N = MaxDataBlk THEN e ELSE h.extension
  BY <1>2, <1>8 DEF Headers
<1> HIDE DEF hd
<1>12. Counts(hd.byteSize, N + 1, M + 1)
  <2> DEFINE m == M + 1
  <2>1. m \in Nat /\ m * MaxDataBlk <= N /\ N < (m + 1) * MaxDataBlk
    <3>1. (m + 1) * MaxDataBlk = m * MaxDataBlk + MaxDataBlk
      BY <1>3, MulSucc
    <3> QED
      BY <1>3, <3>1
  <2> HIDE DEF m
  <2>2. Counts(h.byteSize + k, N + 1, m)
    BY <1>1, <1>2, <1>3, <2>1, CountsMore
  <2> QED
    BY <1>11, <2>2 DEF m
<1>13. PICK X0 : X0 = LinkedExt(disk, file, e)
  OBVIOUS
<1>14. /\ X0 \in Disks
       /\ \A b \in Blocks : (E # <<>> => b # E[M]) => X0[b] = disk[b]
       /\ E # <<>> => /\ X0[E[M]].kind = "ext" /\ X0[E[M]].headerKey = E[M]
                      /\ X0[E[M]].dataBlocks = Part(S, M) /\ X0[E[M]].extension = e
       /\ N = MaxDataBlk <=> E = <<>>
  BY <1>13, LinkedExtIs DEF N, M
<1>15. \A i \in DOMAIN S, j \in DOMAIN E : S[i] # E[j] /\ S[i] \in Blocks
  <2>1. \A i \in DOMAIN S : S[i] \in Blocks
    BY <1>1, ChainFacts
  <2> QED
    BY <1>1, <2>1 DEF Chain, Listed
<1>16. \A m \in DOMAIN S : X0[S[m]] = disk[S[m]]
  <2> SUFFICES ASSUME NEW m \in DOMAIN S PROVE X0[S[m]] = disk[S[m]]
    OBVIOUS
  <2>1. S[m] \in Blocks
    BY <1>1, ChainFacts
  <2>2. E # <<>> => S[m] # E[M]
    BY <1>3, <1>4, <1>15
  <2> QED
    BY <1>14, <2>1, <2>2
<1>17. /\ X \in Disks
       /\ \A b \in Blocks : (S # <<>> => b # S[N]) => X[b] = X0[b]
       /\ \A m \in DOMAIN S :
             /\ X[S[m]].kind = "data" /\ X[S[m]].data = D[S[m]].data
             /\ dosType = "OFS" => X[S[m]].nextData = IF m = N THEN s ELSE D[S[m]].nextData
  <2>1. X = SavedPrevious(X0, file, s)
    BY <1>13
  <2> QED
    BY ONLY AtFullEnd(D, h, S, E, k), s \in Blocks, <1>14, <1>16, <2>1, SavedData DEF N
<1>18. hd.dataBlocks = Part(T, 0)
  <2>1. h.dataBlocks = Part(S, 0) /\ (0 + 1) * MaxDataBlk = MaxDataBlk
    BY <1>1 DEF Chain, Listed
  <2>2. Part(T, 0) = Part(S, 0)
    BY <1>4, <1>6, <2>1, PartAppend DEF N
  <2> QED
    BY <1>11, <2>1, <2>2
<1>19. \A j \in DOMAIN E1 : j < M + 1 => /\ X[E1[j]].kind = "ext" /\ X[E1[j]].headerKey = E1[j]
                                         /\ X[E1[j]].dataBlocks = Part(T, j)
                                         /\ X[E1[j]].extension = E1[j + 1]
  <2> SUFFICES ASSUME NEW j \in DOMAIN E1, j < M + 1
               PROVE  /\ X[E1[j]].kind = "ext" /\ X[E1[j]].headerKey = E1[j]
                      /\ X[E1[j]].dataBlocks = Part(T, j) /\ X[E1[j]].extension = E1[j + 1]
    OBVIOUS
  <2>1. j \in 1 .. M /\ j \in DOMAIN E /\ E1[j] = E[j] /\ E # <<>>
    BY <1>3, <1>4, <1>5
  <2>2. CASE j < M
    <3>1. /\ E[j] \in Blocks /\ disk[E[j]].kind = "ext" /\ disk[E[j]].headerKey = E[j]
          /\ disk[E[j]].dataBlocks = Part(T, j)
          /\ disk[E[j]].extension = E[j + 1] /\ E[j] # E[M]
          /\ S # <<>> => E[j] # S[N]
      BY <2>1, <2>2, EarlierExts DEF M, N
    <3>2. X[E[j]] = disk[E[j]]
      <4>1. X0[E[j]] = disk[E[j]]
        BY <1>14, <3>1
      <4>2. X[E[j]] = X0[E[j]]
        BY <1>17, <3>1
      <4> QED
        BY <4>1, <4>2
    <3>3. E1[j + 1] = E[j + 1]
      BY <1>3, <1>5, <2>1, <2>2
    <3> QED
      BY <2>1, <3>1, <3>2, <3>3
  <2>3. CASE j = M
    <3>1. E[M] \in Blocks
      BY <1>1, <2>1, <2>3, ChainFacts
    <3>2. S # <<>> => E[M] # S[N]
      <4>1. M \in DOMAIN E /\ (S # <<>> => N \in DOMAIN S)
        BY <1>1, <1>3, <2>1, <2>3, ChainFacts DEF N
      <4> QED
        BY ONLY <1>15, <4>1
    <3>3. X[E[M]] = X0[E[M]]
      BY <1>17, <3>1, <3>2
    <3>4. Part(T, M) = Part(S, M)
      BY <1>3, <1>4, PartAppend DEF N
    <3>5. E1[M + 1] = e
      BY <1>5
    <3> QED
      BY <1>14, <2>1, <2>3, <3>3, <3>4, <3>5
  <2> QED
    BY <1>3, <2>1, <2>2, <2>3
<1>20. /\ BlocksIn(S) \cap BlocksIn(E1) = {} /\ s \notin BlocksIn(E1)
       /\ hd.firstData = (IF S = <<>> THEN s ELSE h.firstData)
       /\ hd.extension = (IF E1 = <<>> THEN 0 ELSE E1[1])
  <2>1. h.extension = IF E = <<>> THEN 0 ELSE E[1]
    BY <1>1 DEF Chain, Listed
  <2>2. BlocksIn(S) \cap BlocksIn(E) = {}
    BY <1>1 DEF Chain, Listed, BlocksIn
  <2>3. S # <<>>
    BY <1>4, <1>6
  <2>4. hd.extension = E1[1]
    <3>1. CASE E = <<>>
      BY <1>4, <1>5, <1>11, <1>14, <3>1
    <3>2. CASE E # <<>>
      <4>1. E1[1] = E[1]
        BY <1>3, <1>4, <1>5, <3>2
      <4> QED
        BY <1>11, <1>14, <2>1, <3>2, <4>1
    <3> QED
      BY <3>1, <3>2
  <2> QED
    BY <1>5, <1>11, <2>2, <2>3, <2>4
<1>21. N + 1 = (M + 1) * MaxDataBlk + 1 /\ 1 \in 0 .. MaxDataBlk /\ 1 > 0
  BY <1>3
<1>22. Added(D, h, S, E, X, s, E1, hd, x, 1, k)
  BY <1>5, <1>7, <1>10, <1>11, <1>12, <1>17, <1>18, <1>19, <1>20, <1>21 DEF Added, N, T
<1> QED
  BY <1>10, <1>22 DEF E1

----------------------------------------------------------------------------
(* A new block is to be had, and the turn ends well.                        *)

LEMMA BlocksInCard ==
  ASSUME NEW Q \in Seq(Blocks), Injective(Q)
  PROVE  IsFiniteSet(BlocksIn(Q)) /\ Cardinality(BlocksIn(Q)) = Len(Q) /\ BlocksIn(Q) \subseteq Blocks
<1>1. Len(Q) \in Nat /\ Q \in [1 .. Len(Q) -> Blocks] /\ DOMAIN Q = 1 .. Len(Q)
  BY LenProperties
<1>2. BlocksIn(Q) \subseteq Blocks
  BY <1>1 DEF BlocksIn
<1>3. Q \in Bijection(1 .. Len(Q), BlocksIn(Q))
  <2>1. Q \in [1 .. Len(Q) -> BlocksIn(Q)]
    BY <1>1 DEF BlocksIn
  <2>2. IsInjective(Q)
    BY DEF Injective, IsInjective
  <2>3. \A b \in BlocksIn(Q) : \E i \in 1 .. Len(Q) : Q[i] = b
    BY <1>1 DEF BlocksIn
  <2> QED
    BY <2>1, <2>2, <2>3 DEF Bijection, Injection, Surjection
<1>4. ExistsBijection(1 .. Len(Q), BlocksIn(Q))
  BY <1>3 DEF ExistsBijection
<1> QED
  BY <1>1, <1>2, <1>4, FS_NatBijection, FS_CountingElements

LEMMA CountsMono ==
  ASSUME NEW n \in Nat, NEW N \in Nat, NEW M \in Nat, Counts(n, N, M),
         NEW n2 \in Nat, NEW N2 \in Nat, NEW M2 \in Nat, Counts(n2, N2, M2), n <= n2
  PROVE  N <= N2 /\ M <= M2
<1> USE FileAssumption
<1>1. N * BlockSize \in Nat /\ N2 * BlockSize \in Nat
  BY MulNat
<1>2. N <= N2
  <2>1. N * BlockSize < N2 * BlockSize + BlockSize
    BY <1>1 DEF Counts
  <2> QED
    BY <2>1, MulLess
<1>3. CASE N = 0
  BY <1>2, <1>3 DEF Counts
<1>4. CASE N # 0
  <2>1. M * MaxDataBlk < N /\ N2 <= (M2 + 1) * MaxDataBlk
    BY <1>2, <1>4 DEF Counts
  <2>2. /\ M * MaxDataBlk \in Nat /\ M2 * MaxDataBlk \in Nat
        /\ (M2 + 1) * MaxDataBlk = M2 * MaxDataBlk + MaxDataBlk
    BY MulNat, MulSucc
  <2>3. M * MaxDataBlk < M2 * MaxDataBlk + MaxDataBlk
    BY <1>2, <2>1, <2>2
  <2> QED
    BY <1>2, <2>3, MulLess
<1> QED
  BY <1>3, <1>4

LEMMA WriteNewKeeps ==
  ASSUME TypesOK, NEW D, NEW h, NEW S, NEW E, FileIs(D, h, S, E), ~astray, UNCHANGED astray,
         NEW k \in 1 .. BlockSize, NEW v \in Values \cup {0}, WriteNew(k, v), HasItsExt(file)
  PROVE  /\ TypesOK' /\ file.mode = "write" /\ file'.mode = "write" /\ file'.pos = file.pos + k
         /\ \E D2, h2, S2, E2 : FileIs(D2, h2, S2, E2)' /\ Wrote(D, h, S, D2, h2, S2, file.pos, k, v)
<1> USE FileAssumption
<1>1. /\ D \in Disks /\ h \in Headers /\ Left = [D |-> D, h |-> h] /\ Chain(dosType, D, h, S, E)
      /\ file.mode = "write" /\ file \in Handles /\ hdr \in Headers /\ disk \in Disks
      /\ file.pos + k <= MaxSize[dosType] /\ AtEdge /\ AtEOF
      /\ Blocks \ free = BlocksIn(S) \cup BlocksIn(E) /\ dosType \in DOMAIN MaxSize
      /\ free \subseteq Blocks
  BY DEF FileIs, WriteNew, Writes, TypesOK
<1>2. Agrees(dosType, D, h, S, E, file) /\ FlushedOn(disk, file) = D
  BY <1>1, LeftIs DEF FileIs, Sees
<1>3. AtFullEnd(D, h, S, E, k)
  BY <1>1, <1>2 DEF AtFullEnd
<1>4. Cardinality(free) \in Nat /\ Cardinality(free) >= IF NeedsExt(file) THEN 2 ELSE 1
  <2>1. IsFiniteSet(free)
    BY <1>1, FS_Subset
  <2> QED
    BY <2>1, FS_CardinalityType DEF WriteNew
<1>5. IsFiniteSet(free) /\ Cardinality({}) = 0
  BY <1>1, FS_Subset, FS_EmptySet
<1>6. dosType' = dosType /\ hdr' = hdr
  BY DEF WriteNew, Writes
<1>7. \E s, E1, X, hd, x, i :
         /\ Added(D, h, S, E, X, s, E1, hd, x, i, k)
         /\ disk' = X /\ free' \subseteq Blocks
         /\ Blocks \ free' = BlocksIn(S) \cup {s} \cup BlocksIn(E1)
         /\ file' = Overwrite(JoinedTo(file, hd, x, i, s), k, v)
  <2>1. CASE ~NeedsExt(file)
    <3>1. PICK s : s = Lowest(free)
      OBVIOUS
    <3>2. s \in free
      <4>1. free # {}
        BY <1>4, <1>5, <2>1
      <4> QED
        BY <1>1, <3>1, <4>1, LowestIn
    <3>3. s \in Blocks /\ s \notin BlocksIn(S) /\ s \notin BlocksIn(E)
      BY <1>1, <3>2
    <3>4. PICK X : X = SavedPrevious(disk, file, s)
      OBVIOUS
    <3>5. disk' = X /\ file' = Overwrite(Joins(file, s), k, v) /\ free' = free \ {s}
      BY <2>1, <3>1, <3>4 DEF WriteNew, Joins
    <3>6. \E hd, x, i : /\ Added(D, h, S, E, X, s, E, hd, x, i, k)
                        /\ Overwrite(Joins(file, s), k, v) = Overwrite(JoinedTo(file, hd, x, i, s), k, v)
      <4>1. CASE file.nDataBlock < MaxDataBlk
        BY <1>3, <2>1, <3>3, <3>4, <4>1, AddsToHeader
      <4>2. CASE file.nDataBlock >= MaxDataBlk
        BY <1>3, <2>1, <3>3, <3>4, <4>2, AddsToExt
      <4>3. file.nDataBlock \in Nat
        BY <1>1 DEF Handles
      <4> QED
        BY <4>1, <4>2, <4>3
    <3>7. free' \subseteq Blocks /\ Blocks \ free' = BlocksIn(S) \cup {s} \cup BlocksIn(E)
      BY <1>1, <3>3, <3>5
    <3> QED
      BY <3>5, <3>6, <3>7
  <2>2. CASE NeedsExt(file)
    <3>1. PICK e : e = Lowest(free)
      OBVIOUS
    <3>2. e \in free
      <4>1. free # {}
        BY <1>4, <1>5, <2>2
      <4> QED
        BY <1>1, <3>1, <4>1, LowestIn
    <3>3. PICK s : s = Lowest(free \ {e})
      OBVIOUS
    <3>4. s \in free \ {e}
      <4>1. free \ {e} # {}
        <5>1. Cardinality(free \ {e}) = Cardinality(free) - 1
          BY <1>5, <3>2, FS_RemoveElement
        <5> QED
          BY <1>4, <1>5, <2>2, <5>1
      <4> QED
        BY <1>1, <3>3, <4>1, LowestIn
    <3>5. /\ s \in Blocks /\ s \notin BlocksIn(S) /\ s \notin BlocksIn(E)
          /\ e \in Blocks /\ e \notin BlocksIn(S) /\ e \notin BlocksIn(E) /\ e # s
      BY <1>1, <3>2, <3>4
    <3>6. PICK X : X = SavedPrevious(LinkedExt(disk, file, e), file, s)
      OBVIOUS
    <3>7. /\ disk' = X /\ file' = Overwrite(Joins(WithNewExt(file, e), s), k, v)
          /\ free' = (free \ {e}) \ {s}
      BY <2>2, <3>1, <3>3, <3>6 DEF WriteNew, Joins
    <3>8. \E hd, x, i : /\ Added(D, h, S, E, X, s, Append(E, e), hd, x, i, k)
                        /\ Overwrite(Joins(WithNewExt(file, e), s), k, v)
                             = Overwrite(JoinedTo(file, hd, x, i, s), k, v)
      BY <1>3, <2>2, <3>5, <3>6, AddsWithExt
    <3>9. PICK E1 : E1 = Append(E, e)
      OBVIOUS
    <3>10. BlocksIn(E1) = BlocksIn(E) \cup {e}
      <4>1. E \in Seq(Blocks)
        BY <1>1, ChainFacts
      <4> QED
        BY <3>5, <3>9, <4>1, AppendFacts
    <3>11. free' \subseteq Blocks /\ Blocks \ free' = BlocksIn(S) \cup {s} \cup BlocksIn(E1)
      BY <1>1, <3>5, <3>7, <3>10
    <3> QED
      BY <3>7, <3>8, <3>9, <3>11
  <2> QED
    BY <2>1, <2>2
<1>8. PICK s, E1, X, hd, x, i :
         /\ Added(D, h, S, E, X, s, E1, hd, x, i, k)
         /\ disk' = X /\ free' \subseteq Blocks
         /\ Blocks \ free' = BlocksIn(S) \cup {s} \cup BlocksIn(E1)
         /\ file' = Overwrite(JoinedTo(file, hd, x, i, s), k, v)
  BY <1>7
<1>9. /\ TypesOK' /\ file'.mode = "write" /\ file'.pos = file.pos + k
      /\ \E D2, h2 : /\ FileIs(D2, h2, Append(S, s), E1)'
                     /\ Wrote(D, h, S, D2, h2, Append(S, s), file.pos, k, v)
  <2>1. hdr' \in Headers /\ ~astray'
    BY <1>1, <1>6
  <2> QED
    BY <1>6, <1>8, <2>1, AddedEnds
<1>10. PICK T : T = Append(S, s)
  OBVIOUS
<1>11. PICK D2, h2 : FileIs(D2, h2, T, E1)' /\ Wrote(D, h, S, D2, h2, T, file.pos, k, v)
  BY <1>9, <1>10
<1> QED
  BY <1>1, <1>9, <1>11

\* The turn that finds the volume full, when there is no extension block to be had
\* either, takes the mark of the block in memory off and changes nothing else.
LEMMA FullKeeps ==
  ASSUME TypesOK, NEW D, NEW h, NEW S, NEW E, FileIs(D, h, S, E), ~astray, UNCHANGED astray,
         NEW k \in 1 .. BlockSize, WriteFull(k), free = {}
  PROVE  TypesOK' /\ FileIs(D, h, S, E)' /\ file'.pos = file.pos /\ file.mode = "write"
         /\ file'.mode = "write"
<1>1. /\ Left = [D |-> D, h |-> h] /\ file.mode = "write" /\ file \in Handles
      /\ Agrees(dosType, D, h, S, E, file)
  BY DEF FileIs, Sees, WriteFull, Writes, TypesOK
<1>2. PICK g : g = file'
  OBVIOUS
<1>3. /\ dosType' = dosType /\ hdr' = hdr /\ disk' = disk /\ free' = free
      /\ g = [file EXCEPT !.currentDataBlockChanged = FALSE]
  BY <1>2 DEF WriteFull, Writes
<1>4. /\ g \in Handles /\ g.mode = file.mode /\ g.fileHdr = file.fileHdr /\ g.pos = file.pos
      /\ g.nDataBlock = file.nDataBlock /\ g.curDataPtr = file.curDataPtr
      /\ g.currentData = file.currentData /\ g.currentExt = file.currentExt
      /\ g.posInExtBlk = file.posInExtBlk /\ g.posInDataBlk = file.posInDataBlk
  BY <1>1, <1>3 DEF Handles
<1>5. Agrees(dosType, D, h, S, E, g)
  BY <1>1, <1>4 DEF Agrees, Holds, ExtKnown, ExtAt
<1>6. Left' = [D |-> D, h |-> h]
  <2>1. FlushedOn(disk, g) = FlushedOn(disk, file)
    BY <1>4, FlushesAlike
  <2>2. Left' = [D |-> FlushedOn(disk, g), h |-> g.fileHdr]
    BY <1>1, <1>2, <1>3, <1>4 DEF Left, FlushedDisk, FlushedOn
  <2> QED
    BY <1>1, <1>4, <2>1, <2>2, LeftIs
<1>7. TypesOK'
  BY <1>2, <1>3, <1>4 DEF TypesOK
<1>8. FileIs(D, h, S, E)'
  BY <1>1, <1>2, <1>3, <1>4, <1>5, <1>6 DEF FileIs, Sees
<1> QED
  BY <1>1, <1>2, <1>4, <1>7, <1>8

----------------------------------------------------------------------------
(* Cutting the file.                                                        *)

Cut(S, n) == [i \in 1 .. n |-> S[i]]

LEMMA CutFacts ==
  ASSUME NEW S \in Seq(Blocks), Injective(S), NEW n \in 0 .. Len(S)
  PROVE  /\ Cut(S, n) \in Seq(Blocks) /\ Len(Cut(S, n)) = n /\ DOMAIN Cut(S, n) = 1 .. n
         /\ n \in Nat /\ Len(S) \in Nat /\ DOMAIN S = 1 .. Len(S)
         /\ \A i \in 1 .. n : i \in DOMAIN S /\ Cut(S, n)[i] = S[i]
         /\ Injective(Cut(S, n)) /\ (Cut(S, n) = <<>> <=> n = 0)
         /\ BlocksIn(Cut(S, n)) = BlocksIn(S) \ {S[i] : i \in n + 1 .. Len(S)}
<1> DEFINE T == Cut(S, n)
<1>1. n \in Nat /\ Len(S) \in Nat /\ DOMAIN S = 1 .. Len(S) /\ \A i \in DOMAIN S : S[i] \in Blocks
  BY LenProperties, ElementOfSeq
<1>2. 1 .. n \subseteq DOMAIN S
  BY <1>1
<1>3. T \in [1 .. n -> Blocks] /\ \A i \in 1 .. n : T[i] = S[i]
  BY <1>1, <1>2 DEF Cut
<1>4. T \in Seq(Blocks) /\ Len(T) = n /\ DOMAIN T = 1 .. n
  BY <1>1, <1>3
<1> HIDE DEF T
<1>5. Injective(T)
  BY <1>2, <1>3, <1>4 DEF Injective
<1>6. T = <<>> <=> n = 0
  BY <1>4, EmptySeq
<1>7. BlocksIn(T) = BlocksIn(S) \ {S[i] : i \in n + 1 .. Len(S)}
  <2> DEFINE Q == {S[i] : i \in n + 1 .. Len(S)}
  <2>1. ASSUME NEW b \in BlocksIn(T) PROVE b \in BlocksIn(S) /\ b \notin Q
    <3>1. PICK i \in 1 .. n : b = S[i]
      BY <1>3, <1>4 DEF BlocksIn
    <3>2. i \in DOMAIN S
      BY <1>2
    <3>3. ASSUME NEW j \in n + 1 .. Len(S), b = S[j] PROVE FALSE
      <4>1. j \in DOMAIN S /\ i # j
        BY <1>1
      <4> QED
        BY <3>1, <3>2, <3>3, <4>1 DEF Injective
    <3> QED
      BY <3>1, <3>2, <3>3 DEF BlocksIn
  <2>2. ASSUME NEW b \in BlocksIn(S), b \notin Q PROVE b \in BlocksIn(T)
    <3>1. PICK i \in DOMAIN S : b = S[i]
      BY DEF BlocksIn
    <3>2. i \notin n + 1 .. Len(S)
      BY <2>2, <3>1
    <3>3. i \in 1 .. n
      BY <1>1, <3>2
    <3> QED
      BY <1>3, <1>4, <3>1, <3>3 DEF BlocksIn
  <2> QED
    BY <2>1, <2>2
<1> QED
  BY <1>1, <1>2, <1>3, <1>4, <1>5, <1>6, <1>7 DEF T

\* The blocks behind the first n, taken from a list that begins with S.
LEMMA BehindIs ==
  ASSUME NEW S \in Seq(Blocks), NEW x \in Seq(Sectors), BeginsWith(x, S, 0), NEW n \in 0 .. Len(S)
  PROVE  Behind(n, Len(S), x) = {S[i] : i \in n + 1 .. Len(S)}
<1>1. /\ Len(S) \in Nat /\ Len(x) \in Nat /\ DOMAIN x = 1 .. Len(x) /\ n \in Nat
  BY LenProperties
<1>2. Len(x) >= Len(S) /\ \A i \in 1 .. Len(S) : x[i] = S[i]
  BY <1>1 DEF BeginsWith
<1>3. {j \in DOMAIN x : n < j /\ j <= Len(S)} = n + 1 .. Len(S)
  BY <1>1, <1>2
<1>4. \A i \in n + 1 .. Len(S) : x[i] = S[i]
  BY <1>1, <1>2
<1> QED
  BY <1>3, <1>4 DEF Behind

LEMMA PartCut ==
  ASSUME NEW S \in Seq(Blocks), Injective(S), NEW n \in 0 .. Len(S), NEW j \in Nat,
         (j + 1) * MaxDataBlk <= n
  PROVE  Part(Cut(S, n), j) = Part(S, j)
<1> USE FileAssumption
<1> DEFINE T == Cut(S, n)
           a == j * MaxDataBlk
           z == (j + 1) * MaxDataBlk
<1>1. Len(T) = n /\ Len(S) \in Nat /\ n <= Len(S) /\ \A i \in 1 .. n : T[i] = S[i]
  BY CutFacts
<1>2. a \in Nat /\ z \in Nat /\ z <= Len(S) /\ z <= n
  <2>1. a \in Nat /\ z \in Nat
    BY MulNat
  <2> QED
    BY <1>1, <2>1
<1>3. PartEnd(Len(T), j) = z /\ PartEnd(Len(S), j) = z
  BY <1>1, <1>2 DEF PartEnd
<1> HIDE DEF T, a, z
<1>4. Part(T, j) = [i \in 1 .. z - a |-> T[a + i]] /\ Part(S, j) = [i \in 1 .. z - a |-> S[a + i]]
  BY <1>3 DEF Part, a
<1>5. \A i \in 1 .. z - a : T[a + i] = S[a + i]
  <2> SUFFICES ASSUME NEW i \in 1 .. z - a PROVE T[a + i] = S[a + i]
    OBVIOUS
  <2>1. a + i \in 1 .. n
    BY <1>1, <1>2
  <2> QED
    BY <1>1, <2>1
<1> QED
  BY <1>4, <1>5 DEF T

\* The list that the cut ends in.
LEMMA ClearedPart ==
  ASSUME NEW S \in Seq(Blocks), Injective(S), NEW n \in 0 .. Len(S), NEW j \in Nat,
         j * MaxDataBlk < n, n <= (j + 1) * MaxDataBlk
  PROVE  Cleared(Part(S, j), n) = Part(Cut(S, n), j) /\ Part(Cut(S, n), j) \in Lists
<1> USE FileAssumption
<1> DEFINE T == Cut(S, n)
           a == j * MaxDataBlk
           z == (j + 1) * MaxDataBlk
           N == Len(S)
           P == Part(S, j)
           e == PartEnd(N, j)
<1>1. /\ T \in Seq(Blocks) /\ Len(T) = n /\ N \in Nat /\ n \in Nat /\ n <= N
      /\ \A i \in 1 .. n : T[i] = S[i] /\ T[i] \in Blocks
  <2>1. /\ T \in Seq(Blocks) /\ Len(T) = n /\ N \in Nat /\ DOMAIN T = 1 .. n
        /\ \A i \in 1 .. n : T[i] = S[i]
    BY CutFacts
  <2>2. \A i \in DOMAIN T : T[i] \in Blocks
    BY <2>1, ElementOfSeq
  <2> QED
    BY <2>1, <2>2
<1>2. a \in Nat /\ z \in Nat /\ z = a + MaxDataBlk
  BY MulNat, MulSucc
<1>3. a < n /\ n <= z
  OBVIOUS
<1>4. e = (IF z <= N THEN z ELSE N) /\ PartEnd(Len(T), j) = (IF z <= n THEN z ELSE n)
  BY <1>1 DEF PartEnd
<1>5. P = [i \in 1 .. e - a |-> S[a + i]]
  BY DEF Part
<1>6. Part(T, j) = [i \in 1 .. PartEnd(Len(T), j) - a |-> T[a + i]]
  BY DEF Part
<1> HIDE DEF a, z, e, P, T, N
<1>7. PartEnd(Len(T), j) = n
  BY <1>2, <1>3, <1>4, <1>1
<1>8. Part(T, j) = [i \in 1 .. n - a |-> S[a + i]]
  <2>1. \A i \in 1 .. n - a : a + i \in 1 .. n
    BY <1>1, <1>2
  <2> QED
    BY <1>1, <1>6, <1>7, <2>1
<1>9. Part(T, j) \in Lists
  <2>1. \A i \in 1 .. n - a : a + i \in 1 .. n
    BY <1>1, <1>2
  <2>2. n - a \in Nat /\ n - a <= MaxDataBlk
    BY <1>1, <1>2, <1>3
  <2>3. \A i \in 1 .. n - a : S[a + i] \in Sectors
    BY <1>1, <2>1 DEF Sectors
  <2>4. Part(T, j) \in [1 .. n - a -> Sectors]
    BY <1>8, <2>3
  <2>5. Part(T, j) \in Seq(Sectors) /\ Len(Part(T, j)) = n - a
    BY <2>2, <2>4
  <2> QED
    BY <2>2, <2>5 DEF Lists
<1>10. e \in Nat /\ n <= e /\ e <= z
  BY <1>1, <1>2, <1>3, <1>4
<1>11. DOMAIN P = 1 .. e - a /\ P \in Seq(Blocks) /\ Len(P) = e - a
  <2>1. \A i \in 1 .. e - a : a + i \in 1 .. N
    BY <1>1, <1>2, <1>4, <1>10
  <2>2. \A i \in 1 .. N : S[i] \in Blocks
    BY LenProperties, ElementOfSeq DEF N
  <2>3. P \in [1 .. e - a -> Blocks]
    BY <1>5, <2>1, <2>2
  <2>4. e - a \in Nat
    BY <1>1, <1>2, <1>3, <1>10
  <2> QED
    BY <2>3, <2>4
<1>12. CASE n = z
  <2>1. z = (j + 1) * MaxDataBlk + 0
    BY <1>2 DEF z
  <2>2. n % MaxDataBlk = 0
    <3>1. 0 \in 0 .. MaxDataBlk - 1 /\ j + 1 \in Nat
      OBVIOUS
    <3>2. ((j + 1) * MaxDataBlk + 0) % MaxDataBlk = 0
      BY <3>1, DivUnique
    <3> QED
      BY <1>12, <2>1, <3>2
  <2>3. e = n
    BY <1>2, <1>10, <1>12
  <2> QED
    BY <1>5, <1>8, <1>9, <2>2, <2>3 DEF Cleared, P, T
<1>13. CASE n < z
  <2> DEFINE r == n - a
  <2>1. r \in 1 .. MaxDataBlk - 1 /\ n = j * MaxDataBlk + r
    BY <1>1, <1>2, <1>3, <1>13 DEF a
  <2> HIDE DEF r
  <2>2. n % MaxDataBlk = r
    <3>1. r \in 0 .. MaxDataBlk - 1
      BY <2>1
    <3>2. (j * MaxDataBlk + r) % MaxDataBlk = r
      BY <3>1, DivUnique
    <3> QED
      BY <2>1, <3>2
  <2>3. CASE r < Len(P)
    <3>1. SubSeq(P, 1, r) = [i \in 1 .. r |-> P[i]]
      BY <1>11, <2>1, <2>3, SubSeqProperties
    <3>2. \A i \in 1 .. r : P[i] = S[a + i]
      <4>1. \A i \in 1 .. r : i \in 1 .. e - a
        BY <1>1, <1>2, <1>10, <1>11, <2>1, <2>3
      <4> QED
        BY <1>5, <4>1
    <3>3. Cleared(P, n) = [i \in 1 .. r |-> S[a + i]]
      BY <2>1, <2>2, <2>3, <3>1, <3>2 DEF Cleared
    <3> QED
      BY <1>8, <1>9, <3>3 DEF r, P, T
  <2>4. CASE ~(r < Len(P))
    <3>1. e - a = r
      BY <1>1, <1>2, <1>10, <1>11, <2>4 DEF r
    <3>2. Cleared(P, n) = P
      BY <2>2, <2>4 DEF Cleared
    <3> QED
      BY <1>5, <1>8, <1>9, <3>1, <3>2 DEF r, P, T
  <2> QED
    BY <2>3, <2>4
<1> QED
  BY <1>1, <1>2, <1>3, <1>12, <1>13

\* The handle f, sought the new end p, agrees with the blocks D that its flush to
\* the disk X would leave.
Cutting(X, D, h, S, E, f, p) ==
    /\ X \in Disks /\ D \in Disks /\ h \in Headers /\ Chain(dosType, D, h, S, E)
    /\ dosType \in DOMAIN MaxSize /\ h.byteSize <= MaxSize[dosType]
    /\ f \in Handles /\ Agrees(dosType, D, h, S, E, f) /\ FlushedOn(X, f) = D
    /\ f.mode = "write" /\ f.pos = p /\ p \in Nat /\ p > 0 /\ p < h.byteSize
    /\ NbExtens(p) > 0 => HasItsExt(f)

LEMMA CutNumbers ==
  ASSUME NEW X, NEW D, NEW h, NEW S, NEW E, NEW f, NEW p, Cutting(X, D, h, S, E, f, p)
  PROVE  LET n == NbData(p)
             m == NbExtens(p)
         IN
         /\ S \in Seq(Blocks) /\ E \in Seq(Blocks) /\ Injective(S) /\ Injective(E)
         /\ Len(S) \in Nat /\ Len(E) \in Nat /\ DOMAIN S = 1 .. Len(S) /\ DOMAIN E = 1 .. Len(E)
         /\ n \in 1 .. Len(S) /\ m \in 0 .. Len(E) /\ Counts(p, n, m) /\ S # <<>>
         /\ f.nDataBlock \in {n, n + 1} /\ f.nDataBlock \in DOMAIN S
<1> USE FileAssumption
<1> DEFINE n == NbData(p)
           m == NbExtens(p)
           c == f.nDataBlock
           o == f.posInDataBlk
<1>1. /\ D \in Disks /\ h \in Headers /\ Chain(dosType, D, h, S, E)
      /\ f \in Handles /\ Agrees(dosType, D, h, S, E, f)
      /\ f.pos = p /\ p \in Nat /\ p > 0 /\ p < h.byteSize
  BY DEF Cutting
<1>2. /\ S \in Seq(Blocks) /\ E \in Seq(Blocks) /\ Injective(S) /\ Injective(E)
      /\ Counts(h.byteSize, Len(S), Len(E)) /\ h.byteSize \in Nat
      /\ Len(S) \in Nat /\ Len(E) \in Nat /\ DOMAIN S = 1 .. Len(S) /\ DOMAIN E = 1 .. Len(E)
      /\ (S = <<>> <=> Len(S) = 0)
  <2>1. /\ Len(S) \in Nat /\ Len(E) \in Nat /\ DOMAIN S = 1 .. Len(S) /\ DOMAIN E = 1 .. Len(E)
        /\ (S = <<>> <=> Len(S) = 0)
    BY <1>1, ChainFacts
  <2> QED
    BY <1>1, <2>1 DEF Chain, Listed, Headers
<1>3. n \in Nat /\ m \in Nat /\ Counts(p, n, m)
  BY <1>1, CountsLaw
<1>4. n <= Len(S) /\ m <= Len(E)
  BY <1>1, <1>2, <1>3, CountsMono
<1> HIDE DEF n, m
<1>5. n * BlockSize \in Nat /\ p <= n * BlockSize /\ n * BlockSize < p + BlockSize
  BY <1>3, MulNat DEF Counts
<1>6. n >= 1
  <2>1. 0 * BlockSize = 0
    OBVIOUS
  <2> QED
    BY <1>1, <1>3, <1>5, <2>1
<1>7. S # <<>>
  BY <1>2, <1>3, <1>4, <1>6
<1>8. c \in DOMAIN S /\ p = (c - 1) * BlockSize + o /\ o \in 0 .. BlockSize
  BY <1>1, <1>7 DEF Agrees, Holds, Handles
<1> HIDE DEF c, o
<1>9. c \in Nat /\ c - 1 \in Nat
  BY <1>2, <1>8
<1>10. c \in {n, n + 1}
  <2>1. (c - 1) * BlockSize = c * BlockSize - BlockSize /\ c * BlockSize \in Nat
    BY <1>9, MulSucc, MulNat
  <2> DEFINE a == c - 1
  <2>2. a * BlockSize \in Nat /\ a \in Nat
    BY <1>9, MulNat
  <2>3. a * BlockSize < n * BlockSize + BlockSize
    BY <1>5, <1>8, <2>2
  <2>4. n * BlockSize < c * BlockSize + BlockSize
    BY <1>1, <1>5, <1>8, <2>1
  <2> HIDE DEF a
  <2>5. a <= n
    BY <1>3, <2>2, <2>3, MulLess
  <2>6. n <= c
    BY <1>3, <1>9, <2>4, MulLess
  <2> QED
    BY <1>3, <1>9, <2>5, <2>6 DEF a
<1> QED
  BY <1>2, <1>3, <1>4, <1>6, <1>7, <1>8, <1>10 DEF c, n, m

\* Which extension block is in memory when the cut is behind the header's list.
LEMMA CutExt ==
  ASSUME NEW X, NEW D, NEW h, NEW S, NEW E, NEW f, NEW p, Cutting(X, D, h, S, E, f, p),
         NEW n, n = NbData(p), NEW m, m = NbExtens(p), n > MaxDataBlk
  PROVE  /\ m \in DOMAIN E /\ m > 0 /\ m * MaxDataBlk < n /\ n <= (m + 1) * MaxDataBlk
         /\ \E e \in DOMAIN E :
               /\ f.currentExt = D[E[e]]
               /\ e = m \/ (e = m + 1 /\ f.nDataBlock = n + 1 /\ n = (m + 1) * MaxDataBlk)
         /\ f.nDataBlock = n => n = m * MaxDataBlk + f.posInExtBlk /\ f.posInExtBlk > 0
<1> USE FileAssumption
<1> DEFINE c == f.nDataBlock
           N == Len(S)
           M == Len(E)
<1>1. /\ D \in Disks /\ h \in Headers /\ Chain(dosType, D, h, S, E)
      /\ dosType \in DOMAIN MaxSize /\ h.byteSize <= MaxSize[dosType] /\ h.byteSize \in Nat
      /\ f \in Handles /\ Agrees(dosType, D, h, S, E, f)
      /\ Counts(h.byteSize, N, M)
  BY DEF Cutting, Chain, Listed, Headers
<1>2. /\ N \in Nat /\ M \in Nat /\ DOMAIN S = 1 .. N /\ DOMAIN E = 1 .. M
      /\ n \in 1 .. N /\ m \in 0 .. M /\ Counts(p, n, m) /\ S # <<>>
      /\ c \in {n, n + 1} /\ c \in DOMAIN S
  BY CutNumbers
<1>3. n \in Nat /\ n # 0 /\ m \in Nat /\ m * MaxDataBlk < n /\ n <= (m + 1) * MaxDataBlk
  BY <1>2 DEF Counts
<1>4. m > 0
  <2>1. (0 + 1) * MaxDataBlk = MaxDataBlk
    OBVIOUS
  <2> QED
    BY <1>3, <2>1
<1>5. m \in DOMAIN E
  BY <1>2, <1>4
<1>7. HasItsExt(f) /\ f.posInExtBlk \in 0 .. MaxDataBlk
  BY <1>4 DEF Cutting, Handles
<1>9. c > MaxDataBlk
  BY <1>2, <1>3
<1>10. PICK e \in DOMAIN E : /\ c = e * MaxDataBlk + f.posInExtBlk
                             /\ f.posInExtBlk > 0
                             /\ f.currentExt = D[E[e]]
  <2>1. /\ D \in Disks /\ h \in Headers /\ Chain(dosType, D, h, S, E) /\ f \in Handles
        /\ Agrees(dosType, D, h, S, E, f) /\ HasItsExt(f) /\ S # <<>>
    BY <1>1, <1>2, <1>7
  <2>2. f.nDataBlock > MaxDataBlk
    BY <1>9
  <2> HIDE DEF c
  <2>3. \E e \in DOMAIN E : /\ f.nDataBlock = e * MaxDataBlk + f.posInExtBlk
                            /\ f.posInExtBlk > 0 /\ f.currentExt = D[E[e]]
    BY <2>1, <2>2, ItsExtAt
  <2> QED
    BY <2>3 DEF c
<1> DEFINE i == f.posInExtBlk
<1>11. i \in 1 .. MaxDataBlk /\ e \in Nat /\ c \in Nat
  BY <1>2, <1>7, <1>10
<1>12. /\ e * MaxDataBlk \in Nat /\ (e + 1) * MaxDataBlk = e * MaxDataBlk + MaxDataBlk
      /\ m * MaxDataBlk \in Nat /\ (m + 1) * MaxDataBlk = m * MaxDataBlk + MaxDataBlk
  BY <1>3, <1>11, MulNat, MulSucc
<1>13. c = e * MaxDataBlk + i
  BY <1>10
<1> HIDE DEF i, c
<1>14. CASE c = n
  <2>1. e * MaxDataBlk < m * MaxDataBlk + MaxDataBlk /\ m * MaxDataBlk < e * MaxDataBlk + MaxDataBlk
    BY <1>3, <1>11, <1>12, <1>13, <1>14
  <2>2. e <= m /\ m <= e
    BY <1>3, <1>11, <2>1, MulLess
  <2>3. e = m
    BY <1>3, <1>11, <2>2
  <2>4. n = m * MaxDataBlk + f.posInExtBlk /\ f.posInExtBlk > 0
    BY <1>10, <1>13, <1>14, <2>3 DEF i
  <2> QED
    BY <1>3, <1>4, <1>5, <1>10, <2>3, <2>4
<1>15. CASE c = n + 1
  <2>1. n = e * MaxDataBlk + (i - 1)
    BY <1>3, <1>11, <1>12, <1>13, <1>15
  <2>2. m * MaxDataBlk < e * MaxDataBlk + MaxDataBlk
    BY <1>3, <1>11, <1>12, <2>1
  <2>3. m <= e
    BY <1>3, <1>11, <2>2, MulLess
  <2>4. e * MaxDataBlk <= (m + 1) * MaxDataBlk
    BY <1>3, <1>11, <1>12, <2>1
  <2>5. e <= m + 1
    <3>1. e * MaxDataBlk < (m + 1) * MaxDataBlk + MaxDataBlk
      BY <1>3, <1>12, <2>4
    <3>2. m + 1 \in Nat
      BY <1>3
    <3> QED
      BY <1>11, <3>1, <3>2, MulLess
  <2>6. CASE e = m + 1
    <3>1. e * MaxDataBlk = (m + 1) * MaxDataBlk
      BY <2>6
    <3>2. n = (m + 1) * MaxDataBlk
      BY <1>3, <1>11, <1>12, <2>1, <3>1
    <3> QED
      BY <1>3, <1>4, <1>5, <1>9, <1>10, <1>15, <2>6, <3>2 DEF c
  <2>7. CASE e = m
    <3>1. c # n
      BY <1>3, <1>15
    <3> QED
      BY <1>3, <1>4, <1>5, <1>10, <2>7, <3>1 DEF c
  <2> QED
    BY <1>3, <1>11, <2>3, <2>5, <2>6, <2>7
<1> QED
  BY <1>2, <1>14, <1>15 DEF c

\* What Shortened makes of the header and of the extension block in memory.
CutHeader(h, n, p) ==
    IF n <= MaxDataBlk
      THEN [h EXCEPT !.byteSize = p, !.dataBlocks = Cleared(h.dataBlocks, n), !.extension = 0]
      ELSE [h EXCEPT !.byteSize = p]
CutLastExt(x, n) ==
    IF n <= MaxDataBlk THEN x
    ELSE [x EXCEPT !.dataBlocks = Cleared(x.dataBlocks, n), !.extension = 0]
CutData(b) == [b EXCEPT !.nextData = 0]

LEMMA ShortenedIs ==
  ASSUME NEW f \in Handles, NEW p, p > 0, p \in Nat, NEW n, n = NbData(p),
         CutHeader(f.fileHdr, n, p) \in Headers, CutLastExt(f.currentExt, n) \in ExtBlks
  PROVE  LET g == Shortened(f, p) IN
         /\ g \in Handles /\ g.mode = f.mode /\ g.fileHdr = CutHeader(f.fileHdr, n, p)
         /\ g.currentExt = CutLastExt(f.currentExt, n) /\ g.currentData = CutData(f.currentData)
         /\ g.nDataBlock = f.nDataBlock /\ g.curDataPtr = f.curDataPtr /\ g.pos = f.pos
         /\ g.posInDataBlk = f.posInDataBlk /\ g.posInExtBlk = f.posInExtBlk
         /\ g.currentDataBlockChanged = TRUE
<1> DEFINE y == [f EXCEPT !.fileHdr = [f.fileHdr EXCEPT !.byteSize = p]]
           hd == CutHeader(f.fileHdr, n, p)
           x == CutLastExt(f.currentExt, n)
           b == CutData(f.currentData)
           z == [f EXCEPT !.fileHdr = hd, !.currentExt = x, !.currentData = b,
                          !.currentDataBlockChanged = TRUE]
           u == [f EXCEPT !.fileHdr = hd, !.currentExt = x]
           g == Shortened(f, p)
<1>1. /\ f.fileHdr \in Headers /\ f.currentExt \in ExtBlks /\ f.currentData \in DataBlks
  BY DEF Handles
<1>2. b \in DataBlks
  BY <1>1, SectorFacts DEF DataBlks, CutData
<1>3. [f EXCEPT !.fileHdr.byteSize = p] = y
  BY DEF Handles
<1>4. CutOff(y, n) = u
  <2>1. /\ y.fileHdr = [f.fileHdr EXCEPT !.byteSize = p] /\ y.currentExt = f.currentExt
        /\ y.fileHdr.dataBlocks = f.fileHdr.dataBlocks
    BY <1>1 DEF Handles, Headers
  <2>2. CASE n <= MaxDataBlk
    <3> DEFINE w == [y.fileHdr EXCEPT !.dataBlocks = Cleared(y.fileHdr.dataBlocks, n), !.extension = 0]
    <3>1. CutOff(y, n) = [y EXCEPT !.fileHdr = w]
      <4>1. CutOff(y, n) = [y EXCEPT !.fileHdr.dataBlocks = Cleared(@, n), !.fileHdr.extension = 0]
        BY <2>2 DEF CutOff
      <4>2. PICK y1 : y1 = [y EXCEPT !.fileHdr.dataBlocks = Cleared(@, n)]
        OBVIOUS
      <4>3. y1 = [y EXCEPT !.fileHdr = [y.fileHdr EXCEPT !.dataBlocks = Cleared(y.fileHdr.dataBlocks, n)]]
        BY <4>2 DEF Handles
      <4>4. CutOff(y, n) = [y1 EXCEPT !.fileHdr.extension = 0]
        BY <4>1, <4>2
      <4> QED
        BY <4>3, <4>4 DEF Handles
    <3>2. w = hd
      <4> DEFINE l == Cleared(f.fileHdr.dataBlocks, n)
                 h0 == f.fileHdr
      <4>1. w = [[h0 EXCEPT !.byteSize = p] EXCEPT !.dataBlocks = l, !.extension = 0]
        BY <2>1
      <4>2. hd = [h0 EXCEPT !.byteSize = p, !.dataBlocks = l, !.extension = 0]
        BY <2>2 DEF CutHeader
      <4>3. h0 \in Headers
        BY <1>1
      <4> HIDE DEF l, h0, w, hd
      <4>4. [[h0 EXCEPT !.byteSize = p] EXCEPT !.dataBlocks = l, !.extension = 0]
            = [h0 EXCEPT !.byteSize = p, !.dataBlocks = l, !.extension = 0]
        BY <4>3 DEF Headers
      <4> QED
        BY <4>1, <4>2, <4>4
    <3>3. x = f.currentExt
      BY <2>2 DEF CutLastExt
    <3> HIDE DEF w, hd, x
    <3>4. [y EXCEPT !.fileHdr = w] = u
      BY <3>2, <3>3 DEF Handles
    <3> QED
      BY <3>1, <3>4
  <2>3. CASE ~(n <= MaxDataBlk)
    <3> DEFINE w == [y.currentExt EXCEPT !.dataBlocks = Cleared(y.currentExt.dataBlocks, n),
                                         !.extension = 0]
    <3>1. CutOff(y, n) = [y EXCEPT !.currentExt = w]
      BY <2>3 DEF CutOff, Handles
    <3>2. w = x
      BY <2>1, <2>3 DEF CutLastExt
    <3>3. hd = [f.fileHdr EXCEPT !.byteSize = p]
      BY <2>3 DEF CutHeader
    <3> HIDE DEF w, hd, x
    <3>4. [y EXCEPT !.currentExt = w] = u
      BY <3>2, <3>3 DEF Handles
    <3> QED
      BY <3>1, <3>4
  <2> QED
    BY <2>2, <2>3
<1>5. g = [u EXCEPT !.currentData.nextData = 0, !.currentDataBlockChanged = TRUE]
  <2>1. p # 0
    OBVIOUS
  <2>2. g = [CutOff([f EXCEPT !.fileHdr.byteSize = p], NbData(p)) EXCEPT
               !.currentData.nextData = 0, !.currentDataBlockChanged = TRUE]
    BY <2>1 DEF Shortened
  <2> HIDE DEF g, u, y
  <2> QED
    BY <1>3, <1>4, <2>2
<1>6. hd \in Headers /\ x \in ExtBlks
  OBVIOUS
<1> HIDE DEF hd, x
<1>7. g = z
  <2>1. u \in Handles /\ u.currentData = f.currentData
    BY <1>6 DEF Handles
  <2>2. [u EXCEPT !.currentData.nextData = 0, !.currentDataBlockChanged = TRUE]
        = [u EXCEPT !.currentData = b, !.currentDataBlockChanged = TRUE]
    BY <2>1 DEF CutData, Handles
  <2> HIDE DEF b, g
  <2> QED
    BY <1>5, <2>2
<1> HIDE DEF b, g
<1>8. /\ z \in Handles /\ z.mode = f.mode /\ z.fileHdr = hd /\ z.currentExt = x /\ z.currentData = b
      /\ z.nDataBlock = f.nDataBlock /\ z.curDataPtr = f.curDataPtr /\ z.pos = f.pos
      /\ z.posInDataBlk = f.posInDataBlk /\ z.posInExtBlk = f.posInExtBlk
      /\ z.currentDataBlockChanged = TRUE
  BY <1>2, <1>6 DEF Handles
<1> HIDE DEF z
<1> QED
  BY <1>7, <1>8 DEF hd, x, b, g

\* The header that is cut lists the first data blocks.
LEMMA CutHeaderIs ==
  ASSUME NEW D, NEW h \in Headers, NEW t, NEW S, NEW E, Chain(t, D, h, S, E),
         NEW p \in Nat, NEW n \in 1 .. Len(S), NEW m \in 0 .. Len(E), Counts(p, n, m),
         NEW hd, hd = CutHeader(h, n, p)
  PROVE  /\ hd \in Headers /\ hd.byteSize = p /\ hd.firstData = Cut(S, n)[1]
         /\ hd.dataBlocks = Part(Cut(S, n), 0)
         /\ hd.extension = IF Cut(E, m) = <<>> THEN 0 ELSE Cut(E, m)[1]
         /\ (n <= MaxDataBlk <=> m = 0)
<1> USE FileAssumption
<1>1. /\ S \in Seq(Blocks) /\ E \in Seq(Blocks) /\ Injective(S) /\ Injective(E)
      /\ h.dataBlocks = Part(S, 0) /\ (S # <<>> => h.firstData = S[1])
      /\ h.extension = (IF E = <<>> THEN 0 ELSE E[1])
  BY DEF Chain, Listed
<1>2. /\ n \in Nat /\ n # 0 /\ Cut(S, n)[1] = S[1]
  BY <1>1, CutFacts
<1>3. S # <<>>
  BY EmptySeq
<1>4. n <= MaxDataBlk <=> m = 0
  <2>1. 0 * MaxDataBlk = 0 /\ (0 + 1) * MaxDataBlk = MaxDataBlk /\ m \in Nat
    BY <1>1, CutFacts
  <2>2. m * MaxDataBlk < n /\ n <= (m + 1) * MaxDataBlk
    BY <1>2 DEF Counts
  <2>3. ASSUME m # 0 PROVE n > MaxDataBlk
    <3>1. 1 * MaxDataBlk <= m * MaxDataBlk /\ 1 * MaxDataBlk = MaxDataBlk
      BY <2>1, <2>3, MulMono
    <3>2. m * MaxDataBlk \in Nat
      BY <2>1, MulNat
    <3> QED
      BY <1>2, <2>2, <3>1, <3>2
  <2> QED
    BY <1>2, <2>1, <2>2, <2>3
<1>5. Cut(E, m) = <<>> <=> m = 0
  BY <1>1, CutFacts
<1>6. m # 0 => Cut(E, m)[1] = E[1] /\ E # <<>>
  <2>1. m # 0 => 1 \in 1 .. m
    BY <1>1, CutFacts
  <2>2. m # 0 => Len(E) # 0
    BY <1>1, CutFacts
  <2> QED
    BY <1>1, <2>1, <2>2, CutFacts, EmptySeq
<1>7. CASE n <= MaxDataBlk
  <2>1. 0 * MaxDataBlk = 0 /\ (0 + 1) * MaxDataBlk = MaxDataBlk
    OBVIOUS
  <2>2. Cleared(Part(S, 0), n) = Part(Cut(S, n), 0) /\ Part(Cut(S, n), 0) \in Lists
    BY <1>1, <1>2, <1>7, <2>1, ClearedPart
  <2>3. hd = [h EXCEPT !.byteSize = p, !.dataBlocks = Part(Cut(S, n), 0), !.extension = 0]
    BY <1>1, <1>7, <2>2 DEF CutHeader
  <2>4. /\ hd \in Headers /\ hd.byteSize = p /\ hd.firstData = h.firstData
        /\ hd.dataBlocks = Part(Cut(S, n), 0) /\ hd.extension = 0
    BY <2>2, <2>3, SectorFacts DEF Headers
  <2> QED
    BY <1>1, <1>2, <1>3, <1>4, <1>5, <1>7, <2>4
<1>8. CASE ~(n <= MaxDataBlk)
  <2>1. (0 + 1) * MaxDataBlk <= n
    BY <1>2, <1>8
  <2>2. Part(Cut(S, n), 0) = Part(S, 0)
    <3>1. n \in 0 .. Len(S)
      BY <1>2
    <3> QED
      BY <1>1, <2>1, <3>1, PartCut
  <2>3. hd = [h EXCEPT !.byteSize = p]
    BY <1>8 DEF CutHeader
  <2>4. /\ hd \in Headers /\ hd.byteSize = p /\ hd.firstData = h.firstData
        /\ hd.dataBlocks = h.dataBlocks /\ hd.extension = h.extension
    BY <2>3 DEF Headers
  <2> QED
    BY <1>1, <1>2, <1>3, <1>4, <1>5, <1>6, <1>8, <2>2, <2>4
<1> QED
  BY <1>7, <1>8

LEMMA ClearedList ==
  ASSUME NEW l \in Lists, NEW n \in Nat
  PROVE  Cleared(l, n) \in Lists
<1> USE FileAssumption
<1>1. l \in Seq(Sectors) /\ Len(l) \in Nat /\ Len(l) <= MaxDataBlk
  BY LenProperties DEF Lists
<1> DEFINE r == n % MaxDataBlk
<1>2. r \in Nat
  BY DivLaw
<1> HIDE DEF r
<1>3. CASE r # 0 /\ r < Len(l)
  <2>1. Cleared(l, n) = SubSeq(l, 1, r)
    BY <1>3 DEF Cleared, r
  <2>2. SubSeq(l, 1, r) \in Seq(Sectors) /\ Len(SubSeq(l, 1, r)) = r
    BY <1>1, <1>2, <1>3, SubSeqProperties
  <2> QED
    BY <1>1, <1>2, <1>3, <2>1, <2>2 DEF Lists
<1>4. CASE ~(r # 0 /\ r < Len(l))
  BY <1>4 DEF Cleared, r
<1> QED
  BY <1>3, <1>4

\* The handle g after the cut, and the disk its flush would leave.
IsCut(X, D, h, S, E, f, p, n, m, g, D2) ==
    /\ Cutting(X, D, h, S, E, f, p) /\ n = NbData(p) /\ m = NbExtens(p)
    /\ g = Shortened(f, p) /\ D2 = FlushedOn(X, g)

CutLeaves(D, h, S, E, f, p, n, g, D2) ==
    /\ g \in Handles /\ g.mode = "write" /\ g.fileHdr = CutHeader(h, n, p)
    /\ g.currentExt = CutLastExt(f.currentExt, n)
    /\ g.nDataBlock = f.nDataBlock /\ g.curDataPtr = S[f.nDataBlock] /\ g.pos = p
    /\ g.posInDataBlk = f.posInDataBlk /\ g.posInExtBlk = f.posInExtBlk
    /\ g.pos = (g.nDataBlock - 1) * BlockSize + g.posInDataBlk
    /\ g.currentDataBlockChanged = TRUE /\ g.currentData = D2[S[f.nDataBlock]]
    /\ D2 \in Disks
    /\ \A i \in DOMAIN S : /\ D2[S[i]].kind = "data" /\ D2[S[i]].data = D[S[i]].data
                           /\ i # f.nDataBlock => D2[S[i]] = D[S[i]]
    /\ \A j \in DOMAIN E : IF f.currentExt = D[E[j]] THEN D2[E[j]] = g.currentExt
                           ELSE D2[E[j]] = D[E[j]]

LEMMA CutDisk ==
  ASSUME NEW X, NEW D, NEW h, NEW S, NEW E, NEW f, NEW p, NEW n, NEW m,
         NEW g, NEW D2, IsCut(X, D, h, S, E, f, p, n, m, g, D2)
  PROVE  CutLeaves(D, h, S, E, f, p, n, g, D2)
<1> USE FileAssumption
<1> DEFINE c == f.nDataBlock
           key == f.currentExt.headerKey
           hd == CutHeader(h, n, p)
           x == CutLastExt(f.currentExt, n)
<1>0. /\ Cutting(X, D, h, S, E, f, p) /\ n = NbData(p) /\ m = NbExtens(p)
      /\ g = Shortened(f, p) /\ D2 = FlushedOn(X, g)
  BY DEF IsCut
<1>1. /\ X \in Disks /\ D \in Disks /\ h \in Headers /\ Chain(dosType, D, h, S, E)
      /\ f \in Handles /\ Agrees(dosType, D, h, S, E, f) /\ FlushedOn(X, f) = D
      /\ f.mode = "write" /\ f.pos = p /\ p \in Nat /\ p > 0 /\ p < h.byteSize
  BY <1>0 DEF Cutting
<1>2. /\ n \in 1 .. Len(S) /\ NbExtens(p) \in 0 .. Len(E) /\ Counts(p, n, NbExtens(p)) /\ S # <<>>
      /\ c \in DOMAIN S /\ Len(S) \in Nat
  BY <1>0, CutNumbers
<1>3. /\ f.fileHdr = h /\ f.currentExt \in ExtBlks /\ ExtKnown(D, E, f)
      /\ f.curDataPtr = S[c] /\ f.currentData = D[S[c]]
      /\ p = (c - 1) * BlockSize + f.posInDataBlk
  BY <1>1, <1>2 DEF Agrees, Holds, Handles
<1>4. /\ \A i \in DOMAIN S : S[i] \in Blocks /\ S[i] # 0
      /\ \A j \in DOMAIN E : E[j] \in Blocks /\ E[j] # 0
  BY <1>1, ChainFacts
<1>5. /\ Injective(S) /\ \A i \in DOMAIN S, j \in DOMAIN E : S[i] # E[j]
      /\ \A i \in DOMAIN S : D[S[i]].kind = "data"
      /\ \A j \in DOMAIN E : D[E[j]].headerKey = E[j]
  BY <1>1 DEF Chain, Listed
<1>6. hd \in Headers /\ hd.byteSize = p
  BY <1>1, <1>2, CutHeaderIs
<1>7. x \in ExtBlks /\ x.headerKey = key
  <2>1. CASE n <= MaxDataBlk
    BY <1>3, <2>1 DEF CutLastExt
  <2>2. CASE ~(n <= MaxDataBlk)
    <3> DEFINE l == Cleared(f.currentExt.dataBlocks, n)
    <3>1. f.currentExt.dataBlocks \in Lists /\ n \in Nat
      BY <1>2, <1>3 DEF ExtBlks
    <3>2. l \in Lists
      BY <3>1, ClearedList
    <3> HIDE DEF l
    <3>3. x = [f.currentExt EXCEPT !.dataBlocks = l, !.extension = 0]
      BY <2>2 DEF CutLastExt, l
    <3> QED
      BY <1>3, <3>2, <3>3, SectorFacts DEF ExtBlks
  <2> QED
    BY <2>1, <2>2
<1>8. /\ g \in Handles /\ g.mode = "write" /\ g.fileHdr = hd /\ g.currentExt = x
      /\ g.currentData = CutData(f.currentData) /\ g.nDataBlock = c /\ g.curDataPtr = S[c]
      /\ g.pos = p /\ g.posInDataBlk = f.posInDataBlk /\ g.posInExtBlk = f.posInExtBlk
      /\ g.currentDataBlockChanged = TRUE
  <2>1. /\ f \in Handles /\ p > 0 /\ p \in Nat
        /\ CutHeader(f.fileHdr, n, p) \in Headers /\ CutLastExt(f.currentExt, n) \in ExtBlks
    BY <1>1, <1>3, <1>6, <1>7
  <2> DEFINE z == Shortened(f, p)
  <2>2. /\ z \in Handles /\ z.mode = f.mode /\ z.fileHdr = CutHeader(f.fileHdr, n, p)
        /\ z.currentExt = CutLastExt(f.currentExt, n) /\ z.currentData = CutData(f.currentData)
        /\ z.nDataBlock = f.nDataBlock /\ z.curDataPtr = f.curDataPtr /\ z.pos = f.pos
        /\ z.posInDataBlk = f.posInDataBlk /\ z.posInExtBlk = f.posInExtBlk
        /\ z.currentDataBlockChanged = TRUE
    BY ONLY <1>0, <2>1, ShortenedIs
  <2>3. g = z
    BY <1>0
  <2> HIDE DEF z
  <2> QED
    BY <1>1, <1>3, <2>2, <2>3
<1> HIDE DEF hd, x, c
<1>9. \A s \in Blocks : D[s] = IF s = S[c] THEN f.currentData
                               ELSE IF s = key THEN f.currentExt ELSE X[s]
  <2> DEFINE Y == FlushedOn(X, f)
  <2>0. h.byteSize > 0
    BY <1>1 DEF Headers
  <2>1. \A s \in Blocks : Y[s] = IF s = S[c] THEN f.currentData
                                 ELSE IF s = key THEN f.currentExt ELSE X[s]
    BY <1>1, <1>2, <1>3, <1>4, <2>0, FlushedAt
  <2> HIDE DEF Y
  <2>2. Y = D
    BY <1>1 DEF Y
  <2> QED
    BY <2>1, <2>2
<1>10. /\ D2 \in Disks
       /\ \A s \in Blocks : D2[s] = IF s = S[c] THEN g.currentData
                                    ELSE IF s = key THEN x ELSE X[s]
  BY <1>0, <1>1, <1>2, <1>4, <1>6, <1>7, <1>8, FlushedAt
<1>11. D2[S[c]] = g.currentData
  BY <1>2, <1>4, <1>10
<1>12. key # 0 => \E j \in DOMAIN E : f.currentExt = D[E[j]] /\ key = E[j]
  <2>1. NoExt.headerKey = 0
    BY DEF NoExt, Ext
  <2>2. key # 0 => f.currentExt # NoExt
    BY <2>1
  <2> QED
    BY <1>3, <1>5, <2>2 DEF ExtKnown
<1>13. ASSUME NEW i \in DOMAIN S
       PROVE  /\ D2[S[i]].kind = "data" /\ D2[S[i]].data = D[S[i]].data
              /\ i # c => D2[S[i]] = D[S[i]]
  <2>1. CASE i = c
    <3>1. D[S[c]] \in DataBlks
      BY <1>1, <1>2, ChainFacts
    <3>2. D2[S[c]] = CutData(D[S[c]])
      BY <1>3, <1>8, <1>11
    <3>3. CutData(D[S[c]]).kind = "data" /\ CutData(D[S[c]]).data = D[S[c]].data
      BY <3>1 DEF CutData, DataBlks
    <3> QED
      BY <2>1, <3>2, <3>3
  <2>2. CASE i # c
    <3>1. S[i] \in Blocks /\ S[i] # S[c] /\ S[i] # 0
      BY <1>2, <1>4, <1>5, <2>2 DEF Injective
    <3>2. S[i] # key
      BY <1>5, <1>12, <3>1
    <3>3. D2[S[i]] = D[S[i]]
      BY <1>9, <1>10, <3>1, <3>2
    <3> QED
      BY <1>5, <3>3
  <2> QED
    BY <2>1, <2>2
<1>14. ASSUME NEW j \in DOMAIN E
       PROVE  IF f.currentExt = D[E[j]] THEN D2[E[j]] = x ELSE D2[E[j]] = D[E[j]]
  <2>1. E[j] \in Blocks /\ E[j] # S[c] /\ E[j] # 0
    BY <1>2, <1>4, <1>5
  <2>2. CASE f.currentExt = D[E[j]]
    <3>1. key = E[j]
      BY <1>5, <2>2
    <3> QED
      BY <1>10, <2>1, <2>2, <3>1
  <2>3. CASE f.currentExt # D[E[j]]
    <3>1. key # E[j]
      BY <1>12, <2>1, <2>3
    <3> QED
      BY <1>9, <1>10, <2>1, <2>3, <3>1
  <2> QED
    BY <2>2, <2>3
<1> QED
  BY <1>3, <1>8, <1>10, <1>11, <1>13, <1>14 DEF hd, x, c, CutLeaves

\* What the extension blocks that stay hold after the cut.
LEMMA CutExts ==
  ASSUME NEW X, NEW D, NEW h, NEW S, NEW E, NEW f, NEW p, NEW n, NEW m,
         NEW g, NEW D2, IsCut(X, D, h, S, E, f, p, n, m, g, D2), NEW j \in 1 .. m
  PROVE  /\ D2[E[j]].kind = "ext" /\ D2[E[j]].headerKey = E[j]
         /\ D2[E[j]].dataBlocks = Part(Cut(S, n), j)
         /\ j < m => D2[E[j]].extension = E[j + 1]
<1> USE FileAssumption
<1>0. /\ Cutting(X, D, h, S, E, f, p) /\ n = NbData(p) /\ m = NbExtens(p)
      /\ g = Shortened(f, p) /\ D2 = FlushedOn(X, g)
  BY DEF IsCut
<1>1. /\ S \in Seq(Blocks) /\ E \in Seq(Blocks) /\ Injective(S) /\ Injective(E)
      /\ Len(S) \in Nat /\ Len(E) \in Nat /\ DOMAIN S = 1 .. Len(S) /\ DOMAIN E = 1 .. Len(E)
      /\ n \in 1 .. Len(S) /\ m \in 0 .. Len(E) /\ Counts(p, n, m)
  BY <1>0, CutNumbers
<1>2. /\ D \in Disks /\ h \in Headers /\ Chain(dosType, D, h, S, E) /\ p \in Nat /\ f \in Handles
  BY <1>0 DEF Cutting
<1>3. \A i \in DOMAIN E : IF f.currentExt = D[E[i]] THEN D2[E[i]] = g.currentExt
                          ELSE D2[E[i]] = D[E[i]]
  <2>1. CutLeaves(D, h, S, E, f, p, n, g, D2)
    BY CutDisk
  <2> QED
    BY ONLY <2>1 DEF CutLeaves
<1>4. g.currentExt = CutLastExt(f.currentExt, n)
  BY CutDisk DEF CutLeaves
<1>5. \A i \in DOMAIN E : /\ D[E[i]].kind = "ext" /\ D[E[i]].headerKey = E[i]
                          /\ D[E[i]].dataBlocks = Part(S, i)
                          /\ i < Len(E) => D[E[i]].extension = E[i + 1]
                          /\ D[E[i]] \in ExtBlks
  <2>1. \A i \in DOMAIN E : D[E[i]] \in ExtBlks
    BY <1>2, ChainFacts
  <2> QED
    BY <1>2, <2>1 DEF Chain, Listed
<1>6. j \in DOMAIN E /\ m \in Nat /\ j \in Nat /\ m # 0 /\ n \in Nat /\ n \in 0 .. Len(S)
  BY <1>1
<1>7. n > MaxDataBlk
  <2>1. n <= MaxDataBlk <=> m = 0
    <3>1. PICK hd : hd = CutHeader(h, n, p)
      OBVIOUS
    <3> QED
      BY <1>1, <1>2, <3>1, CutHeaderIs
  <2> QED
    BY <1>6, <2>1
<1>8. /\ m * MaxDataBlk < n /\ n <= (m + 1) * MaxDataBlk
      /\ \E e \in DOMAIN E :
               /\ f.currentExt = D[E[e]]
               /\ e = m \/ (e = m + 1 /\ n = (m + 1) * MaxDataBlk)
  BY <1>0, <1>7, CutExt
<1>9. PICK e \in DOMAIN E : /\ f.currentExt = D[E[e]]
                            /\ e = m \/ (e = m + 1 /\ n = (m + 1) * MaxDataBlk)
  BY <1>8
<1>10. \A i \in DOMAIN E : f.currentExt = D[E[i]] <=> i = e
  BY <1>1, <1>5, <1>9 DEF Injective
<1>11. CASE j < m
  <2>1. j # e
    BY <1>6, <1>9, <1>11
  <2>2. D2[E[j]] = D[E[j]]
    BY <1>3, <1>6, <1>10, <2>1
  <2>3. (j + 1) * MaxDataBlk <= n
    <3>1. (j + 1) * MaxDataBlk <= m * MaxDataBlk
      BY <1>6, <1>11, MulMono
    <3>2. (j + 1) * MaxDataBlk \in Nat /\ m * MaxDataBlk \in Nat
      BY <1>6, MulNat
    <3> QED
      BY <1>6, <1>8, <3>1, <3>2
  <2>4. Part(Cut(S, n), j) = Part(S, j)
    BY <1>1, <1>6, <2>3, PartCut
  <2>5. j < Len(E)
    BY <1>1, <1>6, <1>11
  <2> QED
    BY <1>5, <1>6, <1>11, <2>2, <2>4, <2>5
<1>12. CASE j = m /\ e = m
  <2>1. D2[E[j]] = g.currentExt /\ f.currentExt = D[E[j]]
    BY <1>3, <1>6, <1>9, <1>10, <1>12
  <2>2. Cleared(Part(S, m), n) = Part(Cut(S, n), m) /\ Part(Cut(S, n), m) \in Lists
    BY <1>1, <1>6, <1>8, ClearedPart
  <2> DEFINE y == D[E[j]]
             l == Part(Cut(S, n), m)
  <2>3. y \in ExtBlks /\ y.headerKey = E[j] /\ y.dataBlocks = Part(S, m)
    BY <1>5, <1>6, <1>12
  <2>4. f.currentExt = y
    BY <2>1
  <2> HIDE DEF y
  <2>5. CutLastExt(y, n) = [y EXCEPT !.dataBlocks = l, !.extension = 0]
    BY <1>1, <1>7, <2>2, <2>3 DEF CutLastExt
  <2> HIDE DEF l
  <2>6. /\ CutLastExt(y, n).kind = "ext" /\ CutLastExt(y, n).headerKey = E[j]
        /\ CutLastExt(y, n).dataBlocks = l /\ CutLastExt(y, n).extension = 0
    BY <2>3, <2>5 DEF ExtBlks
  <2>7. D2[E[j]] = CutLastExt(y, n)
    BY <1>4, <2>1, <2>4
  <2> QED
    BY <1>12, <2>6, <2>7 DEF l
<1>13. CASE j = m /\ e = m + 1
  <2>1. j # e /\ e # m
    BY <1>6, <1>13
  <2>2. D2[E[j]] = D[E[j]] /\ n = (m + 1) * MaxDataBlk
    BY <1>3, <1>6, <1>9, <1>10, <2>1
  <2>3. (j + 1) * MaxDataBlk <= n
    BY <1>6, <1>13, <2>2
  <2>4. Part(Cut(S, n), j) = Part(S, j)
    BY <1>1, <1>6, <2>3, PartCut
  <2> QED
    BY <1>5, <1>6, <1>13, <2>2, <2>4
<1> QED
  BY <1>6, <1>9, <1>11, <1>12, <1>13

LEMMA CutChain ==
  ASSUME NEW X, NEW D, NEW h, NEW S, NEW E, NEW f, NEW p, NEW n, NEW m,
         NEW g, NEW D2, IsCut(X, D, h, S, E, f, p, n, m, g, D2)
  PROVE  /\ g.fileHdr \in Headers /\ g.fileHdr.byteSize = p
         /\ Chain(dosType, D2, g.fileHdr, Cut(S, n), Cut(E, m))
<1> USE FileAssumption
<1> DEFINE T == Cut(S, n)
           F == Cut(E, m)
           hd == CutHeader(h, n, p)
<1>0. /\ Cutting(X, D, h, S, E, f, p) /\ n = NbData(p) /\ m = NbExtens(p)
      /\ g = Shortened(f, p) /\ D2 = FlushedOn(X, g)
  BY DEF IsCut
<1>1. /\ S \in Seq(Blocks) /\ E \in Seq(Blocks) /\ Injective(S) /\ Injective(E)
      /\ Len(S) \in Nat /\ Len(E) \in Nat /\ DOMAIN S = 1 .. Len(S) /\ DOMAIN E = 1 .. Len(E)
      /\ n \in 1 .. Len(S) /\ m \in 0 .. Len(E) /\ Counts(p, n, m)
      /\ f.nDataBlock \in {n, n + 1}
  BY <1>0, CutNumbers
<1>2. /\ D \in Disks /\ h \in Headers /\ Chain(dosType, D, h, S, E) /\ p \in Nat
  BY <1>0 DEF Cutting
<1>3. n \in 0 .. Len(S) /\ n \in Nat /\ m \in Nat
  BY <1>1
<1>4. /\ T \in Seq(Blocks) /\ Len(T) = n /\ DOMAIN T = 1 .. n /\ Injective(T)
      /\ \A i \in 1 .. n : i \in DOMAIN S /\ T[i] = S[i]
  BY <1>1, <1>3, CutFacts
<1>5. /\ F \in Seq(Blocks) /\ Len(F) = m /\ DOMAIN F = 1 .. m /\ Injective(F)
      /\ \A i \in 1 .. m : i \in DOMAIN E /\ F[i] = E[i]
  <2>1. E \in Seq(Blocks) /\ Injective(E) /\ m \in 0 .. Len(E)
    BY <1>1
  <2> QED
    BY ONLY <2>1, CutFacts
<1>6. /\ \A i \in DOMAIN S, j \in DOMAIN E : S[i] # E[j]
      /\ dosType = "OFS" => \A i \in DOMAIN S : i < Len(S) => D[S[i]].nextData = S[i + 1]
  BY <1>2 DEF Chain, Listed
<1>7. /\ hd \in Headers /\ hd.byteSize = p /\ hd.firstData = T[1]
      /\ hd.dataBlocks = Part(T, 0)
      /\ hd.extension = IF F = <<>> THEN 0 ELSE F[1]
  BY <1>1, <1>2, CutHeaderIs
<1>8. /\ g.fileHdr = hd
      /\ \A i \in DOMAIN S : /\ D2[S[i]].kind = "data"
                             /\ i # f.nDataBlock => D2[S[i]] = D[S[i]]
  <2>1. CutLeaves(D, h, S, E, f, p, n, g, D2)
    BY CutDisk
  <2> QED
    BY <2>1 DEF CutLeaves
<1>9. \A j \in 1 .. m :
         /\ D2[E[j]].kind = "ext" /\ D2[E[j]].headerKey = E[j]
         /\ D2[E[j]].dataBlocks = Part(Cut(S, n), j)
         /\ j < m => D2[E[j]].extension = E[j + 1]
  <2> SUFFICES ASSUME NEW j \in 1 .. m
               PROVE  /\ D2[E[j]].kind = "ext" /\ D2[E[j]].headerKey = E[j]
                      /\ D2[E[j]].dataBlocks = Part(Cut(S, n), j)
                      /\ j < m => D2[E[j]].extension = E[j + 1]
    OBVIOUS
  <2> QED
    BY CutExts
<1>10. \A j \in 1 .. m :
         /\ D2[F[j]].kind = "ext" /\ D2[F[j]].headerKey = F[j]
         /\ D2[F[j]].dataBlocks = Part(T, j)
         /\ j < m => D2[F[j]].extension = F[j + 1]
  <2>1. \A j \in 1 .. m : F[j] = E[j]
    BY <1>5
  <2>2. \A j \in 1 .. m : j < m => F[j + 1] = E[j + 1]
    BY <1>3, <1>5
  <2> QED
    BY <1>9, <2>1, <2>2
<1>11. \A i \in 1 .. n : /\ D2[T[i]].kind = "data"
                         /\ dosType = "OFS" /\ i < n => D2[T[i]].nextData = T[i + 1]
  <2> SUFFICES ASSUME NEW i \in 1 .. n
               PROVE  /\ D2[T[i]].kind = "data"
                      /\ dosType = "OFS" /\ i < n => D2[T[i]].nextData = T[i + 1]
    OBVIOUS
  <2>1. T[i] = S[i] /\ i \in DOMAIN S
    BY <1>4
  <2>2. ASSUME dosType = "OFS", i < n PROVE D2[T[i]].nextData = T[i + 1]
    <3>1. i # f.nDataBlock /\ i < Len(S) /\ i + 1 \in 1 .. n
      BY <1>1, <1>3, <2>2
    <3>2. T[i + 1] = S[i + 1]
      BY <1>4, <3>1
    <3> QED
      BY <1>6, <1>8, <2>1, <2>2, <3>1, <3>2
  <2> QED
    BY <1>8, <2>1, <2>2
<1>12. \A i \in DOMAIN T, j \in DOMAIN F : T[i] # F[j]
  BY <1>4, <1>5, <1>6
<1> HIDE DEF T, F, hd
<1>13. T # <<>> => hd.firstData = T[1]
  BY <1>7
<1>14. Listed(dosType, D2, hd, T, F)
  BY <1>1, <1>4, <1>5, <1>7, <1>10, <1>12, <1>13 DEF Listed
<1>15. Chain(dosType, D2, hd, T, F)
  BY <1>4, <1>11, <1>14 DEF Chain
<1> QED
  BY <1>7, <1>8, <1>15 DEF T, F

\* A connection that does not go astray goes on in the file that is left.
LEMMA CutAgrees ==
  ASSUME NEW X, NEW D, NEW h, NEW S, NEW E, NEW f, NEW p, NEW n, NEW m,
         NEW g, NEW D2, IsCut(X, D, h, S, E, f, p, n, m, g, D2), ~GoesAstray(f, p)
  PROVE  Agrees(dosType, D2, g.fileHdr, Cut(S, n), Cut(E, m), g)
<1> USE FileAssumption
<1> DEFINE T == Cut(S, n)
           F == Cut(E, m)
           c == f.nDataBlock
<1>0. /\ Cutting(X, D, h, S, E, f, p) /\ n = NbData(p) /\ m = NbExtens(p)
      /\ g = Shortened(f, p) /\ D2 = FlushedOn(X, g)
  BY DEF IsCut
<1>1. /\ S \in Seq(Blocks) /\ E \in Seq(Blocks) /\ Injective(S) /\ Injective(E)
      /\ Len(S) \in Nat /\ Len(E) \in Nat /\ DOMAIN S = 1 .. Len(S) /\ DOMAIN E = 1 .. Len(E)
      /\ n \in 1 .. Len(S) /\ m \in 0 .. Len(E) /\ Counts(p, n, m)
      /\ c \in {n, n + 1} /\ c \in DOMAIN S
  BY <1>0, CutNumbers
<1>2. /\ D \in Disks /\ h \in Headers /\ Chain(dosType, D, h, S, E) /\ p \in Nat /\ f \in Handles
  BY <1>0 DEF Cutting
<1>3. n \in 0 .. Len(S) /\ n \in Nat /\ m \in Nat
  BY <1>1
<1>4. /\ T \in Seq(Blocks) /\ DOMAIN T = 1 .. n /\ T # <<>>
      /\ \A i \in 1 .. n : i \in DOMAIN S /\ T[i] = S[i]
  <2>1. n # 0
    BY <1>1
  <2> QED
    BY <1>1, <1>3, <2>1, CutFacts
<1>5. /\ DOMAIN F = 1 .. m
      /\ \A i \in 1 .. m : i \in DOMAIN E /\ F[i] = E[i]
  <2>1. E \in Seq(Blocks) /\ Injective(E) /\ m \in 0 .. Len(E)
    BY <1>1
  <2> QED
    BY ONLY <2>1, CutFacts
<1>6. c = n
  BY <1>0, <1>1, <1>3 DEF GoesAstray
<1>7. f.currentExt = NoExt \/ m # 0
  BY <1>0 DEF GoesAstray
<1>8. CutLeaves(D, h, S, E, f, p, n, g, D2)
  BY CutDisk
<1>9. /\ g.currentExt = CutLastExt(f.currentExt, n) /\ g.nDataBlock = c /\ g.curDataPtr = S[c]
      /\ g.posInExtBlk = f.posInExtBlk
      /\ g.pos = (g.nDataBlock - 1) * BlockSize + g.posInDataBlk
      /\ g.currentData = D2[S[c]]
      /\ \A j \in DOMAIN E : f.currentExt = D[E[j]] => D2[E[j]] = g.currentExt
  BY <1>8 DEF CutLeaves
<1>10. n <= MaxDataBlk <=> m = 0
  <2>1. PICK hd : hd = CutHeader(h, n, p)
    OBVIOUS
  <2> QED
    BY <1>1, <1>2, <2>1, CutHeaderIs
<1>11. c \in DOMAIN T /\ g.curDataPtr = T[c] /\ g.currentData = D2[T[c]]
  <2>1. c \in 1 .. n
    BY <1>1, <1>6
  <2> QED
    BY <1>4, <1>9, <2>1
<1> HIDE DEF T, F, c
<1>12. ExtKnown(D2, F, g) /\ ExtAt(dosType, D2, F, g)
  <2>1. CASE n <= MaxDataBlk
    <3>1. f.currentExt = NoExt
      BY <1>7, <1>10, <2>1
    <3>2. g.currentExt = NoExt
      BY <1>9, <2>1, <3>1 DEF CutLastExt
    <3>3. ~(g.nDataBlock > MaxDataBlk)
      BY <1>3, <1>6, <1>9, <2>1
    <3> QED
      BY <3>2, <3>3 DEF ExtKnown, ExtAt
  <2>2. CASE ~(n <= MaxDataBlk)
    <3>0. n > MaxDataBlk
      BY <1>3, <2>2
    <3>1. /\ m \in DOMAIN E /\ m > 0
          /\ \E e \in DOMAIN E :
                /\ f.currentExt = D[E[e]]
                /\ e = m \/ (e = m + 1 /\ f.nDataBlock = n + 1 /\ n = (m + 1) * MaxDataBlk)
          /\ f.nDataBlock = n => n = m * MaxDataBlk + f.posInExtBlk /\ f.posInExtBlk > 0
      BY <1>0, <3>0, CutExt
    <3>2. f.nDataBlock # n + 1
      BY <1>3, <1>6 DEF c
    <3>3. f.currentExt = D[E[m]]
      BY <3>1, <3>2
    <3>4. D2[E[m]] = g.currentExt
      BY <1>9, <3>1, <3>3
    <3>5. m \in DOMAIN F /\ F[m] = E[m]
      <4>1. m \in 1 .. m
        BY <1>3, <3>1
      <4> QED
        BY <1>5, <4>1
    <3>6. g.currentExt = D2[F[m]]
      BY <3>4, <3>5
    <3>7. g.nDataBlock = m * MaxDataBlk + g.posInExtBlk /\ g.posInExtBlk > 0
      BY <1>6, <1>9, <3>1 DEF c
    <3> QED
      BY <3>5, <3>6, <3>7 DEF ExtKnown, ExtAt
  <2> QED
    BY <2>1, <2>2
<1>13. Holds(dosType, D2, T, F, g, g.nDataBlock)
  BY <1>9, <1>11, <1>12 DEF Holds
<1> QED
  BY <1>4, <1>9, <1>12, <1>13 DEF Agrees, T, F

LEMMA CutBytes ==
  ASSUME NEW X, NEW D, NEW h, NEW S, NEW E, NEW f, NEW p, NEW n, NEW m,
         NEW g, NEW D2, IsCut(X, D, h, S, E, f, p, n, m, g, D2), NEW b \in 1 .. p
  PROVE  ByteAt(D2, Cut(S, n), b) = ByteAt(D, S, b)
<1> USE FileAssumption
<1> DEFINE T == Cut(S, n)
           a == b - 1
           q == a \div BlockSize
           i == a % BlockSize
<1>0. Cutting(X, D, h, S, E, f, p) /\ n = NbData(p) /\ p \in Nat
  BY DEF IsCut, Cutting
<1>1. /\ S \in Seq(Blocks) /\ Injective(S) /\ Len(S) \in Nat /\ n \in 1 .. Len(S)
      /\ Counts(p, n, NbExtens(p))
  BY <1>0, CutNumbers
<1>2. n \in 0 .. Len(S) /\ n \in Nat /\ p <= n * BlockSize
  BY <1>1 DEF Counts
<1>3. \A j \in 1 .. n : j \in DOMAIN S /\ T[j] = S[j]
  BY <1>1, <1>2, CutFacts
<1>4. a \in Nat /\ a < p
  BY <1>0
<1> HIDE DEF a
<1>5. q \in 0 .. n - 1 /\ i \in 0 .. BlockSize - 1 /\ a = q * BlockSize + i
  BY <1>0, <1>2, <1>4, PosInBlock
<1> HIDE DEF q, i
<1>6. q * BlockSize \in Nat /\ q \in Nat /\ q + 1 \in 1 .. n
  BY <1>2, <1>5, MulNat
<1>7. b = q * BlockSize + i + 1
  BY <1>4, <1>5, <1>6 DEF a
<1>8. Placed(b, q, i)
  BY <1>5, <1>6, <1>7 DEF Placed
<1>9. CutLeaves(D, h, S, E, f, p, n, g, D2)
  BY CutDisk
<1>10. D2[S[q + 1]].data = D[S[q + 1]].data
  BY <1>3, <1>6, <1>9 DEF CutLeaves
<1> HIDE DEF T
<1>11. ByteAt(D2, T, b) = D2[T[q + 1]].data[i]
  BY <1>6, <1>8, BytePlace
<1>12. ByteAt(D, S, b) = D[S[q + 1]].data[i]
  BY <1>6, <1>8, BytePlace
<1>13. T[q + 1] = S[q + 1]
  BY <1>3, <1>6
<1> QED
  BY <1>10, <1>11, <1>12, <1>13 DEF T

\* The function collects the blocks from lists that are saved: all that the file
\* has no more.
LEMMA FreedIs ==
  ASSUME dosType \in DOMAIN MaxSize, disk \in Disks, free \subseteq Blocks,
         NEW D \in Disks, NEW h \in Headers, NEW S, NEW E, Chain(dosType, D, h, S, E),
         FlushedDisk(file) = D, file.fileHdr = h, ListsAreSaved,
         Blocks \ free = BlocksIn(S) \cup BlocksIn(E),
         NEW p \in Nat, NEW n, NEW m, n = NbData(p), m = NbExtens(p), n \in 0 .. Len(S), m \in 0 .. Len(E),
         NEW fr, fr = free \cup BlocksToRemove(disk, h, p)
  PROVE  /\ fr \subseteq Blocks
         /\ Blocks \ fr = BlocksIn(Cut(S, n)) \cup BlocksIn(Cut(E, m))
<1>1. /\ Listed(dosType, D, h, S, E) /\ S \in Seq(Blocks) /\ E \in Seq(Blocks)
      /\ Injective(S) /\ Injective(E) /\ \A i \in DOMAIN S, j \in DOMAIN E : S[i] # E[j]
      /\ Counts(h.byteSize, Len(S), Len(E)) /\ h.byteSize \in Nat
      /\ DOMAIN E = 1 .. Len(E) /\ Len(E) \in Nat /\ Len(S) \in Nat /\ DOMAIN S = 1 .. Len(S)
  <2>1. /\ Len(S) \in Nat /\ Len(E) \in Nat /\ DOMAIN S = 1 .. Len(S) /\ DOMAIN E = 1 .. Len(E)
    BY ChainFacts
  <2> QED
    BY <2>1 DEF Chain, Listed, Headers
<1>2. Len(S) = NbData(h.byteSize) /\ Len(E) = NbExtens(h.byteSize)
  BY <1>1, CountsUnique
<1>3. Extens(D, h) \in Seq(Sectors) /\ BeginsWith(Extens(D, h), E, 0)
  BY <1>1, ListedReads
<1>4. \A j \in DOMAIN E : disk[E[j]] = D[E[j]]
  <2>1. \A e \in FirstOf(Cardinality(Blocks), Extens(D, h)) : disk[e] = D[e]
    BY DEF ListsAreSaved
  <2>2. Len(E) <= Cardinality(Blocks) /\ Cardinality(Blocks) \in Nat
    BY <1>1, InjectiveLen
  <2> DEFINE x == Extens(D, h)
             k == Cardinality(Blocks)
  <2>3. x \in Seq(Sectors) /\ Len(x) \in Nat /\ Len(x) >= Len(E) /\ \A j \in 1 .. Len(E) : x[j] = E[j]
    BY <1>1, <1>3, LenProperties DEF BeginsWith
  <2> HIDE DEF x, k
  <2>4. ASSUME NEW j \in DOMAIN E PROVE E[j] \in FirstOf(k, x)
    <3>1. j \in 1 .. (IF k < Len(x) THEN k ELSE Len(x)) /\ x[j] = E[j]
      BY <1>1, <2>2, <2>3 DEF k
    <3> QED
      BY <3>1 DEF FirstOf
  <2> QED
    BY <2>1, <2>4 DEF x, k
<1>5. Listed(dosType, disk, h, S, E)
  BY <1>1, <1>4 DEF Listed
<1>6. /\ Extens(disk, h) \in Seq(Sectors) /\ BeginsWith(Extens(disk, h), E, 0)
      /\ DataBlocksOf(disk, h) \in Seq(Sectors) /\ BeginsWith(DataBlocksOf(disk, h), S, 0)
  BY <1>5, ListedReads
<1> DEFINE A == {S[i] : i \in n + 1 .. Len(S)}
           B == {E[i] : i \in m + 1 .. Len(E)}
<1>7. Behind(n, Len(S), DataBlocksOf(disk, h)) = A
  BY <1>1, <1>6, BehindIs
<1>8. Behind(m, Len(E), Extens(disk, h)) = B
  BY <1>1, <1>6, BehindIs
<1>9. BlocksToRemove(disk, h, p) = A \cup B
  BY <1>2, <1>7, <1>8 DEF BlocksToRemove
<1>10. BlocksIn(Cut(S, n)) = BlocksIn(S) \ A /\ BlocksIn(Cut(E, m)) = BlocksIn(E) \ B
  BY <1>1, CutFacts
<1>11. A \subseteq BlocksIn(S) /\ B \subseteq BlocksIn(E)
  <2>1. A \subseteq BlocksIn(S)
    <3>1. \A i \in n + 1 .. Len(S) : i \in DOMAIN S
      BY <1>1
    <3> QED
      BY <3>1 DEF BlocksIn
  <2>2. B \subseteq BlocksIn(E)
    <3>1. \A i \in m + 1 .. Len(E) : i \in DOMAIN E
      BY <1>1
    <3> QED
      BY <3>1 DEF BlocksIn
  <2> QED
    BY <2>1, <2>2
<1>12. BlocksIn(S) \subseteq Blocks /\ BlocksIn(E) \subseteq Blocks
  BY <1>1, BlocksInCard
<1>13. BlocksIn(S) \cap BlocksIn(E) = {}
  BY <1>1 DEF BlocksIn
<1> HIDE DEF A, B
<1>14. fr = free \cup A \cup B
  BY <1>9
<1> QED
  BY <1>10, <1>11, <1>12, <1>13, <1>14

LEMMA TruncateKeeps ==
  ASSUME TypesOK, NEW D, NEW h, NEW S, NEW E, FileIs(D, h, S, E), ~astray,
         NEW p \in 0 .. file.fileHdr.byteSize, adfFileTruncate(p), ~lost'
  PROVE  /\ TypesOK' /\ file.mode = "write" /\ file'.mode = "write" /\ file'.pos = p /\ p < h.byteSize
         /\ \E D2, h2, S2, E2 : /\ FileIs(D2, h2, S2, E2)' /\ h2.byteSize = p
                                /\ \A b \in 1 .. p : ByteAt(D2, S2, b) = ByteAt(D, S, b)
<1> USE FileAssumption
<1>1. /\ D \in Disks /\ h \in Headers /\ Left = [D |-> D, h |-> h] /\ Chain(dosType, D, h, S, E)
      /\ file.mode = "write" /\ file \in Handles /\ hdr \in Headers /\ disk \in Disks
      /\ h.byteSize <= MaxSize[dosType] /\ dosType \in DOMAIN MaxSize
      /\ free \subseteq Blocks /\ Blocks \ free = BlocksIn(S) \cup BlocksIn(E)
  BY DEF FileIs, adfFileTruncate, TypesOK
<1>2. Sees(D, h, S, E) /\ Agrees(dosType, D, h, S, E, file) /\ file.fileHdr = h
  BY <1>1 DEF FileIs, Sees, Agrees
<1>3. /\ ~(Unmarked /\ Reloads(file, p))
      /\ Reloads(file, p) => DiskBefore(file) = D /\ HeaderBefore(file) = h
  <2>1. ~(Unmarked /\ Reloads(file, p))
    BY DEF adfFileTruncate
  <2> QED
    BY <1>1, <2>1, BeforeIs
<1>4. p \in Nat /\ p < h.byteSize /\ p <= h.byteSize /\ h.byteSize \in Nat /\ h.byteSize > 0
  <2>1. p \in Nat /\ h.byteSize \in Nat /\ p < h.byteSize
    BY <1>1, <1>2 DEF Headers, adfFileTruncate
  <2> QED
    BY <2>1
<1>5. PICK f : f = Sought(file, p)
  OBVIOUS
<1>6. /\ f \in Handles /\ Agrees(dosType, D, h, S, E, f) /\ f.mode = "write" /\ f.pos = p
      /\ ~Reloads(file, p) => /\ f.curDataPtr = file.curDataPtr
                              /\ f.currentData = file.currentData
                              /\ f.currentExt = file.currentExt
  BY <1>1, <1>2, <1>3, <1>4, <1>5, SoughtAgrees
<1>7. f.fileHdr = h
  BY <1>6 DEF Agrees
<1>8. PICK X : X = disk'
  OBVIOUS
<1>9. X \in Disks /\ FlushedOn(X, f) = D /\ hdr' \in Headers
  <2>1. CASE (X = disk /\ hdr' = hdr) /\ ~Reloads(file, p)
    <3>1. FlushedOn(disk, f) = FlushedOn(disk, file)
      BY <1>2, <1>6, <1>7, <2>1, FlushesAlike
    <3> QED
      BY <1>1, <2>1, <3>1, LeftIs
  <2>2. CASE X = D /\ hdr' = h
    BY <1>1, <1>6, <2>2, FlushedNothing
  <2>3. ((X = disk /\ hdr' = hdr) /\ ~Reloads(file, p)) \/ (X = D /\ hdr' = h)
    BY <1>1, <1>3, <1>8, SoughtDisk DEF adfFileTruncate
  <2> QED
    BY <2>1, <2>2, <2>3
<1>10. /\ dosType' = dosType /\ hdr' \in Headers /\ file' = Shortened(f, p)
       /\ astray' = GoesAstray(f, p) /\ ListsAreSaved /\ (NbExtens(p) > 0 => HasItsExt(f))
       /\ free' = free \cup BlocksToRemove(disk, h, p)
  BY <1>2, <1>5, <1>9 DEF adfFileTruncate
<1>11. FlushedDisk(file) = D
  BY <1>1, LeftIs, FlushedIs
<1>12. PICK n, m : n = NbData(p) /\ m = NbExtens(p)
  OBVIOUS
<1>13. PICK g : g = file'
  OBVIOUS
<1>14. PICK D2 : D2 = FlushedOn(X, g)
  OBVIOUS
<1>15. PICK fr : fr = free'
  OBVIOUS
<1>16. CASE p = 0
  <2>1. n = 0 /\ m = 0
    <3>1. 0 * BlockSize = 0
      OBVIOUS
    <3>2. Counts(p, 0, 0)
      BY <1>16, <3>1 DEF Counts
    <3> QED
      BY <1>4, <1>12, <3>2, CountsUnique
  <2>2. g = [f EXCEPT !.fileHdr = NoHeader]
    BY <1>10, <1>13, <1>16 DEF Shortened, Emptied
  <2>3. g \in Handles /\ g.mode = "write" /\ g.pos = p /\ g.fileHdr = NoHeader
    BY <1>6, <2>2, BlankTypes DEF Handles
  <2>4. D2 \in Disks
    BY <1>9, <1>14, <2>3, FlushedAt
  <2>5. /\ NoHeader.byteSize = 0 /\ NoHeader.dataBlocks = <<>> /\ NoHeader.extension = 0
        /\ NoHeader \in Headers
    BY BlankTypes DEF NoHeader
  <2>6. Chain(dosType, D2, NoHeader, <<>>, <<>>)
    BY <2>5, EmptyFile
  <2>7. /\ S \in Seq(Blocks) /\ E \in Seq(Blocks) /\ Injective(S) /\ Injective(E)
    BY <1>1 DEF Chain, Listed
  <2>8. /\ 0 \in 0 .. Len(S) /\ 0 \in 0 .. Len(E)
    BY <2>7, LenProperties
  <2>9. Cut(S, 0) = <<>> /\ Cut(E, 0) = <<>>
    BY <2>7, <2>8, CutFacts
  <2>10. fr \subseteq Blocks /\ Blocks \ fr = BlocksIn(<<>>) \cup BlocksIn(<<>>)
    <3>1. fr = free \cup BlocksToRemove(disk, h, p) /\ n \in 0 .. Len(S) /\ m \in 0 .. Len(E)
      BY <1>10, <1>15, <2>1, <2>8
    <3>2. fr \subseteq Blocks /\ Blocks \ fr = BlocksIn(Cut(S, n)) \cup BlocksIn(Cut(E, m))
      BY <1>1, <1>2, <1>4, <1>10, <1>11, <1>12, <3>1, FreedIs
    <3> QED
      BY <2>1, <2>9, <3>2
  <2>11. astray'
    <3>1. f.nDataBlock > 0
      <4>1. S # <<>>
        <5>1. Len(S) \in Nat /\ (S = <<>> <=> Len(S) = 0) /\ h.byteSize <= Len(S) * BlockSize
          BY <1>1, ChainFacts DEF Chain, Listed, Counts
        <5>2. 0 * BlockSize = 0
          OBVIOUS
        <5> QED
          BY <1>4, <5>1, <5>2
      <4>2. f.nDataBlock \in DOMAIN S /\ DOMAIN S = 1 .. Len(S)
        BY <1>6, <2>7, <4>1, LenProperties DEF Agrees, Holds
      <4> QED
        BY <4>2
    <3> QED
      BY <1>10, <1>12, <2>1, <3>1 DEF GoesAstray
  <2>12. Left' = [D |-> D2, h |-> NoHeader]
    BY <1>8, <1>13, <1>14, <2>3 DEF Left, FlushedDisk, FlushedOn
  <2>13. MaxSize[dosType] \in Nat
    BY <1>1
  <2>14. FileIs(D2, NoHeader, <<>>, <<>>)'
    BY <1>10, <1>13, <1>15, <2>3, <2>4, <2>5, <2>6, <2>10, <2>11, <2>12, <2>13 DEF FileIs
  <2>15. TypesOK'
    BY <1>1, <1>4, <1>8, <1>9, <1>10, <1>13, <1>15, <1>16, <2>3, <2>5, <2>10 DEF TypesOK
  <2>16. \A b \in 1 .. p : ByteAt(D2, <<>>, b) = ByteAt(D, S, b)
    BY <1>16
  <2> QED
    BY <1>1, <1>4, <1>13, <1>16, <2>3, <2>5, <2>14, <2>15, <2>16
<1>17. CASE p # 0
  <2>1. Cutting(X, D, h, S, E, f, p)
    BY <1>1, <1>4, <1>6, <1>9, <1>10, <1>17 DEF Cutting
  <2>2. IsCut(X, D, h, S, E, f, p, n, m, g, D2)
    BY <1>10, <1>12, <1>13, <1>14, <2>1 DEF IsCut
  <2>3. n \in 1 .. Len(S) /\ m \in 0 .. Len(E)
    BY <1>12, <2>1, CutNumbers
  <2>4. CutLeaves(D, h, S, E, f, p, n, g, D2)
    BY <2>2, CutDisk
  <2>5. /\ g \in Handles /\ g.mode = "write" /\ g.pos = p /\ g.currentDataBlockChanged = TRUE
        /\ D2 \in Disks
    BY <2>4 DEF CutLeaves
  <2>6. PICK h2 : h2 = g.fileHdr
    OBVIOUS
  <2>7. PICK T, F : T = Cut(S, n) /\ F = Cut(E, m)
    OBVIOUS
  <2>8. h2 \in Headers /\ h2.byteSize = p /\ Chain(dosType, D2, h2, T, F)
    BY <2>2, <2>6, <2>7, CutChain
  <2>9. fr \subseteq Blocks /\ Blocks \ fr = BlocksIn(T) \cup BlocksIn(F)
    <3>1. fr = free \cup BlocksToRemove(disk, h, p) /\ n \in 0 .. Len(S) /\ m \in 0 .. Len(E)
      BY <1>10, <1>15, <2>3
    <3> QED
      BY <1>1, <1>2, <1>4, <1>10, <1>11, <1>12, <2>7, <3>1, FreedIs
  <2>10. Left' = [D |-> D2, h |-> h2]
    BY <1>8, <1>13, <1>14, <2>5, <2>6 DEF Left, FlushedDisk, FlushedOn
  <2>11. ~astray' => Sees(D2, h2, T, F)'
    <3>1. ASSUME ~astray' PROVE Agrees(dosType, D2, h2, T, F, g)
      BY <1>10, <2>2, <2>6, <2>7, <3>1, CutAgrees
    <3> QED
      BY <1>10, <1>13, <3>1 DEF Sees
  <2>12. p <= MaxSize[dosType]
    <3>1. MaxSize[dosType] \in Nat
      BY <1>1
    <3> QED
      BY <1>1, <1>4, <3>1
  <2>13. FileIs(D2, h2, T, F)'
    BY <1>10, <1>13, <1>15, <2>5, <2>8, <2>9, <2>10, <2>11, <2>12 DEF FileIs
  <2>14. TypesOK'
    BY <1>1, <1>4, <1>8, <1>9, <1>10, <1>13, <1>15, <2>5, <2>6, <2>8, <2>9 DEF TypesOK
  <2>15. \A b \in 1 .. p : ByteAt(D2, T, b) = ByteAt(D, S, b)
    BY <2>2, <2>7, CutBytes
  <2> QED
    BY <1>1, <1>4, <1>13, <2>5, <2>8, <2>13, <2>14, <2>15
<1> QED
  BY <1>16, <1>17

----------------------------------------------------------------------------
(* The bytes of the file.                                                   *)

BytesOf(D, h, S) == [i \in 1 .. h.byteSize |-> ByteAt(D, S, i)]

LEMMA BytesIs ==
  ASSUME NEW D \in Disks, NEW h \in Headers, NEW t, NEW S, NEW E, Chain(t, D, h, S, E)
  PROVE  Bytes(D, h) = BytesOf(D, h, S)
<1> USE FileAssumption
<1> DEFINE list == DataBlocksOf(D, h)
           N == Len(S)
<1>1. /\ S \in Seq(Blocks) /\ N \in Nat /\ DOMAIN S = 1 .. N
      /\ \A i \in DOMAIN S : AsData(D, S[i]) = D[S[i]]
  BY ChainFacts
<1>2. Listed(t, D, h, S, E) /\ h.byteSize \in Nat /\ h.byteSize <= N * BlockSize
  BY DEF Chain, Listed, Counts, Headers
<1>3. list \in Seq(Sectors) /\ BeginsWith(list, S, 0)
  BY <1>2, ListedReads
<1> HIDE DEF list, N
<1>4. Len(list) \in Nat /\ Len(list) >= N /\ \A i \in 1 .. N : list[i] = S[i]
  BY <1>1, <1>3, LenProperties DEF BeginsWith, N
<1>5. ASSUME NEW i \in 1 .. h.byteSize
      PROVE  AsData(D, At(list, (i - 1) \div BlockSize)).data[(i - 1) % BlockSize] = ByteAt(D, S, i)
  <2> DEFINE a == i - 1
             q == a \div BlockSize
  <2>1. a \in Nat /\ a < h.byteSize
    BY <1>2
  <2> HIDE DEF a
  <2>2. q \in 0 .. N - 1
    BY <1>1, <1>2, <2>1, PosInBlock
  <2> HIDE DEF q
  <2>3. q < Len(list) /\ q + 1 \in 1 .. N
    BY <1>1, <1>4, <2>2
  <2>4. At(list, q) = S[q + 1]
    BY <1>4, <2>3 DEF At
  <2>5. AsData(D, At(list, q)) = D[S[q + 1]]
    BY <1>1, <2>3, <2>4
  <2> QED
    BY <2>5 DEF ByteAt, q, a
<1> QED
  BY <1>5 DEF Bytes, BytesOf, list

LEMMA ContentsIs ==
  ASSUME NEW D, NEW h, NEW S, NEW E, FileIs(D, h, S, E)
  PROVE  Contents = BytesOf(D, h, S)
<1>1. D \in Disks /\ h \in Headers /\ Chain(dosType, D, h, S, E) /\ Left = [D |-> D, h |-> h]
  BY DEF FileIs
<1>2. Bytes(D, h) = BytesOf(D, h, S)
  BY <1>1, BytesIs
<1>3. Left.D = D /\ Left.h = h
  BY <1>1, LeftIs
<1> QED
  BY <1>2, <1>3 DEF Contents

LEMMA ContentsNext ==
  ASSUME NEW D, NEW h, NEW S, NEW E, FileIs(D, h, S, E)'
  PROVE  Contents' = BytesOf(D, h, S)
<1>1. D \in Disks /\ h \in Headers /\ Chain(dosType', D, h, S, E) /\ Left' = [D |-> D, h |-> h]
  BY DEF FileIs
<1>2. PICK t : t = dosType'
  OBVIOUS
<1>3. Bytes(D, h) = BytesOf(D, h, S)
  BY <1>1, <1>2, BytesIs
<1>4. Left'.D = D /\ Left'.h = h
  BY <1>1
<1>5. Contents' = Bytes(Left'.D, Left'.h)
  BY DEF Contents
<1> QED
  BY <1>3, <1>4, <1>5

\* Contents are a sequence.
LEMMA BytesLen ==
  ASSUME NEW D, NEW h \in Headers, NEW S
  PROVE  /\ h.byteSize \in Nat
         /\ \E V : BytesOf(D, h, S) \in Seq(V)
         /\ Len(BytesOf(D, h, S)) = h.byteSize
         /\ \A i \in 1 .. h.byteSize : BytesOf(D, h, S)[i] = ByteAt(D, S, i)
<1> DEFINE B == BytesOf(D, h, S)
           V == {ByteAt(D, S, i) : i \in 1 .. h.byteSize}
<1>1. h.byteSize \in Nat
  BY DEF Headers
<1>2. B \in [1 .. h.byteSize -> V] /\ \A i \in 1 .. h.byteSize : B[i] = ByteAt(D, S, i)
  BY DEF BytesOf
<1> HIDE DEF B, V
<1>3. B \in Seq(V) /\ Len(B) = h.byteSize
  BY <1>1, <1>2
<1> QED
  BY <1>1, <1>2, <1>3 DEF B

LEMMA PieceOf ==
  ASSUME NEW B, NEW V, B \in Seq(V), NEW a \in Nat, NEW b \in Nat, a <= b, b <= Len(B)
  PROVE  SubSeq(B, a + 1, b) = [i \in 1 .. b - a |-> B[a + i]]
<1>1. Len(B) \in Nat
  BY LenProperties
<1> DEFINE R == SubSeq(B, a + 1, b)
<1>2. a + 1 \in 1 .. Len(B) + 1 /\ b \in (a + 1) - 1 .. Len(B)
  BY <1>1
<1>3. R = [i \in 1 .. (1 + b - (a + 1)) |-> B[i + (a + 1) - 1]]
  OBVIOUS
<1>4. 1 + b - (a + 1) = b - a /\ \A i \in 1 .. b - a : i + (a + 1) - 1 = a + i
  BY <1>1
<1> QED
  BY <1>3, <1>4

----------------------------------------------------------------------------
(* Every step keeps the invariant and does what ByteFile says.              *)

LEMMA OpenStep ==
  ASSUME TypesOK, NEW D, NEW h, NEW S, NEW E, FileIs(D, h, S, E), ~astray, UNCHANGED astray,
         NEW mode \in {"read", "write"}, adfFileOpen(mode)
  PROVE  SoundFile' /\ Promise!Open
<1>1. TypesOK' /\ FileIs(D, h, S, E)' /\ file'.pos = 0 /\ file'.mode # "closed"
  BY OpenKeeps
<1>2. Contents = BytesOf(D, h, S) /\ Contents' = BytesOf(D, h, S)
  BY <1>1, ContentsIs, ContentsNext
<1>3. file.mode = "closed" /\ out' = <<>>
  BY DEF adfFileOpen
<1> QED
  BY <1>1, <1>2, <1>3 DEF SoundFile, Promise!Open, Position

LEMMA CloseStep ==
  ASSUME TypesOK, NEW D, NEW h, NEW S, NEW E, FileIs(D, h, S, E), adfFileClose, ~astray'
  PROVE  SoundFile' /\ Promise!Close
<1>1. TypesOK' /\ FileIs(D, h, S, E)' /\ file'.mode = "closed"
  BY CloseKeeps
<1>2. Contents = BytesOf(D, h, S) /\ Contents' = BytesOf(D, h, S)
  BY <1>1, ContentsIs, ContentsNext
<1>3. file.mode # "closed" /\ out' = <<>>
  BY DEF adfFileClose
<1>4. file.pos \in Nat
  BY DEF TypesOK, Handles
<1> QED
  BY <1>1, <1>2, <1>3, <1>4 DEF SoundFile, Promise!Close, Position

LEMMA SeekStep ==
  ASSUME TypesOK, NEW D, NEW h, NEW S, NEW E, FileIs(D, h, S, E), ~astray, UNCHANGED astray,
         NEW p \in 0 .. file.fileHdr.byteSize, adfFileSeek(p), ~(Unmarked /\ Reloads(file, p))
  PROVE  SoundFile' /\ Promise!Seek
<1>1. TypesOK' /\ FileIs(D, h, S, E)' /\ file'.pos = p /\ file'.mode # "closed"
  BY SeekKeeps
<1>2. Contents = BytesOf(D, h, S) /\ Contents' = BytesOf(D, h, S)
  BY <1>1, ContentsIs, ContentsNext
<1>3. file.mode # "closed" /\ out' = <<>>
  BY DEF adfFileSeek
<1>4. file.pos \in Nat
  BY DEF TypesOK, Handles
<1>5. file.fileHdr = h /\ h \in Headers
  BY <1>3 DEF FileIs, Sees, Agrees
<1>6. p \in 0 .. Len(Contents)
  BY <1>2, <1>5, BytesLen
<1> QED
  BY <1>1, <1>2, <1>3, <1>4, <1>6 DEF SoundFile, Promise!Seek, Position

LEMMA ReadStep ==
  ASSUME TypesOK, NEW D, NEW h, NEW S, NEW E, FileIs(D, h, S, E), ~astray, UNCHANGED astray,
         NEW k \in 1 .. BlockSize, adfFileRead(k)
  PROVE  SoundFile' /\ Promise!Read
<1> USE FileAssumption
<1>1. /\ TypesOK' /\ FileIs(D, h, S, E)' /\ file'.mode # "closed" /\ file.mode # "closed"
      /\ file'.pos = file.pos + k /\ file'.pos <= h.byteSize
      /\ out' = [i \in 1 .. k |-> ByteAt(D, S, file.pos + i)]
  BY ReadKeeps
<1>2. Contents = BytesOf(D, h, S) /\ Contents' = BytesOf(D, h, S)
  BY <1>1, ContentsIs, ContentsNext
<1>3. PICK a : a = file.pos
  OBVIOUS
<1>4. a \in Nat /\ h \in Headers
  BY <1>3 DEF FileIs, TypesOK, Handles
<1>5. PICK B : B = BytesOf(D, h, S)
  OBVIOUS
<1>6. PICK V : B \in Seq(V)
  BY <1>4, <1>5, BytesLen
<1>7. Len(B) = h.byteSize /\ h.byteSize \in Nat /\ \A i \in 1 .. h.byteSize : B[i] = ByteAt(D, S, i)
  BY <1>4, <1>5, BytesLen
<1>8. k \in Nat /\ k >= 1 /\ a + k \in Nat /\ a + k <= Len(B) /\ a <= a + k
  BY <1>1, <1>3, <1>4, <1>7
<1>9. SubSeq(B, a + 1, a + k) = [i \in 1 .. k |-> B[a + i]]
  <2> DEFINE b == a + k
  <2>1. b \in Nat /\ a <= b /\ b <= Len(B) /\ b - a = k
    BY <1>4, <1>8
  <2> HIDE DEF b
  <2>2. SubSeq(B, a + 1, b) = [i \in 1 .. b - a |-> B[a + i]]
    BY <1>4, <1>6, <2>1, PieceOf
  <2> QED
    BY <2>1, <2>2 DEF b
<1>10. \A i \in 1 .. k : B[a + i] = ByteAt(D, S, a + i)
  <2>1. \A i \in 1 .. k : a + i \in 1 .. h.byteSize
    BY <1>4, <1>7, <1>8
  <2> QED
    BY <1>7, <2>1
<1>11. out' = SubSeq(Contents, file.pos + 1, file.pos + k)
  BY <1>1, <1>2, <1>3, <1>5, <1>9, <1>10
<1>12. /\ Position = file.pos /\ Position # -1 /\ Position' = file.pos + k
       /\ Position' <= Len(Contents)
  BY <1>1, <1>2, <1>3, <1>4, <1>5, <1>7 DEF Position
<1>13. Promise!Read
  <2>1. UNCHANGED Contents
    BY <1>2
  <2> QED
    BY <1>11, <1>12, <2>1 DEF Promise!Read
<1> QED
  BY <1>1, <1>13 DEF SoundFile

\* A turn of adfFileWrite, whichever of its branches it took.
LEMMA WriteStep ==
  ASSUME TypesOK, NEW D, NEW h, NEW S, NEW E, FileIs(D, h, S, E), ~astray,
         NEW k \in 1 .. BlockSize, NEW v \in Values \cup {0}, out' = <<>>,
         file.mode = "write", file'.mode = "write", file'.pos = file.pos + k,
         NEW D2, NEW h2, NEW S2, NEW E2, FileIs(D2, h2, S2, E2)',
         Wrote(D, h, S, D2, h2, S2, file.pos, k, v)
  PROVE  Promise!Write
<1> USE FileAssumption
<1>1. PICK a : a = file.pos
  OBVIOUS
<1>2. Contents = BytesOf(D, h, S) /\ Contents' = BytesOf(D2, h2, S2)
  BY ContentsIs, ContentsNext
<1>3. h \in Headers /\ a \in Nat /\ file.fileHdr = h /\ a <= h.byteSize /\ h.byteSize \in Nat
  <2>1. h \in Headers /\ file.fileHdr = h
    BY DEF FileIs, Sees, Agrees
  <2> QED
    BY <1>1, <2>1 DEF TypesOK, Handles, Headers
<1>4. PICK B : B = BytesOf(D, h, S)
  OBVIOUS
<1>5. Len(B) = h.byteSize /\ \A i \in 1 .. h.byteSize : B[i] = ByteAt(D, S, i)
  BY <1>3, <1>4, BytesLen
<1>6. PICK n : n = IF a + k > h.byteSize THEN a + k ELSE h.byteSize
  OBVIOUS
<1>7. /\ h2.byteSize = n
      /\ \A b \in 1 .. n : ByteAt(D2, S2, b) = IF a < b /\ b <= a + k THEN v ELSE ByteAt(D, S, b)
  BY <1>1, <1>6 DEF Wrote
<1>8. ASSUME NEW b \in 1 .. n
      PROVE  ByteAt(D2, S2, b) = IF b \in a + 1 .. a + k THEN v ELSE B[b]
  <2>1. b \in a + 1 .. a + k <=> a < b /\ b <= a + k
    BY <1>3, <1>6
  <2>2. CASE b \in a + 1 .. a + k
    BY <1>7, <2>1, <2>2
  <2>3. CASE b \notin a + 1 .. a + k
    <3>1. b \in 1 .. h.byteSize
      BY <1>3, <1>6, <2>3
    <3> QED
      BY <1>5, <1>7, <2>1, <2>3, <3>1
  <2> QED
    BY <2>2, <2>3
<1>9. BytesOf(D2, h2, S2) = [i \in 1 .. n |-> IF i \in a + 1 .. a + k THEN v ELSE B[i]]
  BY <1>7, <1>8 DEF BytesOf
<1>10. Position = a /\ Position' = a + k /\ Position # -1
  BY <1>1, <1>3 DEF Position
<1>11. Contents' = [i \in 1 .. (IF a + k > Len(B) THEN a + k ELSE Len(B)) |->
                      IF i \in a + 1 .. a + k THEN v ELSE B[i]]
  BY <1>2, <1>5, <1>6, <1>9
<1>12. Contents' = Promise!Overwritten(k, v)
  BY <1>2, <1>4, <1>10, <1>11 DEF Promise!Overwritten
<1>13. Position' = Position + k
  BY <1>10
<1> QED
  BY <1>10, <1>12, <1>13 DEF Promise!Write

LEMMA WritesStep ==
  ASSUME TypesOK, NEW D, NEW h, NEW S, NEW E, FileIs(D, h, S, E), ~astray, UNCHANGED astray,
         NEW k \in 1 .. BlockSize, NEW v \in Values \cup {0},
         \/ WriteHere(k, v)
         \/ ~Unmarked /\ WriteNext(k, v)
         \/ HasItsExt(file) /\ WriteNew(k, v)
  PROVE  SoundFile' /\ Promise!Write
<1>1. /\ TypesOK' /\ file.mode = "write" /\ file'.mode = "write" /\ file'.pos = file.pos + k
      /\ \E D2, h2, S2, E2 : FileIs(D2, h2, S2, E2)' /\ Wrote(D, h, S, D2, h2, S2, file.pos, k, v)
  <2>1. CASE WriteHere(k, v)
    <3>1. /\ TypesOK' /\ file.mode = "write" /\ file'.mode = "write" /\ file'.pos = file.pos + k
          /\ \E D2, h2 : FileIs(D2, h2, S, E)' /\ Wrote(D, h, S, D2, h2, S, file.pos, k, v)
      BY <2>1, WriteHereKeeps
    <3> QED
      BY <3>1
  <2>2. CASE ~Unmarked /\ WriteNext(k, v)
    <3>1. /\ TypesOK' /\ file.mode = "write" /\ file'.mode = "write" /\ file'.pos = file.pos + k
          /\ \E D2, h2 : FileIs(D2, h2, S, E)' /\ Wrote(D, h, S, D2, h2, S, file.pos, k, v)
      BY <2>2, WriteNextKeeps
    <3> QED
      BY <3>1
  <2>3. CASE HasItsExt(file) /\ WriteNew(k, v)
    BY <2>3, WriteNewKeeps
  <2> QED
    BY <2>1, <2>2, <2>3
<1>2. PICK D2, h2, S2, E2 : FileIs(D2, h2, S2, E2)' /\ Wrote(D, h, S, D2, h2, S2, file.pos, k, v)
  BY <1>1
<1>3. out' = <<>>
  BY DEF WriteHere, WriteNext, WriteNew, Writes
<1>4. Promise!Write
  BY <1>1, <1>2, <1>3, WriteStep
<1> QED
  BY <1>1, <1>2, <1>4 DEF SoundFile

LEMMA FreeStep ==
  ASSUME TypesOK, NEW D, NEW h, NEW S, NEW E, FileIs(D, h, S, E), ~astray, UNCHANGED astray,
         adfFreeFileBlocks
  PROVE  SoundFile' /\ Promise!Remove
<1>1. TypesOK' /\ FileIs(D, NoHeader, <<>>, <<>>)' /\ file' = file /\ file.mode = "closed"
  BY FreeKeeps
<1>2. Contents' = BytesOf(D, NoHeader, <<>>)
  BY <1>1, ContentsNext
<1>3. BytesOf(D, NoHeader, <<>>) = <<>>
  <2>1. NoHeader \in Headers /\ NoHeader.byteSize = 0
    BY BlankTypes DEF NoHeader
  <2>2. Len(BytesOf(D, NoHeader, <<>>)) = 0 /\ \E V : BytesOf(D, NoHeader, <<>>) \in Seq(V)
    BY <2>1, BytesLen
  <2> QED
    BY <2>2, EmptySeq
<1>4. out' = <<>>
  BY DEF adfFreeFileBlocks
<1>5. Position = -1 /\ Position' = -1
  BY <1>1 DEF Position
<1>6. Promise!Remove
  BY <1>2, <1>3, <1>4, <1>5 DEF Promise!Remove
<1> QED
  BY <1>1, <1>6 DEF SoundFile

LEMMA TruncateStep ==
  ASSUME TypesOK, NEW D, NEW h, NEW S, NEW E, FileIs(D, h, S, E), ~astray,
         NEW p \in 0 .. file.fileHdr.byteSize, adfFileTruncate(p), ~lost'
  PROVE  SoundFile' /\ Promise!Truncate
<1>1. /\ TypesOK' /\ file.mode = "write" /\ file'.mode = "write" /\ file'.pos = p /\ p < h.byteSize
      /\ \E D2, h2, S2, E2 : /\ FileIs(D2, h2, S2, E2)' /\ h2.byteSize = p
                             /\ \A b \in 1 .. p : ByteAt(D2, S2, b) = ByteAt(D, S, b)
  BY TruncateKeeps
<1>2. PICK D2, h2, S2, E2 : /\ FileIs(D2, h2, S2, E2)' /\ h2.byteSize = p
                            /\ \A b \in 1 .. p : ByteAt(D2, S2, b) = ByteAt(D, S, b)
  BY <1>1
<1>3. Contents = BytesOf(D, h, S) /\ Contents' = BytesOf(D2, h2, S2)
  BY <1>2, ContentsIs, ContentsNext
<1>4. /\ h \in Headers /\ h.byteSize \in Nat /\ file.pos \in Nat /\ p \in Nat
  <2>1. h \in Headers /\ h.byteSize \in Nat
    BY DEF FileIs, Headers
  <2> QED
    BY <2>1 DEF TypesOK, Handles
<1>5. PICK B : B = BytesOf(D, h, S)
  OBVIOUS
<1>6. PICK V : B \in Seq(V)
  BY <1>4, <1>5, BytesLen
<1>7. Len(B) = h.byteSize /\ \A i \in 1 .. h.byteSize : B[i] = ByteAt(D, S, i)
  BY <1>4, <1>5, BytesLen
<1>8. SubSeq(B, 1, p) = [i \in 1 .. p |-> B[i]]
  <2>1. 0 \in Nat /\ 0 <= p /\ p <= Len(B) /\ 0 + 1 = 1 /\ p - 0 = p /\ \A i \in 1 .. p : 0 + i = i
    BY <1>1, <1>4, <1>7
  <2>2. SubSeq(B, 0 + 1, p) = [i \in 1 .. p - 0 |-> B[0 + i]]
    BY <1>4, <1>6, <2>1, PieceOf
  <2> QED
    BY <2>1, <2>2
<1>9. \A i \in 1 .. p : B[i] = ByteAt(D2, S2, i)
  <2>1. \A i \in 1 .. p : i \in 1 .. h.byteSize
    BY <1>1, <1>4
  <2> QED
    BY <1>2, <1>7, <2>1
<1>10. BytesOf(D2, h2, S2) = SubSeq(B, 1, p)
  BY <1>2, <1>8, <1>9 DEF BytesOf
<1>11. Contents' = SubSeq(Contents, 1, p)
  BY <1>3, <1>5, <1>10
<1>12. /\ Position # -1 /\ Position' = p /\ p \in 0 .. Len(Contents) /\ p < Len(Contents)
  BY <1>1, <1>3, <1>4, <1>5, <1>7 DEF Position
<1>13. out' = <<>>
  BY DEF adfFileTruncate
<1>14. Promise!Truncate
  BY <1>11, <1>12, <1>13 DEF Promise!Truncate
<1> QED
  BY <1>1, <1>2, <1>14 DEF SoundFile

\* A refused write is a seek to where the connection is.
LEMMA FullStep ==
  ASSUME TypesOK, NEW D, NEW h, NEW S, NEW E, FileIs(D, h, S, E), ~astray, UNCHANGED astray,
         NEW k \in 1 .. BlockSize, WriteFull(k), free = {}
  PROVE  SoundFile' /\ Promise!Seek
<1>1. TypesOK' /\ FileIs(D, h, S, E)' /\ file'.pos = file.pos /\ file.mode = "write"
      /\ file'.mode = "write"
  BY FullKeeps
<1>2. Contents = BytesOf(D, h, S) /\ Contents' = BytesOf(D, h, S)
  BY <1>1, ContentsIs, ContentsNext
<1>3. out' = <<>>
  BY DEF WriteFull, Writes
<1>4. file.fileHdr = h /\ h \in Headers
  BY <1>1 DEF FileIs, Sees, Agrees
<1>5. file.pos \in Nat /\ file.pos \in 0 .. Len(Contents)
  BY <1>2, <1>4, BytesLen DEF TypesOK, Handles
<1> QED
  BY <1>1, <1>2, <1>3, <1>5 DEF SoundFile, Promise!Seek, Position

LEMMA StutterStep ==
  ASSUME FileInv, UNCHANGED varsTruncating
  PROVE  FileInv' /\ UNCHANGED <<Contents, Position, out>>
<1> USE DEF varsTruncating, vars
<1>1. Left' = Left /\ lost' = lost
  BY DEF Left, FlushedDisk
<1>2. Contents' = Contents
  <2>1. PICK l : l = Left
    OBVIOUS
  <2> QED
    BY <1>1, <2>1 DEF Contents
<1>3. ASSUME SoundFile PROVE SoundFile'
  <2>1. TypesOK'
    BY <1>3 DEF SoundFile, TypesOK
  <2>2. PICK D, h, S, E : FileIs(D, h, S, E)
    BY <1>3 DEF SoundFile
  <2>3. Sees(D, h, S, E)' <=> Sees(D, h, S, E)
    BY DEF Sees
  <2>4. FileIs(D, h, S, E)'
    BY <1>1, <2>2, <2>3 DEF FileIs
  <2> QED
    BY <2>1, <2>4 DEF SoundFile
<1> QED
  BY <1>1, <1>2, <1>3 DEF FileInv, Position

\* A step that does not damage a sound file.
LEMMA SoundStep ==
  ASSUME SoundFile, NextTruncating, ~lost, ~lost'
  PROVE  SoundFile' /\ Promise!Next
<1>1. TypesOK
  BY DEF SoundFile
<1>2. PICK D, h, S, E : FileIs(D, h, S, E)
  BY DEF SoundFile
<1>3. ASSUME ~astray, Next, lost' = Damages, UNCHANGED astray
      PROVE  SoundFile' /\ Promise!Next
  <2>1. ~Damages /\ ~astray'
    BY <1>3
  <2>2. CASE \E mode \in {"read", "write"} : adfFileOpen(mode)
    BY <1>1, <1>2, <1>3, <2>2, OpenStep DEF Promise!Next
  <2>3. CASE adfFileClose
    BY <1>1, <1>2, <2>1, <2>3, CloseStep DEF Promise!Next
  <2>4. CASE \E p \in 0 .. file.fileHdr.byteSize : adfFileSeek(p)
    <3>1. PICK p \in 0 .. file.fileHdr.byteSize : adfFileSeek(p)
      BY <2>4
    <3>2. ~(Unmarked /\ Reloads(file, p))
      BY <2>1, <3>1 DEF Damages
    <3> QED
      BY <1>1, <1>2, <1>3, <3>1, <3>2, SeekStep DEF Promise!Next
  <2>5. CASE \E k \in 1 .. BlockSize : adfFileRead(k)
    BY <1>1, <1>2, <1>3, <2>5, ReadStep DEF Promise!Next
  <2>6. CASE \E k \in 1 .. BlockSize : WriteFull(k)
    <3>1. PICK k \in 1 .. BlockSize : WriteFull(k)
      BY <2>6
    <3>2. free = {}
      BY <2>1, <3>1 DEF Damages
    <3> QED
      BY <1>1, <1>2, <1>3, <3>1, <3>2, FullStep DEF Promise!Next
  <2>7. CASE \E k \in 1 .. BlockSize, v \in Values :
                WriteHere(k, v) \/ WriteNext(k, v) \/ WriteNew(k, v)
    <3>1. PICK k \in 1 .. BlockSize, v \in Values :
                WriteHere(k, v) \/ WriteNext(k, v) \/ WriteNew(k, v)
      BY <2>7
    <3>2. \/ WriteHere(k, v)
          \/ ~Unmarked /\ WriteNext(k, v)
          \/ HasItsExt(file) /\ WriteNew(k, v)
      BY <2>1, <3>1 DEF Damages
    <3>3. v \in Values \cup {0}
      OBVIOUS
    <3> QED
      BY <1>1, <1>2, <1>3, <3>2, <3>3, WritesStep DEF Promise!Next
  <2>8. CASE adfFreeFileBlocks
    BY <1>1, <1>2, <1>3, <2>8, FreeStep DEF Promise!Next
  <2> QED
    BY <1>3, <2>2, <2>3, <2>4, <2>5, <2>6, <2>7, <2>8 DEF Next
<1>4. ASSUME ~astray, NEW p \in 0 .. file.fileHdr.byteSize, adfFileTruncate(p)
      PROVE  SoundFile' /\ Promise!Next
  BY <1>1, <1>2, <1>4, TruncateStep DEF Promise!Next
<1>5. ASSUME ~astray, NEW k \in 1 .. BlockSize, adfFileWriteFilled(k), lost' = Damages,
             UNCHANGED astray
      PROVE  SoundFile' /\ Promise!Next
  <2>1. WriteHere(k, 0) \/ (HasItsExt(file) /\ WriteNew(k, 0))
    BY <1>5 DEF adfFileWriteFilled, Damages
  <2>2. 0 \in Values \cup {0}
    OBVIOUS
  <2> QED
    BY <1>1, <1>2, <1>5, <2>1, <2>2, WritesStep DEF Promise!Next
<1>6. ASSUME adfFileClose, astray' = FALSE
      PROVE  SoundFile' /\ Promise!Next
  <2>1. ~astray'
    BY <1>6
  <2> QED
    BY <1>1, <1>2, <1>6, <2>1, CloseStep DEF Promise!Next
<1> QED
  BY <1>3, <1>4, <1>5, <1>6 DEF NextTruncating

LEMMA NextStep ==
  ASSUME FileInv, [NextTruncating]_varsTruncating
  PROVE  FileInv' /\ [lost' \/ Promise!Next]_<<Contents, Position, out>>
<1>1. CASE UNCHANGED varsTruncating
  BY <1>1, StutterStep
<1>2. CASE lost'
  BY <1>2 DEF FileInv
<1>3. CASE lost /\ NextTruncating
  BY <1>3, StutterStep DEF NextTruncating
<1>4. CASE NextTruncating /\ ~lost /\ ~lost'
  <2>1. SoundFile
    BY <1>4 DEF FileInv
  <2> QED
    BY <1>4, <2>1, SoundStep DEF FileInv
<1> QED
  BY <1>1, <1>2, <1>3, <1>4

----------------------------------------------------------------------------
(* What the invariant implies.                                              *)

LEMMA InvTypes == ASSUME SoundFile PROVE TypeOK
<1> USE FileAssumption
<1>1. TypesOK
  BY DEF SoundFile
<1>2. \A h \in Headers : HeadersOK(h)
  BY ListsAreBlockLists DEF Headers, HeadersOK
<1>3. \A b \in DataBlks : b.kind = "data" /\ DataOK(b)
  BY DEF DataBlks, DataOK
<1>4. \A b \in ExtBlks : b.kind = "ext" /\ ExtOK(b)
  BY ListsAreBlockLists DEF ExtBlks, ExtOK
<1>5. /\ file.mode \in {"closed", "read", "write"} /\ file.fileHdr \in Headers
      /\ file.currentData \in DataBlks /\ file.currentExt \in ExtBlks /\ file.nDataBlock \in Nat
      /\ file.curDataPtr \in Sectors /\ file.pos \in Nat /\ file.posInDataBlk \in 0 .. BlockSize
      /\ file.posInExtBlk \in 0 .. MaxDataBlk /\ file.currentDataBlockChanged \in BOOLEAN
      /\ file.pos <= file.fileHdr.byteSize
  BY <1>1 DEF TypesOK, Handles
<1>6. file.pos \in 0 .. file.fileHdr.byteSize
  BY <1>5 DEF Headers
<1>7. DOMAIN disk = Blocks /\ \A s \in Blocks : disk[s] \in DataBlks \cup ExtBlks
  BY <1>1 DEF TypesOK, Disks
<1>8. \A s \in Blocks : IF disk[s].kind = "data" THEN DataOK(disk[s]) ELSE ExtOK(disk[s])
  BY <1>3, <1>4, <1>7
<1>9. dosType \in DOMAIN MaxSize /\ hdr \in Headers /\ free \subseteq Blocks
  BY <1>1 DEF TypesOK
<1>10. HeadersOK(hdr) /\ HeadersOK(file.fileHdr) /\ DataOK(file.currentData) /\ ExtOK(file.currentExt)
  BY <1>2, <1>3, <1>4, <1>5, <1>9
<1> QED
  BY <1>5, <1>6, <1>7, <1>8, <1>9, <1>10 DEF TypeOK

\* The lists as reading follows them.
LEMMA InvReads ==
  ASSUME NEW D, NEW h, NEW S, NEW E, FileIs(D, h, S, E)
  PROVE  /\ D \in Disks /\ h \in Headers /\ Chain(dosType, D, h, S, E)
         /\ Left.D = D /\ Left.h = h
         /\ S \in Seq(Blocks) /\ E \in Seq(Blocks) /\ h.byteSize \in Nat
         /\ Len(S) \in Nat /\ DOMAIN S = 1 .. Len(S)
         /\ DataBlocksOf(D, h) \in Seq(Sectors) /\ BeginsWith(DataBlocksOf(D, h), S, 0)
         /\ Extens(D, h) \in Seq(Sectors) /\ BeginsWith(Extens(D, h), E, 0)
         /\ h.byteSize > 0 => S # <<>>
<1> USE FileAssumption
<1>1. D \in Disks /\ h \in Headers /\ Chain(dosType, D, h, S, E) /\ Left = [D |-> D, h |-> h]
  BY DEF FileIs
<1>2. Left.D = D /\ Left.h = h
  BY <1>1, LeftIs
<1>3. /\ Listed(dosType, D, h, S, E) /\ S \in Seq(Blocks) /\ E \in Seq(Blocks) /\ h.byteSize \in Nat
      /\ h.byteSize <= Len(S) * BlockSize
  BY <1>1 DEF Chain, Listed, Headers, Counts
<1>4. Len(S) \in Nat /\ DOMAIN S = 1 .. Len(S) /\ (S = <<>> <=> Len(S) = 0)
  BY <1>1, ChainFacts
<1>5. h.byteSize > 0 => S # <<>>
  <2>1. 0 * BlockSize = 0
    OBVIOUS
  <2> QED
    BY <1>3, <1>4, <2>1
<1>6. /\ Extens(D, h) \in Seq(Sectors) /\ BeginsWith(Extens(D, h), E, 0)
      /\ DataBlocksOf(D, h) \in Seq(Sectors) /\ BeginsWith(DataBlocksOf(D, h), S, 0)
  BY <1>1, <1>3, ListedReads
<1> QED
  BY <1>1, <1>2, <1>3, <1>4, <1>5, <1>6

LEMMA InvHandle == ASSUME FileInv PROVE HandleAgreesUnlessAstray
<1>0. SUFFICES ASSUME SoundFile PROVE astray \/ HandleAgrees
  BY DEF FileInv, HandleAgreesUnlessAstray
<1>1. SUFFICES ASSUME ~astray, file.mode # "closed", file.fileHdr.byteSize > 0
               PROVE  /\ file.nDataBlock > 0
                      /\ file.pos = (file.nDataBlock - 1) * BlockSize + file.posInDataBlk
                      /\ file.curDataPtr = At(DataBlocksOf(Left.D, Left.h), file.nDataBlock - 1)
                      /\ file.curDataPtr # 0
  BY DEF HandleAgrees
<1>2. PICK D, h, S, E : FileIs(D, h, S, E)
  BY <1>0 DEF SoundFile
<1>3. Agrees(dosType, D, h, S, E, file) /\ file.fileHdr = h
  BY <1>1, <1>2 DEF FileIs, Sees, Agrees
<1>4. /\ D \in Disks /\ h \in Headers /\ Chain(dosType, D, h, S, E)
      /\ Left.D = D /\ Left.h = h /\ S \in Seq(Blocks) /\ Len(S) \in Nat /\ DOMAIN S = 1 .. Len(S)
      /\ DataBlocksOf(D, h) \in Seq(Sectors) /\ BeginsWith(DataBlocksOf(D, h), S, 0)
      /\ S # <<>>
  BY <1>1, <1>2, <1>3, InvReads
<1>5. /\ file.nDataBlock \in DOMAIN S /\ file.curDataPtr = S[file.nDataBlock]
      /\ file.pos = (file.nDataBlock - 1) * BlockSize + file.posInDataBlk
  BY <1>3, <1>4 DEF Agrees, Holds
<1>6. S[file.nDataBlock] # 0
  BY <1>4, <1>5, ChainFacts
<1> DEFINE list == DataBlocksOf(D, h)
           c == file.nDataBlock
<1>7. /\ Len(list) \in Nat /\ Len(list) >= Len(S) /\ \A i \in 1 .. Len(S) : list[i] = S[i]
  BY <1>4, LenProperties DEF BeginsWith
<1> HIDE DEF list, c
<1>8. c \in 1 .. Len(S)
  BY <1>4, <1>5 DEF c
<1>9. At(list, c - 1) = S[c]
  <2>1. c - 1 < Len(list) /\ (c - 1) + 1 = c
    BY <1>4, <1>7, <1>8
  <2> QED
    BY <1>7, <1>8, <2>1 DEF At
<1> QED
  BY <1>4, <1>5, <1>6, <1>8, <1>9 DEF list, c

LEMMA InvChain == ASSUME SoundFile PROVE ChainAgrees
<1>1. PICK D, h, S, E : FileIs(D, h, S, E)
  BY DEF SoundFile
<1> DEFINE list == DataBlocksOf(D, h)
<1>2. /\ D \in Disks /\ h \in Headers /\ Chain(dosType, D, h, S, E)
      /\ Left.D = D /\ Left.h = h /\ S \in Seq(Blocks) /\ Len(S) \in Nat /\ DOMAIN S = 1 .. Len(S)
      /\ list \in Seq(Sectors) /\ BeginsWith(list, S, 0)
      /\ h.byteSize > 0 => S # <<>>
  BY <1>1, InvReads
<1> HIDE DEF list
<1>3. SUFFICES ASSUME dosType = "OFS", h.byteSize > 0
               PROVE  /\ h.firstData = list[1]
                      /\ \A i \in 1 .. Len(S) - 1 : AsData(D, list[i]).nextData = At(list, i)
  <2>1. Counts(h.byteSize, Len(S), Len(E)) /\ h.byteSize \in Nat /\ Len(E) \in Nat
    BY <1>2, ChainFacts DEF Chain, Listed, Headers
  <2>2. Len(S) = NbData(h.byteSize)
    BY <1>2, <2>1, CountsUnique
  <2> QED
    BY <1>2, <2>2 DEF ChainAgrees, isOFS, list
<1>4. /\ Len(list) \in Nat /\ Len(list) >= Len(S) /\ \A i \in 1 .. Len(S) : list[i] = S[i]
  BY <1>2, <1>3, LenProperties DEF BeginsWith
<1>5. /\ \A i \in DOMAIN S : AsData(D, S[i]) = D[S[i]]
      /\ \A i \in DOMAIN S : i < Len(S) => D[S[i]].nextData = S[i + 1]
      /\ h.firstData = S[1]
  <2>1. \A i \in DOMAIN S : AsData(D, S[i]) = D[S[i]]
    BY <1>2, ChainFacts
  <2>2. S # <<>>
    BY <1>2, <1>3
  <2> QED
    BY <1>2, <1>3, <2>1, <2>2 DEF Chain, Listed
<1>6. 1 \in 1 .. Len(S)
  <2>1. Len(S) # 0
    BY <1>2, <1>3, EmptySeq
  <2> QED
    BY <1>2, <2>1
<1>7. ASSUME NEW i \in 1 .. Len(S) - 1 PROVE AsData(D, list[i]).nextData = At(list, i)
  <2>1. i \in 1 .. Len(S) /\ i < Len(S) /\ i + 1 \in 1 .. Len(S) /\ i < Len(list)
    BY <1>2, <1>4
  <2>2. At(list, i) = S[i + 1]
    BY <1>4, <2>1 DEF At
  <2> QED
    BY <1>2, <1>4, <1>5, <2>1, <2>2
<1> QED
  BY <1>4, <1>5, <1>6, <1>7

LEMMA InvBlocks == ASSUME SoundFile PROVE BlocksAccounted
<1>1. PICK D, h, S, E : FileIs(D, h, S, E)
  BY DEF SoundFile
<1>2. /\ D \in Disks /\ h \in Headers /\ Chain(dosType, D, h, S, E)
      /\ Left.D = D /\ Left.h = h /\ S \in Seq(Blocks) /\ E \in Seq(Blocks) /\ h.byteSize \in Nat
      /\ DataBlocksOf(D, h) \in Seq(Sectors) /\ BeginsWith(DataBlocksOf(D, h), S, 0)
      /\ Extens(D, h) \in Seq(Sectors) /\ BeginsWith(Extens(D, h), E, 0)
  BY <1>1, InvReads
<1>3. /\ Injective(S) /\ Injective(E) /\ \A i \in DOMAIN S, j \in DOMAIN E : S[i] # E[j]
      /\ Counts(h.byteSize, Len(S), Len(E))
  BY <1>2 DEF Chain, Listed
<1>4. Len(S) = NbData(h.byteSize) /\ Len(E) = NbExtens(h.byteSize)
  BY <1>2, <1>3, CountsUnique, LenProperties
<1>5. FirstOf(NbData(h.byteSize), DataBlocksOf(D, h)) = BlocksIn(S)
  BY <1>2, <1>4, BeginningOf
<1>6. FirstOf(NbExtens(h.byteSize), Extens(D, h)) = BlocksIn(E)
  BY <1>2, <1>4, BeginningOf
<1>7. /\ Cardinality(BlocksIn(S)) = Len(S) /\ BlocksIn(S) \subseteq Blocks
      /\ Cardinality(BlocksIn(E)) = Len(E) /\ BlocksIn(E) \subseteq Blocks
  BY <1>2, <1>3, BlocksInCard
<1>8. BlocksIn(S) \cap BlocksIn(E) = {}
  BY <1>3 DEF BlocksIn
<1>9. 0 \notin BlocksIn(S)
  BY <1>7, SectorFacts
<1>10. Blocks \ free = BlocksIn(S) \cup BlocksIn(E)
  BY <1>1 DEF FileIs
<1>11. (BlocksIn(S) \cup BlocksIn(E)) \cap free = {}
  BY <1>10
<1>12. NoSharedBlocks(h, BlocksIn(S), BlocksIn(E))
  BY <1>4, <1>7, <1>8, <1>9, <1>11 DEF NoSharedBlocks
<1>13. file.mode = "closed" => Blocks \ free = GetFileBlocks(disk, hdr)
  <2>1. ASSUME file.mode = "closed" PROVE disk = D /\ hdr = h
    <3>1. Left = [D |-> D, h |-> h]
      BY <1>1 DEF FileIs
    <3> QED
      BY <2>1, <3>1, LeftIs
  <2>2. GetFileBlocks(D, h) = BlocksIn(S) \cup BlocksIn(E)
    BY <1>5, <1>6 DEF GetFileBlocks
  <2> QED
    BY <1>10, <2>1, <2>2
<1> QED
  BY <1>2, <1>5, <1>6, <1>12, <1>13 DEF BlocksAccounted

LEMMA InitPromise == ASSUME InitTruncating PROVE SoundFile /\ Promise!Init
<1>1. SoundFile /\ FileIs(disk, hdr, <<>>, <<>>)
  BY FileInit
<1>2. hdr = NoHeader /\ file = Closed /\ out = <<>>
  BY DEF InitTruncating, Init
<1>3. Contents = BytesOf(disk, hdr, <<>>)
  BY <1>1, ContentsIs
<1>4. BytesOf(disk, hdr, <<>>) = <<>>
  <2>1. NoHeader \in Headers /\ NoHeader.byteSize = 0
    BY BlankTypes DEF NoHeader
  <2>2. Len(BytesOf(disk, hdr, <<>>)) = 0 /\ \E V : BytesOf(disk, hdr, <<>>) \in Seq(V)
    BY <1>2, <2>1, BytesLen
  <2> QED
    BY <2>2, EmptySeq
<1>5. Position = -1
  BY <1>2 DEF Position, Closed
<1> QED
  BY <1>1, <1>2, <1>3, <1>4, <1>5 DEF Promise!Init

----------------------------------------------------------------------------
(* The theorems.                                                            *)

\* Whatever opens, seeks, turns of reads and writes, refused writes, truncations,
\* closes and removals follow each other, on a volume of any size: until a step
\* damages the file (AdfTruncate's Damages names them all), what closing the
\* connection would leave is a file whose header and extension blocks list the
\* right number of different blocks, no other block is in use, and the
\* connection, unless it was cut where it cannot go on, has the file's own blocks
\* in memory.
THEOREM FileInvariance == SpecTruncating => []FileInv
<1>1. InitTruncating => FileInv
  BY InitPromise DEF FileInv
<1>2. FileInv /\ [NextTruncating]_varsTruncating => FileInv'
  BY NextStep
<1> QED
  BY <1>1, <1>2, PTL DEF SpecTruncating

\* Until a step damages the file, the handle, the header and every block keep
\* their types: no position leaves the file, no list outgrows its block, no
\* pointer leaves the volume.
THEOREM FileTypes == SpecTruncating => []TypesUntilLost
<1>1. FileInv => TypesUntilLost
  BY InvTypes DEF FileInv, TypesUntilLost
<1> QED
  BY <1>1, FileInvariance, PTL

\* Position, block number and address in the handle agree with the block lists
\* after every seek, read, write, refused write and truncation ("state
\* consistency" in adfFileSeekEOF_), until a step damages the file or cuts the
\* connection where it cannot go on.
THEOREM HandleAlwaysAgrees == SpecTruncating => []HandleAgreesUnlessAstray
<1>1. FileInv => HandleAgreesUnlessAstray
  BY InvHandle
<1> QED
  BY <1>1, FileInvariance, PTL

\* Until a step damages the file, no block is in it twice, none is free, and
\* without a connection the blocks in use are those that adfFreeFileBlocks gives
\* back.
THEOREM BlocksAlwaysAccounted == SpecTruncating => []BlocksAccountedUntilLost
<1>1. FileInv => BlocksAccountedUntilLost
  BY InvBlocks DEF FileInv, BlocksAccountedUntilLost
<1> QED
  BY <1>1, FileInvariance, PTL

\* Until a step damages the file, on OFS the nextData links run through the same
\* blocks in the same order as the block lists do.
THEOREM ChainAlwaysAgrees == SpecTruncating => []ChainAgreesUntilLost
<1>1. FileInv => ChainAgreesUntilLost
  BY InvChain DEF FileInv, ChainAgreesUntilLost
<1> QED
  BY <1>1, FileInvariance, PTL

\* A file with a connection to it is a sequence of bytes with a position: every
\* step that does not damage the file is one of ByteFile or changes nothing that
\* can be seen.
THEOREM FileIsByteFile == SpecTruncating => ImplementsByteFile
<1>1. InitTruncating => Promise!Init
  BY InitPromise
<1>2. FileInv /\ [NextTruncating]_varsTruncating
        => [lost' \/ Promise!Next]_<<Contents, Position, out>>
  BY NextStep
<1> QED
  BY <1>1, <1>2, FileInvariance, PTL DEF SpecTruncating, ImplementsByteFile
=============================================================================
