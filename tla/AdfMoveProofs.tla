---------------------------- MODULE AdfMoveProofs ----------------------------
(***************************************************************************)
(* Theorems about AdfMove: trees of any size and depth, on both sides, and *)
(* any number of calls, interrupted wherever the user likes.               *)
(***************************************************************************)
EXTENDS AdfMove, SequenceTheorems, FunctionTheorems, FiniteSetTheorems, TLAPS

----------------------------------------------------------------------------
(* Paths.                                                                   *)

Paths == Seq(Names)
Pre(p, i) == SubSeq(p, 1, i)

\* The beginnings of a path.
LEMMA PreIs ==
  ASSUME NEW p \in Paths, NEW i \in 0 .. Len(p)
  PROVE  /\ Pre(p, i) \in Paths
         /\ Len(Pre(p, i)) = i
         /\ \A j \in 1 .. i : Pre(p, i)[j] = p[j]
<1>1. Len(p) \in Nat /\ p \in Seq(Names)
  BY LenProperties DEF Paths
<1>2. CASE i = 0
  <2>1. Pre(p, i) = <<>>
    BY <1>1, <1>2, SubSeqEmpty DEF Pre
  <2>2. QED BY <2>1, <1>2, EmptySeq DEF Paths
<1>3. CASE i # 0
  <2>1. 1 \in 1 .. Len(p) + 1 /\ i \in 1 - 1 .. Len(p)
    BY <1>1, <1>3
  <2>2. /\ SubSeq(p, 1, i) \in Seq(Names)
        /\ Len(SubSeq(p, 1, i)) = IF 1 <= i THEN i - 1 + 1 ELSE 0
        /\ \A j \in 1 .. i - 1 + 1 : SubSeq(p, 1, i)[j] = p[1 + j - 1]
    BY <1>1, <2>1, SubSeqProperties
  <2>3. QED BY <1>1, <1>3, <2>2 DEF Pre, Paths
<1>4. QED
  BY <1>2, <1>3

\* Paths of one length with the same names are the same.
LEMMA SamePaths ==
  ASSUME NEW p \in Paths, NEW q \in Paths, Len(p) = Len(q), \A j \in 1 .. Len(p) : p[j] = q[j]
  PROVE  p = q
  BY SeqEqual DEF Paths

LEMMA PrePre ==
  ASSUME NEW p \in Paths, NEW i \in 0 .. Len(p), NEW j \in 0 .. i
  PROVE  Pre(Pre(p, i), j) = Pre(p, j)
<1>0. Len(p) \in Nat
  BY LenProperties DEF Paths
<1>1. Pre(p, i) \in Paths /\ Len(Pre(p, i)) = i /\ j \in 0 .. Len(p)
  BY <1>0, PreIs
<1>2. /\ Pre(Pre(p, i), j) \in Paths /\ Len(Pre(Pre(p, i), j)) = j
      /\ Pre(p, j) \in Paths /\ Len(Pre(p, j)) = j
  BY <1>1, PreIs
<1>3. ASSUME NEW k \in 1 .. j PROVE Pre(Pre(p, i), j)[k] = Pre(p, j)[k]
  <2>1. Pre(Pre(p, i), j)[k] = Pre(p, i)[k]
    BY <1>1, PreIs
  <2>2. Pre(p, i)[k] = p[k]
    BY PreIs
  <2>3. Pre(p, j)[k] = p[k]
    BY <1>1, PreIs
  <2>4. QED BY <2>1, <2>2, <2>3
<1>4. QED
  BY <1>2, <1>3, SamePaths

LEMMA PreAll ==
  ASSUME NEW p \in Paths
  PROVE  Pre(p, Len(p)) = p
  BY SubSeqFull DEF Pre, Paths

\* What it is to be above another path.
LEMMA PrefixIs ==
  ASSUME NEW s \in Paths, NEW p \in Paths
  PROVE  /\ IsPrefix(s, p) <=> Len(s) <= Len(p) /\ Pre(p, Len(s)) = s
         /\ IsStrictPrefix(s, p) <=> Len(s) < Len(p) /\ Pre(p, Len(s)) = s
<1>0. Len(s) \in Nat /\ Len(p) \in Nat
  BY LenProperties DEF Paths
<1>1. SubSeq(s, 1, Len(s)) = s
  BY PreAll DEF Pre
<1>2. IsPrefix(s, p) <=> Len(s) <= Len(p) /\ Pre(p, Len(s)) = s
  BY <1>1 DEF IsPrefix, Pre
<1>3. IsStrictPrefix(s, p) <=> IsPrefix(s, p) /\ s # p
  BY DEF IsStrictPrefix
<1>4. Len(s) = Len(p) /\ Pre(p, Len(s)) = s => s = p
  BY PreAll
<1>5. QED
  BY <1>0, <1>2, <1>3, <1>4

\* A path and a name below it.
LEMMA AppendIs ==
  ASSUME NEW p \in Paths, NEW n \in Names
  PROVE  /\ Append(p, n) \in Paths /\ Len(Append(p, n)) = Len(p) + 1 /\ Append(p, n) # Root
         /\ Append(p, n)[Len(p) + 1] = n /\ Last(Append(p, n)) = n
         /\ Pre(Append(p, n), Len(p)) = p /\ Front(Append(p, n)) = p
         /\ \A i \in 0 .. Len(p) : Pre(Append(p, n), i) = Pre(p, i)
<1> DEFINE q == Append(p, n)
<1>0. Len(p) \in Nat /\ p \in Seq(Names)
  BY LenProperties DEF Paths
<1>1. /\ q \in Paths /\ Len(q) = Len(p) + 1 /\ q[Len(p) + 1] = n /\ q # <<>>
      /\ \A i \in 1 .. Len(p) : q[i] = p[i]
  BY <1>0, AppendProperties DEF Paths
<1> HIDE DEF q
<1>2. Last(q) = n
  BY <1>1 DEF Last
<1>3. ASSUME NEW i \in 0 .. Len(p) PROVE Pre(q, i) = Pre(p, i)
  <2>1. i \in 0 .. Len(q)
    BY <1>0, <1>1
  <2>2. /\ Pre(q, i) \in Paths /\ Len(Pre(q, i)) = i /\ \A j \in 1 .. i : Pre(q, i)[j] = q[j]
        /\ Pre(p, i) \in Paths /\ Len(Pre(p, i)) = i /\ \A j \in 1 .. i : Pre(p, i)[j] = p[j]
    BY <1>1, <2>1, PreIs
  <2>3. \A j \in 1 .. i : q[j] = p[j]
    BY <1>0, <1>1
  <2>4. QED BY <2>2, <2>3, SamePaths
<1>4. Pre(q, Len(p)) = p
  BY <1>0, <1>3, PreAll
<1>5. Front(q) = p
  <2>1. Len(q) - 1 = Len(p)
    BY <1>0, <1>1
  <2>2. QED BY <2>1, <1>4 DEF Front, Pre
<1>6. QED
  BY <1>1, <1>2, <1>3, <1>4, <1>5 DEF q, Root

\* The way down to a path begins with one more name.
LEMMA ChildIs ==
  ASSUME NEW d \in Paths, NEW p \in Paths, IsStrictPrefix(d, p)
  PROVE  /\ p[Len(d) + 1] \in Names /\ Len(d) + 1 \in 1 .. Len(p)
         /\ Pre(p, Len(d) + 1) = Append(d, p[Len(d) + 1])
<1> DEFINE n == p[Len(d) + 1]
           c == Pre(p, Len(d) + 1)
<1>0. Len(d) \in Nat /\ Len(p) \in Nat
  BY LenProperties DEF Paths
<1>1. Len(d) < Len(p) /\ Pre(p, Len(d)) = d
  BY PrefixIs
<1>2. Len(d) + 1 \in 1 .. Len(p) /\ Len(d) + 1 \in 0 .. Len(p) /\ Len(d) \in 0 .. Len(p)
  BY <1>0, <1>1
<1>3. n \in Names
  BY <1>2, ElementOfSeq DEF Paths
<1>4. /\ c \in Paths /\ Len(c) = Len(d) + 1 /\ \A j \in 1 .. Len(d) + 1 : c[j] = p[j]
  BY <1>2, PreIs
<1>5. /\ Append(d, n) \in Paths /\ Len(Append(d, n)) = Len(d) + 1
      /\ Append(d, n)[Len(d) + 1] = n
      /\ \A j \in 1 .. Len(d) : Append(d, n)[j] = d[j]
  BY <1>3, AppendProperties DEF Paths
<1>6. \A j \in 1 .. Len(d) : d[j] = p[j]
  BY <1>1, <1>2, PreIs
<1> HIDE DEF n, c
<1>7. \A j \in 1 .. Len(d) + 1 : c[j] = Append(d, n)[j]
  BY <1>0, <1>4, <1>5, <1>6 DEF n
<1>8. c = Append(d, n)
  BY <1>4, <1>5, <1>7, SamePaths
<1>9. QED
  BY <1>2, <1>3, <1>8 DEF n, c

----------------------------------------------------------------------------
(* Trees.                                                                   *)

\* What is above an entry is a directory, and so is everything on the way.
LEMMA TreeIs ==
  ASSUME NEW t, IsTree(t), NEW d \in Paths, NEW p \in DOMAIN t, IsStrictPrefix(d, p)
  PROVE  /\ p \in Paths /\ d \in DOMAIN t /\ t[d] = Directory
         /\ p[Len(d) + 1] \in Names
         /\ Append(d, p[Len(d) + 1]) \in DOMAIN t
<1>0. p \in Paths
  BY DEF IsTree, Paths
<1>1. Len(d) \in Nat /\ Len(p) \in Nat
  BY <1>0, LenProperties DEF Paths
<1>2. Len(d) < Len(p) /\ Pre(p, Len(d)) = d
  BY <1>0, PrefixIs
<1>3. \A i \in 0 .. Len(p) - 1 : Pre(p, i) \in DOMAIN t /\ t[Pre(p, i)] = Directory
  BY DEF IsTree, Pre
<1>4. d \in DOMAIN t /\ t[d] = Directory
  BY <1>1, <1>2, <1>3
<1>5. Pre(p, Len(d) + 1) = Append(d, p[Len(d) + 1]) /\ p[Len(d) + 1] \in Names
  BY <1>0, ChildIs
<1>6. Pre(p, Len(d) + 1) \in DOMAIN t
  <2>1. CASE Len(d) + 1 = Len(p)
    BY <1>0, <2>1, PreAll
  <2>2. CASE Len(d) + 1 # Len(p)
    BY <1>1, <1>2, <1>3, <2>2
  <2>3. QED BY <2>1, <2>2
<1>7. QED
  BY <1>0, <1>4, <1>5, <1>6

\* The end of a path, and what is in a directory.
LEMMA EndIs ==
  ASSUME NEW d \in Paths, NEW p \in Paths, IsPrefix(d, p), Len(p) = Len(d) + 1
  PROVE  p = Append(d, Last(p)) /\ Last(p) \in Names /\ Last(p) = p[Len(d) + 1]
<1>0. Len(d) \in Nat /\ Len(p) \in Nat
  BY LenProperties DEF Paths
<1>1. IsStrictPrefix(d, p)
  BY <1>0, PrefixIs
<1>2. /\ p[Len(d) + 1] \in Names
      /\ Pre(p, Len(d) + 1) = Append(d, p[Len(d) + 1])
  BY <1>1, ChildIs
<1>3. Pre(p, Len(d) + 1) = p
  BY PreAll
<1>4. Last(p) = p[Len(d) + 1]
  BY DEF Last
<1>5. QED
  BY <1>2, <1>3, <1>4

LEMMA ListedIs ==
  ASSUME NEW t, IsTree(t), NEW dev, NEW d \in Paths
  PROVE  /\ \A n \in Listed(t, dev, d) : n \in Names /\ Append(d, n) \in DOMAIN t
         /\ \A p \in DOMAIN t : IsStrictPrefix(d, p) =>
               p[Len(d) + 1] \in Listed(t, dev, d) \/ (dev = "host" /\ p[Len(d) + 1] \in Hidden)
<1>0. DOMAIN t \subseteq Paths /\ Len(d) \in Nat
  BY LenProperties DEF IsTree, Paths
<1>1. ASSUME NEW n \in Listed(t, dev, d) PROVE n \in Names /\ Append(d, n) \in DOMAIN t
  <2>1. PICK p \in InDir(t, d) : n = Last(p)
    BY DEF Listed
  <2>2. p \in DOMAIN t /\ IsStrictPrefix(d, p) /\ Len(p) = Len(d) + 1
    BY DEF InDir, Below
  <2>3. QED BY <1>0, <2>1, <2>2, EndIs DEF IsStrictPrefix
<1>2. ASSUME NEW p \in DOMAIN t, IsStrictPrefix(d, p)
      PROVE  p[Len(d) + 1] \in Listed(t, dev, d) \/ (dev = "host" /\ p[Len(d) + 1] \in Hidden)
  <2> DEFINE n == p[Len(d) + 1]
             q == Append(d, n)
  <2>1. n \in Names /\ q \in DOMAIN t
    BY <1>2, TreeIs
  <2> HIDE DEF n
  <2>2. q \in Paths /\ Len(q) = Len(d) + 1 /\ Last(q) = n /\ Pre(q, Len(d)) = d
    BY <2>1, AppendIs
  <2> HIDE DEF q
  <2>3. IsStrictPrefix(d, q)
    BY <1>0, <2>2, PrefixIs
  <2>4. q \in InDir(t, d)
    BY <2>1, <2>2, <2>3 DEF InDir, Below
  <2>5. n \in Listed(t, dev, d) \/ (dev = "host" /\ n \in Hidden)
    BY <2>2, <2>4 DEF Listed
  <2>6. QED BY <2>5 DEF n
<1>3. QED
  BY <1>1, <1>2

LEMMA PrefixTrans ==
  ASSUME NEW p \in Paths, NEW q \in Paths, NEW r \in Paths, IsPrefix(p, q), IsPrefix(q, r)
  PROVE  IsPrefix(p, r)
<1>0. Len(p) \in Nat /\ Len(q) \in Nat /\ Len(r) \in Nat
  BY LenProperties DEF Paths
<1>1. Len(p) <= Len(q) /\ Pre(q, Len(p)) = p /\ Len(q) <= Len(r) /\ Pre(r, Len(q)) = q
  BY PrefixIs
<1>2. Pre(Pre(r, Len(q)), Len(p)) = Pre(r, Len(p))
  BY <1>0, <1>1, PrePre
<1>3. Len(p) <= Len(r)
  BY <1>0, <1>1
<1>4. Pre(r, Len(p)) = p
  BY <1>1, <1>2
<1>5. QED
  BY <1>3, <1>4, PrefixIs

\* A new entry in a directory.
LEMMA AddingKeepsTree ==
  ASSUME NEW t, IsTree(t), NEW d \in DOMAIN t, t[d] = Directory, NEW n \in Names,
         Append(d, n) \notin DOMAIN t, NEW e, e = Directory \/ e.kind = "file"
  PROVE  IsTree(Added(t, Append(d, n), e))
<1> DEFINE path == Append(d, n)
           u == Added(t, path, e)
<1>0. d \in Paths /\ DOMAIN t \subseteq Paths
  BY DEF IsTree, Paths
<1>1. /\ DOMAIN u = DOMAIN t \cup {path} /\ u[path] = e
      /\ \A p \in DOMAIN t : u[p] = t[p]
  <2>1. path \notin DOMAIN t
    OBVIOUS
  <2> HIDE DEF path
  <2>2. QED BY <2>1 DEF Added
<1>2. /\ path \in Paths /\ Len(path) = Len(d) + 1 /\ Len(d) \in Nat
      /\ \A i \in 0 .. Len(d) : Pre(path, i) = Pre(d, i)
  BY <1>0, AppendIs, LenProperties DEF Paths
<1> HIDE DEF path, u
<1>3. ASSUME NEW p \in DOMAIN t, NEW i \in 0 .. Len(p) - 1
      PROVE  Pre(p, i) \in DOMAIN t /\ t[Pre(p, i)] = Directory
  BY DEF IsTree, Pre
<1>4. ASSUME NEW i \in 0 .. Len(path) - 1
      PROVE  Pre(path, i) \in DOMAIN t /\ t[Pre(path, i)] = Directory
  <2>1. i \in 0 .. Len(d) /\ Pre(path, i) = Pre(d, i)
    BY <1>2
  <2>2. CASE i = Len(d)
    BY <1>0, <2>1, <2>2, PreAll
  <2>3. CASE i # Len(d)
    BY <1>2, <1>3, <2>1, <2>3
  <2>4. QED BY <2>2, <2>3
<1>5. ASSUME NEW p \in DOMAIN u
      PROVE  /\ u[p] = Directory \/ u[p].kind = "file"
             /\ \A i \in 0 .. Len(p) - 1 : Pre(p, i) \in DOMAIN u /\ u[Pre(p, i)] = Directory
  <2>1. CASE p = path
    BY <1>1, <1>4, <2>1
  <2>2. CASE p # path
    <3>1. p \in DOMAIN t
      BY <1>1, <2>2
    <3>2. t[p] = Directory \/ t[p].kind = "file"
      BY <3>1 DEF IsTree
    <3>3. QED BY <1>1, <1>3, <3>1, <3>2
  <2>3. QED BY <2>1, <2>2
<1>6. DOMAIN u \subseteq Seq(Names) /\ Root \in DOMAIN u /\ u[Root] = Directory
  BY <1>0, <1>1, <1>2 DEF IsTree, Paths
<1>7. IsTree(u)
  BY <1>5, <1>6 DEF IsTree, Pre
<1>8. QED
  BY <1>7 DEF u, path

\* An entry removed with everything below it.
Cut(t, s) == [p \in DOMAIN t \ ({s} \cup Below(t, s)) |-> t[p]]

LEMMA CuttingKeepsTree ==
  ASSUME NEW t, IsTree(t), NEW s \in Paths, s # Root
  PROVE  /\ IsTree(Cut(t, s))
         /\ DOMAIN Cut(t, s) = {p \in DOMAIN t : ~IsPrefix(s, p)}
         /\ \A p \in DOMAIN Cut(t, s) : Cut(t, s)[p] = t[p]
<1> DEFINE u == Cut(t, s)
<1>0. DOMAIN t \subseteq Paths /\ Root \in Paths
  BY EmptySeq DEF IsTree, Paths, Root
<1>1. /\ DOMAIN u = DOMAIN t \ ({s} \cup Below(t, s))
      /\ \A p \in DOMAIN u : u[p] = t[p]
  BY DEF Cut
<1>2. IsPrefix(s, s)
  BY PrefixIs, PreAll, LenProperties DEF Paths
<1>3. DOMAIN u = {p \in DOMAIN t : ~IsPrefix(s, p)}
  BY <1>1, <1>2 DEF Below, IsStrictPrefix
<1> HIDE DEF u
<1>4. ASSUME NEW p \in DOMAIN u, NEW i \in 0 .. Len(p) - 1
      PROVE  Pre(p, i) \in DOMAIN u /\ u[Pre(p, i)] = Directory
  <2>1. p \in DOMAIN t /\ p \in Paths /\ Len(p) \in Nat /\ i \in 0 .. Len(p) /\ Len(s) \in Nat
    BY <1>0, <1>3, LenProperties DEF Paths
  <2>2. Pre(p, i) \in DOMAIN t /\ t[Pre(p, i)] = Directory
    BY <2>1 DEF IsTree, Pre
  <2>3. ASSUME IsPrefix(s, Pre(p, i)) PROVE FALSE
    <3>1. Pre(p, i) \in Paths /\ Len(Pre(p, i)) = i
      BY <2>1, PreIs
    <3>2. Len(s) <= i /\ Pre(Pre(p, i), Len(s)) = s
      BY <2>3, <3>1, PrefixIs
    <3>3. Len(s) \in 0 .. i
      BY <2>1, <3>2
    <3>4. Pre(p, Len(s)) = s
      BY <2>1, <3>2, <3>3, PrePre
    <3>5. IsPrefix(s, p)
      BY <2>1, <3>2, <3>4, PrefixIs
    <3>6. QED BY <1>3, <3>5
  <2>4. QED BY <1>1, <1>3, <2>2, <2>3
<1>5. Root \in DOMAIN u
  <2>1. ~IsPrefix(s, Root)
    <3>1. Len(Root) = 0 /\ Len(s) \in Nat
      BY EmptySeq, LenProperties DEF Root, Paths
    <3>2. Len(s) # 0
      BY EmptySeq DEF Root, Paths
    <3>3. QED BY <1>0, <3>1, <3>2, PrefixIs
  <2>2. QED BY <1>3, <2>1 DEF IsTree
<1>6. \A p \in DOMAIN u : u[p] = Directory \/ u[p].kind = "file"
  BY <1>1, <1>3 DEF IsTree
<1>7. IsTree(u)
  BY <1>0, <1>1, <1>3, <1>4, <1>5, <1>6 DEF IsTree, Pre, Paths
<1>8. QED
  BY <1>1, <1>3, <1>7 DEF u

----------------------------------------------------------------------------
(* The stack.                                                               *)

Requests == [delete : BOOLEAN, from : Devices, to : Devices, src : Paths, dst : Paths,
             bare : {"neither", "source", "destination"}]
Activations == [src : Paths, dst : Paths, at : {"start", "items", "remove"},
                into : Paths, todo : SUBSET Names]

\* The stack without its top, with another one on top, and one more on top of that.
Popped(S) == Front(S)
Replaced(S, f) == Append(Front(S), f)
Pushed(S, f, g) == Append(Replaced(S, f), g)

LEMMA TopPopped ==
  ASSUME NEW S \in Seq(Activations), S # <<>>
  PROVE  /\ Len(S) \in Nat \ {0} /\ Last(S) = S[Len(S)] /\ Last(S) \in Activations
         /\ Popped(S) \in Seq(Activations) /\ Len(Popped(S)) = Len(S) - 1
         /\ \A i \in 1 .. Len(S) - 1 : Popped(S)[i] = S[i]
<1> DEFINE N == Len(S) - 1
           F == SubSeq(S, 1, N)
<1>0. Len(S) \in Nat \ {0} /\ N \in Nat /\ Len(S) = N + 1
  BY EmptySeq
<1>1. Popped(S) = F
  BY DEF Popped, Front
<1>2. Last(S) = S[Len(S)] /\ Last(S) \in Activations
  <2>1. Len(S) \in 1 .. Len(S)
    BY <1>0
  <2>2. QED BY <2>1, ElementOfSeq DEF Last
<1> HIDE DEF N
<1>3. CASE N = 0
  <2>1. F = <<>>
    BY <1>3, SubSeqEmpty
  <2>2. QED BY <1>0, <1>1, <1>2, <1>3, <2>1, EmptySeq DEF N
<1>4. CASE N # 0
  <2>1. 1 \in 1 .. Len(S) + 1 /\ N \in 1 - 1 .. Len(S)
    BY <1>0
  <2>2. /\ F \in Seq(Activations)
        /\ Len(F) = IF 1 <= N THEN N - 1 + 1 ELSE 0
        /\ \A i \in 1 .. N - 1 + 1 : F[i] = S[1 + i - 1]
    BY <2>1, SubSeqProperties
  <2> HIDE DEF F
  <2>3. Len(F) = N
    BY <1>0, <1>4, <2>2
  <2>4. ASSUME NEW i \in 1 .. N PROVE F[i] = S[i]
    <3>1. i \in 1 .. N - 1 + 1 /\ 1 + i - 1 = i
      BY <1>0
    <3>2. QED BY <2>2, <3>1
  <2>5. QED BY <1>0, <1>1, <1>2, <2>2, <2>3, <2>4 DEF N
<1>5. QED
  BY <1>3, <1>4

LEMMA TopReplaced ==
  ASSUME NEW S \in Seq(Activations), S # <<>>, NEW f \in Activations
  PROVE  /\ Replaced(S, f) \in Seq(Activations) /\ Replaced(S, f) # <<>>
         /\ Len(Replaced(S, f)) = Len(S)
         /\ Replaced(S, f)[Len(S)] = f /\ Last(Replaced(S, f)) = f
         /\ \A i \in 1 .. Len(S) - 1 : Replaced(S, f)[i] = S[i]
<1> DEFINE F == Popped(S)
           R == Replaced(S, f)
<1>1. /\ Len(S) \in Nat \ {0} /\ F \in Seq(Activations) /\ Len(F) = Len(S) - 1
      /\ \A i \in 1 .. Len(S) - 1 : F[i] = S[i]
  BY TopPopped
<1>2. R = Append(F, f)
  BY DEF Replaced, Popped
<1> HIDE DEF F, R
<1>3. /\ R \in Seq(Activations) /\ R # <<>> /\ Len(R) = Len(F) + 1
      /\ R[Len(F) + 1] = f
      /\ \A i \in 1 .. Len(F) : R[i] = F[i]
  BY <1>1, <1>2, AppendProperties
<1>4. Len(R) = Len(S) /\ R[Len(S)] = f
  BY <1>1, <1>3
<1>5. Last(R) = f
  BY <1>4 DEF Last
<1>6. QED
  BY <1>1, <1>3, <1>4, <1>5 DEF R

LEMMA TopPushed ==
  ASSUME NEW S \in Seq(Activations), S # <<>>, NEW f \in Activations, NEW g \in Activations
  PROVE  /\ Pushed(S, f, g) \in Seq(Activations) /\ Pushed(S, f, g) # <<>>
         /\ Len(Pushed(S, f, g)) = Len(S) + 1
         /\ Pushed(S, f, g)[Len(S)] = f /\ Pushed(S, f, g)[Len(S) + 1] = g
         /\ Last(Pushed(S, f, g)) = g
         /\ \A i \in 1 .. Len(S) - 1 : Pushed(S, f, g)[i] = S[i]
<1> DEFINE R == Replaced(S, f)
           P == Pushed(S, f, g)
<1>1. /\ Len(S) \in Nat \ {0}
      /\ R \in Seq(Activations) /\ Len(R) = Len(S) /\ R[Len(S)] = f
      /\ \A i \in 1 .. Len(S) - 1 : R[i] = S[i]
  BY TopPopped, TopReplaced
<1>2. P = Append(R, g)
  BY DEF Pushed
<1> HIDE DEF R, P
<1>3. /\ P \in Seq(Activations) /\ P # <<>> /\ Len(P) = Len(R) + 1
      /\ P[Len(R) + 1] = g
      /\ \A i \in 1 .. Len(R) : P[i] = R[i]
  BY <1>1, <1>2, AppendProperties
<1>4. Len(P) = Len(S) + 1 /\ P[Len(S) + 1] = g /\ P[Len(S)] = f
  BY <1>1, <1>3
<1>5. Last(P) = g
  BY <1>3 DEF Last
<1>6. \A i \in 1 .. Len(S) - 1 : P[i] = S[i]
  BY <1>1, <1>3
<1>7. QED
  BY <1>3, <1>4, <1>5, <1>6 DEF P

----------------------------------------------------------------------------
(* The inductive invariant: what the stack S of a call c says about the     *)
(* file systems G.                                                          *)

RequestOK(c) ==
    /\ c \in Requests
    /\ c.from = "volume" \/ c.to = "volume"
    /\ c.from = "host" => c.src # Root

\* An activation's source is below that of the one beneath it.
Nested(c, S) ==
    \A i \in 1 .. Len(S) :
        /\ Len(S[i].src) = Len(c.src) + i - 1
        /\ \A j \in i .. Len(S) : IsPrefix(S[i].src, S[j].src)

\* All but the one on top go through their items, and have taken that one off
\* their list.
Waiting(S) ==
    \A i \in 1 .. Len(S) - 1 : S[i].at = "items" /\ Last(S[i + 1].src) \notin S[i].todo

\* Source and destination of an activation are there, and what it has to do.
SourceThere(t, f) ==
    /\ f.src \in DOMAIN t
    /\ f.at = "items" => t[f.src] = Directory /\ \A n \in f.todo : Append(f.src, n) \in DOMAIN t
TargetThere(t, f) ==
    /\ f.dst \in DOMAIN t /\ t[f.dst] = Directory
    /\ f.at = "items" => f.into \in DOMAIN t /\ t[f.into] = Directory

\* In a directory that is being moved there is nothing left but what is hidden,
\* what is still to be moved, and what is being moved.
LeftIn(c, S, i, n) ==
    \/ c.from = "host" /\ n \in Hidden
    \/ S[i].at = "items" /\ n \in S[i].todo
    \/ i < Len(S) /\ n = Last(S[i + 1].src)
NothingElse(c, t, S) ==
    \A i \in 1 .. Len(S) : S[i].at # "start" =>
        \A p \in DOMAIN t : IsStrictPrefix(S[i].src, p) => LeftIn(c, S, i, p[Len(S[i].src) + 1])

\* Of a move within the volume nothing below the source gets further than its
\* refusal.
Alone(c, S) == c.delete /\ c.from = c.to /\ Len(S) > 1 => Len(S) = 2 /\ S[2].at = "start"

Stacked(c, G, S) ==
    /\ Nested(c, S) /\ Waiting(S) /\ Alone(c, S)
    /\ \A i \in 1 .. Len(S) : SourceThere(G[c.from], S[i]) /\ TargetThere(G[c.to], S[i])
    /\ c.delete => NothingElse(c, G[c.from], S)

Trees(G) == DOMAIN G = Devices /\ \A d \in Devices : IsTree(G[d])

Made(G, dev, path, e) == [G EXCEPT ![dev] = Added(@, path, e)]
Grows(t, u) == DOMAIN t \subseteq DOMAIN u /\ \A p \in DOMAIN t : u[p] = t[p]
Grown(G, G2, dev, path, e) ==
    /\ Trees(G2) /\ \A d \in Devices : Grows(G[d], G2[d])
    /\ path \notin DOMAIN G[dev] /\ path \in DOMAIN G2[dev] /\ G2[dev][path] = e
    /\ \A d \in Devices \ {dev} : G2[d] = G[d]

\* An activation begins, and makes the copy of its entry in the directory dst.
LEMMA MakingGrows ==
  ASSUME NEW G, Trees(G), NEW to \in Devices, NEW d \in DOMAIN G[to], G[to][d] = Directory,
         NEW n \in Names, NEW e, e = Directory \/ e.kind = "file",
         NEW path, path = Append(d, n), path \notin DOMAIN G[to]
  PROVE  Grown(G, Made(G, to, path, e), to, path, e)
<1> DEFINE G2 == Made(G, to, path, e)
<1>1. /\ DOMAIN G2 = Devices /\ G2[to] = Added(G[to], path, e)
      /\ \A dev \in Devices \ {to} : G2[dev] = G[dev]
  BY DEF Trees, Made
<1> HIDE DEF G2
<1>2. IsTree(G[to]) /\ \A dev \in Devices : IsTree(G[dev])
  BY DEF Trees
<1>3. IsTree(Added(G[to], path, e))
  BY <1>2, AddingKeepsTree
<1>4. /\ DOMAIN Added(G[to], path, e) = DOMAIN G[to] \cup {path}
      /\ Added(G[to], path, e)[path] = e
      /\ \A p \in DOMAIN G[to] : Added(G[to], path, e)[p] = G[to][p]
  <2> DEFINE T == G[to]
             A == Added(T, path, e)
  <2>1. A = [p \in DOMAIN T \cup {path} |-> IF p = path THEN e ELSE T[p]]
    BY DEF Added
  <2>2. path \notin DOMAIN T
    OBVIOUS
  <2> HIDE DEF T, A
  <2>3. DOMAIN A = DOMAIN T \cup {path} /\ A[path] = e /\ \A p \in DOMAIN T : A[p] = T[p]
    BY <2>1, <2>2
  <2>4. QED BY <2>3 DEF T, A
<1>5. Trees(G2)
  BY <1>1, <1>2, <1>3 DEF Trees
<1>6. ASSUME NEW dev \in Devices PROVE Grows(G[dev], G2[dev])
  BY <1>1, <1>4 DEF Grows
<1>7. QED
  BY <1>1, <1>4, <1>5, <1>6 DEF G2, Grown

LEMMA MakingKeepsStack ==
  ASSUME NEW c, RequestOK(c), NEW G, Trees(G),
         NEW G2, NEW path, NEW e, Grown(G, G2, c.to, path, e),
         NEW S \in Seq(Activations), S # <<>>, Stacked(c, G, S),
         c.delete /\ c.from = c.to => Len(S) = 1,
         NEW g \in Activations, g.src = Last(S).src, g.dst = Last(S).dst,
         \/ /\ g.at = "items" /\ G[c.from][g.src] = Directory
            /\ g.into = path /\ e = Directory
            /\ g.todo = Listed(G2[c.from], c.from, g.src)
         \/ g.at = "remove" /\ G[c.from][g.src].kind = "file"
  PROVE  Stacked(c, G2, Replaced(S, g))
<1> DEFINE K == Len(S)
           R == Replaced(S, g)
           F == G[c.from]
           F2 == G2[c.from]
           T == G[c.to]
           T2 == G2[c.to]
<1>1. /\ K \in Nat \ {0} /\ Last(S) = S[K]
      /\ R \in Seq(Activations) /\ Len(R) = K /\ R[K] = g
      /\ \A i \in 1 .. K - 1 : R[i] = S[i]
  BY TopPopped, TopReplaced
<1>2. c.from \in Devices /\ c.to \in Devices
  BY DEF RequestOK, Requests
<1>3. /\ IsTree(F) /\ IsTree(F2) /\ IsTree(T2) /\ Grows(F, F2) /\ Grows(T, T2)
      /\ c.from # c.to => F2 = F
  BY <1>2 DEF Trees, Grown
<1>4. /\ Nested(c, S) /\ Waiting(S) /\ Alone(c, S)
      /\ \A i \in 1 .. K : SourceThere(F, S[i]) /\ TargetThere(T, S[i])
      /\ c.delete => NothingElse(c, F, S)
  BY DEF Stacked
<1> HIDE DEF K, R, F, F2, T, T2
<1>5. /\ \A i \in 1 .. K : R[i].src = S[i].src /\ R[i].src \in Paths
      /\ \A i \in 1 .. K - 1 : R[i] = S[i]
  <2>1. \A i \in 1 .. K : S[i] \in Activations
    BY ElementOfSeq DEF K
  <2>2. ASSUME NEW i \in 1 .. K PROVE R[i].src = S[i].src
    <3>1. CASE i = K
      BY <1>1, <3>1
    <3>2. CASE i # K
      BY <1>1, <3>2
    <3>3. QED BY <3>1, <3>2
  <2>3. QED BY <1>1, <2>1, <2>2 DEF Activations
<1>6. Nested(c, R)
  <2>1. \A i \in 1 .. K : Len(S[i].src) = Len(c.src) + i - 1 /\ \A j \in i .. K : IsPrefix(S[i].src, S[j].src)
    BY <1>4 DEF Nested, K
  <2>2. \A i \in 1 .. K : \A j \in i .. K : j \in 1 .. K
    BY <1>1
  <2>3. \A i \in 1 .. K : Len(R[i].src) = Len(c.src) + i - 1 /\ \A j \in i .. K : IsPrefix(R[i].src, R[j].src)
    BY <1>5, <2>1, <2>2
  <2>4. QED BY <1>1, <2>3 DEF Nested
<1>7. Waiting(R)
  <2>1. \A i \in 1 .. K - 1 : S[i].at = "items" /\ Last(S[i + 1].src) \notin S[i].todo
    BY <1>4 DEF Waiting, K
  <2>2. \A i \in 1 .. K - 1 : i + 1 \in 1 .. K
    BY <1>1
  <2>3. \A i \in 1 .. K - 1 : R[i].at = "items" /\ Last(R[i + 1].src) \notin R[i].todo
    BY <1>5, <2>1, <2>2
  <2>4. QED BY <1>1, <2>3 DEF Waiting
<1>8. Alone(c, R)
  BY <1>1 DEF Alone, K
<1>9. ASSUME NEW i \in 1 .. K PROVE SourceThere(F2, R[i]) /\ TargetThere(T2, R[i])
  <2>1. SourceThere(F, S[i]) /\ TargetThere(T, S[i])
    BY <1>4
  <2>2. CASE i # K
    <3>1. R[i] = S[i]
      BY <1>1, <2>2
    <3>2. QED BY <1>3, <2>1, <3>1 DEF SourceThere, TargetThere, Grows
  <2>3. CASE i = K
    <3>1. R[i] = g /\ g.src = S[i].src /\ g.dst = S[i].dst /\ g.src \in Paths
      BY <1>1, <2>3 DEF Activations
    <3>2. g.src \in DOMAIN F2 /\ F2[g.src] = F[g.src] /\ g.dst \in DOMAIN T2 /\ T2[g.dst] = Directory
      BY <1>3, <2>1, <3>1 DEF SourceThere, TargetThere, Grows
    <3>3. g.at = "items" =>
             F2[g.src] = Directory /\ \A n \in g.todo : Append(g.src, n) \in DOMAIN F2
      BY <1>3, <3>1, <3>2, ListedIs DEF F, F2
    <3>4. g.at = "items" => g.into \in DOMAIN T2 /\ T2[g.into] = Directory
      BY DEF T2, Grown
    <3>5. QED BY <3>1, <3>2, <3>3, <3>4 DEF SourceThere, TargetThere
  <2>4. QED BY <2>2, <2>3
<1>10. ASSUME c.delete PROVE NothingElse(c, F2, R)
  <2>1. SUFFICES ASSUME NEW i \in 1 .. K, R[i].at # "start",
                        NEW p \in DOMAIN F2, IsStrictPrefix(R[i].src, p)
                 PROVE  LeftIn(c, R, i, p[Len(R[i].src) + 1])
    BY <1>1 DEF NothingElse
  <2>2. CASE i # K
    <3>1. F2 = F /\ i \in 1 .. K - 1 /\ i + 1 \in 1 .. K
      BY <1>1, <1>3, <1>10, <2>2 DEF K
    <3>2. R[i] = S[i] /\ R[i + 1].src = S[i + 1].src
      BY <1>5, <3>1
    <3>3. LeftIn(c, S, i, p[Len(S[i].src) + 1])
      BY <1>4, <1>10, <2>1, <3>1, <3>2 DEF NothingElse, K
    <3>4. QED BY <1>1, <3>2, <3>3 DEF LeftIn, K
  <2>3. CASE i = K
    <3>1. R[i] = g /\ g.src \in Paths
      BY <1>1, <2>3 DEF Activations
    <3>2. CASE g.at = "items"
      <4>1. \/ p[Len(g.src) + 1] \in Listed(F2, c.from, g.src)
            \/ c.from = "host" /\ p[Len(g.src) + 1] \in Hidden
        BY <1>3, <2>1, <3>1, ListedIs
      <4>2. QED BY <3>1, <3>2, <4>1 DEF LeftIn, F2
    <3>3. CASE g.at = "remove"
      <4>1. F2[g.src] = Directory
        BY <1>3, <2>1, <3>1, TreeIs
      <4>2. F2[g.src] = F[g.src]
        BY <1>1, <1>3, <1>4, <2>3, <3>1 DEF Grows, SourceThere
      <4>3. F[g.src].kind = "file"
        BY <3>3 DEF F
      <4>4. QED BY <4>1, <4>2, <4>3 DEF Directory
    <3>4. QED BY <2>1, <3>1, <3>2, <3>3
  <2>4. QED BY <2>2, <2>3
<1>11. QED
  BY <1>1, <1>6, <1>7, <1>8, <1>9, <1>10 DEF Stacked, R, F2, T2

\* The next item of a directory.
LEMMA ItemKeepsStack ==
  ASSUME NEW c, RequestOK(c), NEW G, Trees(G),
         NEW S \in Seq(Activations), S # <<>>, Stacked(c, G, S),
         NEW f, f = Last(S), f.at = "items", NEW n \in f.todo,
         NEW f2 \in Activations, f2.src = f.src, f2.dst = f.dst, f2.at = "items",
         f2.into = f.into, f2.todo = f.todo \ {n},
         NEW g \in Activations, g.src = Append(f.src, n), g.dst = f.into, g.at = "start"
  PROVE  Stacked(c, G, Pushed(S, f2, g))
<1> DEFINE K == Len(S)
           P == Pushed(S, f2, g)
           F == G[c.from]
           T == G[c.to]
           s == Append(f.src, n)
<1>1. K \in Nat \ {0} /\ f = S[K] /\ f \in Activations
  BY TopPopped
<1>2. n \in Names /\ f.src \in Paths /\ f.into \in Paths /\ f.dst \in Paths /\ f.todo \subseteq Names
  BY <1>1 DEF Activations
<1>3. /\ f2.src = f.src /\ f2.dst = f.dst /\ f2.at = "items"
      /\ f2.into = f.into /\ f2.todo = f.todo \ {n}
  OBVIOUS
<1>4. /\ s \in Paths /\ Len(s) = Len(f.src) + 1 /\ Last(s) = n
      /\ Pre(s, Len(f.src)) = f.src
  BY <1>2, AppendIs
<1> HIDE DEF s
<1>5. g.src = s /\ g.dst = f.into /\ g.at = "start"
  BY DEF s
<1>6. /\ P \in Seq(Activations) /\ Len(P) = K + 1 /\ P[K] = f2 /\ P[K + 1] = g
      /\ \A i \in 1 .. K - 1 : P[i] = S[i]
  BY TopPushed
<1>7. c.from \in Devices /\ c.to \in Devices
  BY DEF RequestOK, Requests
<1>8. /\ Nested(c, S) /\ Waiting(S) /\ Alone(c, S)
      /\ \A i \in 1 .. K : SourceThere(F, S[i]) /\ TargetThere(T, S[i])
      /\ c.delete => NothingElse(c, F, S)
  BY DEF Stacked
<1> HIDE DEF K, P, F, T
<1>9. \A i \in 1 .. K : S[i] \in Activations
  BY ElementOfSeq DEF K
<1>10. \A i \in 1 .. K : P[i].src = S[i].src /\ P[i].src \in Paths
  <2>1. ASSUME NEW i \in 1 .. K PROVE P[i].src = S[i].src
    <3>1. CASE i = K
      BY <1>1, <1>3, <1>6, <3>1
    <3>2. CASE i # K
      BY <1>1, <1>6, <3>2
    <3>3. QED BY <3>1, <3>2
  <2>2. QED BY <1>9, <2>1 DEF Activations
<1>11. Nested(c, P)
  <2>1. \A i \in 1 .. K : Len(S[i].src) = Len(c.src) + i - 1 /\ \A j \in i .. K : IsPrefix(S[i].src, S[j].src)
    BY <1>8 DEF Nested, K
  <2>2. Len(f.src) \in Nat /\ IsPrefix(f.src, s)
    <3>1. Len(f.src) \in Nat /\ Len(f.src) <= Len(s)
      BY <1>2, <1>4, LenProperties DEF Paths
    <3>2. QED BY <1>2, <1>4, <3>1, PrefixIs
  <2>3. IsPrefix(s, s)
    BY <1>4, PreAll, PrefixIs, LenProperties DEF Paths
  <2>4. ASSUME NEW i \in 1 .. K + 1, NEW j \in i .. K + 1 PROVE IsPrefix(P[i].src, P[j].src)
    <3>1. CASE j # K + 1
      <4>1. i \in 1 .. K /\ j \in 1 .. K /\ j \in i .. K
        BY <1>1, <3>1
      <4>2. QED BY <1>10, <2>1, <4>1
    <3>2. CASE j = K + 1 /\ i = K + 1
      BY <1>5, <1>6, <2>3, <3>2
    <3>3. CASE j = K + 1 /\ i # K + 1
      <4>1. i \in 1 .. K /\ K \in i .. K
        BY <1>1, <3>3
      <4>2. IsPrefix(S[i].src, f.src) /\ S[i].src \in Paths /\ P[i].src = S[i].src
        BY <1>1, <1>10, <2>1, <4>1
      <4>3. IsPrefix(S[i].src, s)
        BY <1>2, <1>4, <2>2, <4>2, PrefixTrans
      <4>4. QED BY <1>5, <1>6, <3>3, <4>2, <4>3
    <3>4. QED BY <3>1, <3>2, <3>3
  <2>5. ASSUME NEW i \in 1 .. K + 1 PROVE Len(P[i].src) = Len(c.src) + i - 1
    <3>1. CASE i # K + 1
      <4>1. i \in 1 .. K
        BY <1>1, <3>1
      <4>2. QED BY <1>10, <2>1, <4>1
    <3>2. CASE i = K + 1
      <4>1. K \in 1 .. K /\ Len(c.src) \in Nat
        BY <1>1, LenProperties DEF RequestOK, Requests, Paths
      <4>2. Len(f.src) = Len(c.src) + K - 1
        BY <1>1, <2>1, <4>1
      <4>3. Len(P[i].src) = Len(f.src) + 1
        BY <1>4, <1>5, <1>6, <3>2
      <4>4. Len(f.src) + 1 = Len(c.src) + (K + 1) - 1
        BY <1>1, <4>1, <4>2
      <4>5. QED BY <3>2, <4>3, <4>4
    <3>3. QED BY <3>1, <3>2
  <2>6. QED BY <1>6, <2>4, <2>5 DEF Nested
<1>12. Waiting(P)
  <2>1. \A i \in 1 .. K - 1 : S[i].at = "items" /\ Last(S[i + 1].src) \notin S[i].todo
    BY <1>8 DEF Waiting, K
  <2>2. ASSUME NEW i \in 1 .. K PROVE P[i].at = "items" /\ Last(P[i + 1].src) \notin P[i].todo
    <3>1. CASE i # K
      <4>1. i \in 1 .. K - 1 /\ i + 1 \in 1 .. K
        BY <1>1, <3>1
      <4>2. QED BY <1>6, <1>10, <2>1, <4>1
    <3>2. CASE i = K
      BY <1>3, <1>4, <1>5, <1>6, <3>2
    <3>3. QED BY <3>1, <3>2
  <2>3. Len(P) - 1 = K
    BY <1>1, <1>6
  <2>4. QED BY <2>2, <2>3 DEF Waiting
<1>13. Alone(c, P)
  <2>1. SUFFICES ASSUME c.delete, c.from = c.to PROVE Len(P) = 2 /\ P[2].at = "start"
    BY DEF Alone
  <2>2. K = 1
    <3>1. ASSUME K > 1 PROVE FALSE
      BY <1>1, <1>8, <2>1, <3>1 DEF Alone, K
    <3>2. QED BY <1>1, <3>1
  <2>3. QED BY <1>5, <1>6, <2>2
<1>14. ASSUME NEW i \in 1 .. K + 1 PROVE SourceThere(F, P[i]) /\ TargetThere(T, P[i])
  <2>0. K \in 1 .. K
    BY <1>1
  <2>1. /\ f.src \in DOMAIN F /\ F[f.src] = Directory
        /\ \A m \in f.todo : Append(f.src, m) \in DOMAIN F
        /\ f.dst \in DOMAIN T /\ T[f.dst] = Directory
        /\ f.into \in DOMAIN T /\ T[f.into] = Directory
    BY <1>1, <1>8, <2>0 DEF SourceThere, TargetThere
  <2>2. CASE i \in 1 .. K - 1
    <3>1. i \in 1 .. K
      BY <1>1, <2>2
    <3>2. QED BY <1>6, <1>8, <2>2, <3>1
  <2>3. CASE i = K
    BY <1>3, <1>6, <2>1, <2>3 DEF SourceThere, TargetThere
  <2>4. CASE i = K + 1
    <3>1. s \in DOMAIN F
      BY <2>1 DEF s
    <3>2. QED BY <1>5, <1>6, <2>1, <2>4, <3>1 DEF SourceThere, TargetThere
  <2>5. QED BY <1>1, <2>2, <2>3, <2>4
<1>15. ASSUME c.delete PROVE NothingElse(c, F, P)
  <2>1. SUFFICES ASSUME NEW i \in 1 .. K + 1, P[i].at # "start",
                        NEW p \in DOMAIN F, IsStrictPrefix(P[i].src, p)
                 PROVE  LeftIn(c, P, i, p[Len(P[i].src) + 1])
    BY <1>6 DEF NothingElse
  <2>2. i \in 1 .. K
    BY <1>1, <1>5, <1>6, <2>1
  <2>3. S[i].src = P[i].src /\ S[i].at # "start"
    <3>1. CASE i = K
      BY <1>1, <1>3, <1>6, <3>1
    <3>2. CASE i # K
      BY <1>1, <1>6, <2>1, <2>2, <3>2
    <3>3. QED BY <3>1, <3>2
  <2>4. LeftIn(c, S, i, p[Len(P[i].src) + 1])
    BY <1>8, <1>15, <2>1, <2>2, <2>3 DEF NothingElse, K
  <2> DEFINE m == p[Len(P[i].src) + 1]
  <2> HIDE DEF m
  <2>5. CASE i # K
    <3>1. i \in 1 .. K - 1 /\ i + 1 \in 1 .. K /\ i < Len(P)
      BY <1>1, <1>6, <2>2, <2>5
    <3>2. P[i] = S[i] /\ P[i + 1].src = S[i + 1].src
      BY <1>6, <1>10, <3>1
    <3>3. LeftIn(c, S, i, m) => LeftIn(c, P, i, m)
      BY <3>1, <3>2 DEF LeftIn
    <3>4. QED BY <2>4, <3>3 DEF m
  <2>6. CASE i = K
    <3>1. (c.from = "host" /\ m \in Hidden) \/ m \in f.todo
      BY <1>1, <2>4, <2>6 DEF LeftIn, m, K
    <3>2. P[K + 1].src = s
      BY <1>5, <1>6
    <3>3. K < Len(P)
      BY <1>1, <1>6
    <3>4. LeftIn(c, P, K, m)
      BY <1>3, <1>4, <1>6, <3>1, <3>2, <3>3 DEF LeftIn
    <3>5. QED BY <2>6, <3>4 DEF m
  <2>7. QED BY <2>5, <2>6
<1>16. QED
  BY <1>6, <1>11, <1>12, <1>13, <1>14, <1>15 DEF Stacked, P, F, T

\* No item is left.
LEMMA DoneKeepsStack ==
  ASSUME NEW c, RequestOK(c), NEW G, Trees(G),
         NEW S \in Seq(Activations), S # <<>>, Stacked(c, G, S),
         NEW f, f = Last(S), f.at = "items", f.todo = {},
         NEW f2, f2 = [f EXCEPT !.at = "remove"]
  PROVE  f2 \in Activations /\ Stacked(c, G, Replaced(S, f2))
<1> DEFINE K == Len(S)
           R == Replaced(S, f2)
           F == G[c.from]
           T == G[c.to]
<1>1. K \in Nat \ {0} /\ f = S[K] /\ f \in Activations
  BY TopPopped
<1>2. f2 \in Activations /\ f2.src = f.src /\ f2.dst = f.dst /\ f2.at = "remove"
  BY <1>1 DEF Activations
<1>3. /\ R \in Seq(Activations) /\ Len(R) = K /\ R[K] = f2
      /\ \A i \in 1 .. K - 1 : R[i] = S[i]
  BY <1>2, TopReplaced
<1>4. /\ Nested(c, S) /\ Waiting(S) /\ Alone(c, S)
      /\ \A i \in 1 .. K : SourceThere(F, S[i]) /\ TargetThere(T, S[i])
      /\ c.delete => NothingElse(c, F, S)
  BY DEF Stacked
<1> HIDE DEF K, R, F, T
<1>5. ASSUME NEW i \in 1 .. K
      PROVE  R[i].src = S[i].src /\ SourceThere(F, R[i]) /\ TargetThere(T, R[i])
  <2>1. SourceThere(F, S[i]) /\ TargetThere(T, S[i])
    BY <1>4
  <2>2. CASE i = K
    <3>1. S[i] = f /\ R[i] = f2
      BY <1>1, <1>3, <2>2
    <3>2. QED BY <1>2, <2>1, <3>1 DEF SourceThere, TargetThere
  <2>3. CASE i # K
    <3>1. R[i] = S[i]
      BY <1>1, <1>3, <2>3
    <3>2. QED BY <2>1, <3>1
  <2>4. QED BY <2>2, <2>3
<1>6. Nested(c, R)
  <2>1. \A i \in 1 .. K : Len(S[i].src) = Len(c.src) + i - 1 /\ \A j \in i .. K : IsPrefix(S[i].src, S[j].src)
    BY <1>4 DEF Nested, K
  <2>2. \A i \in 1 .. K : \A j \in i .. K : j \in 1 .. K
    BY <1>1
  <2>3. \A i \in 1 .. K : Len(R[i].src) = Len(c.src) + i - 1 /\ \A j \in i .. K : IsPrefix(R[i].src, R[j].src)
    BY <1>5, <2>1, <2>2
  <2>4. QED BY <1>3, <2>3 DEF Nested
<1>7. Waiting(R)
  <2>1. \A i \in 1 .. K - 1 : S[i].at = "items" /\ Last(S[i + 1].src) \notin S[i].todo
    BY <1>4 DEF Waiting, K
  <2>2. \A i \in 1 .. K - 1 : i + 1 \in 1 .. K
    BY <1>1
  <2>3. \A i \in 1 .. K - 1 : R[i].at = "items" /\ Last(R[i + 1].src) \notin R[i].todo
    BY <1>3, <1>5, <2>1, <2>2
  <2>4. QED BY <1>3, <2>3 DEF Waiting
<1>8. Alone(c, R)
  <2>1. SUFFICES ASSUME c.delete, c.from = c.to, K > 1 PROVE FALSE
    BY <1>3 DEF Alone
  <2>2. QED BY <1>1, <1>4, <2>1 DEF Alone, K
<1>9. ASSUME c.delete PROVE NothingElse(c, F, R)
  <2>1. SUFFICES ASSUME NEW i \in 1 .. K, R[i].at # "start",
                        NEW p \in DOMAIN F, IsStrictPrefix(R[i].src, p)
                 PROVE  LeftIn(c, R, i, p[Len(R[i].src) + 1])
    BY <1>3 DEF NothingElse
  <2>2. S[i].at # "start" /\ R[i].src = S[i].src
    BY <1>1, <1>3, <1>5, <2>1
  <2>3. LeftIn(c, S, i, p[Len(R[i].src) + 1])
    BY <1>4, <1>9, <2>1, <2>2 DEF NothingElse, K
  <2> DEFINE m == p[Len(R[i].src) + 1]
  <2> HIDE DEF m
  <2>4. CASE i # K
    <3>1. i \in 1 .. K - 1 /\ i + 1 \in 1 .. K /\ i < Len(R) /\ i < K
      BY <1>1, <1>3, <2>4
    <3>2. R[i] = S[i] /\ R[i + 1].src = S[i + 1].src
      BY <1>3, <1>5, <3>1
    <3>3. LeftIn(c, S, i, m) => LeftIn(c, R, i, m)
      BY <3>1, <3>2 DEF LeftIn
    <3>4. QED BY <2>3, <3>3 DEF m
  <2>5. CASE i = K
    <3>1. c.from = "host" /\ m \in Hidden
      BY <1>1, <2>3, <2>5 DEF LeftIn, m, K
    <3>2. QED BY <3>1 DEF LeftIn, m
  <2>6. QED BY <2>4, <2>5
<1>10. QED
  BY <1>2, <1>3, <1>5, <1>6, <1>7, <1>8, <1>9 DEF Stacked, R, F, T

\* An activation returns to the one beneath it.
LEMMA ReturnKeepsStack ==
  ASSUME NEW c, RequestOK(c), ~c.delete, NEW G,
         NEW S \in Seq(Activations), S # <<>>, Stacked(c, G, S)
  PROVE  Stacked(c, G, Popped(S))
<1> DEFINE K == Len(S)
           P == Popped(S)
<1>1. /\ K \in Nat \ {0} /\ Len(P) = K - 1
      /\ \A i \in 1 .. K - 1 : P[i] = S[i]
  BY TopPopped
<1>2. /\ Nested(c, S) /\ Waiting(S)
      /\ \A i \in 1 .. K : SourceThere(G[c.from], S[i]) /\ TargetThere(G[c.to], S[i])
  BY DEF Stacked
<1> HIDE DEF K, P
<1>3. \A i \in 1 .. K - 1 : i \in 1 .. K /\ \A j \in i .. K - 1 : j \in i .. K /\ j \in 1 .. K - 1
  BY <1>1
<1>4. Nested(c, P)
  BY <1>1, <1>2, <1>3 DEF Nested, K
<1>5. Waiting(P)
  <2>1. \A i \in 1 .. K - 1 - 1 : i \in 1 .. K - 1 /\ i + 1 \in 1 .. K - 1
    BY <1>1
  <2>2. \A i \in 1 .. K - 1 : S[i].at = "items" /\ Last(S[i + 1].src) \notin S[i].todo
    BY <1>2 DEF Waiting, K
  <2>3. \A i \in 1 .. K - 1 - 1 : P[i].at = "items" /\ Last(P[i + 1].src) \notin P[i].todo
    BY <1>1, <2>1, <2>2
  <2>4. QED BY <1>1, <2>3 DEF Waiting
<1>6. Alone(c, P)
  BY DEF Alone
<1>7. \A i \in 1 .. K - 1 : SourceThere(G[c.from], P[i]) /\ TargetThere(G[c.to], P[i])
  BY <1>1, <1>2, <1>3
<1>8. QED
  BY <1>1, <1>4, <1>5, <1>6, <1>7 DEF Stacked, P

\* It removes its source first, with what is still in it.
Removed(G, dev, s) == [G EXCEPT ![dev] = Cut(@, s)]
Shrunk(G, G2, dev, s) ==
    /\ Trees(G2)
    /\ DOMAIN G2[dev] = {p \in DOMAIN G[dev] : ~IsPrefix(s, p)}
    /\ \A p \in DOMAIN G2[dev] : G2[dev][p] = G[dev][p]
    /\ \A d \in Devices \ {dev} : G2[d] = G[d]

LEMMA RemovingKeepsTrees ==
  ASSUME NEW G, Trees(G), NEW from \in Devices, NEW s \in Paths, s # Root
  PROVE  Shrunk(G, Removed(G, from, s), from, s)
<1> DEFINE G2 == Removed(G, from, s)
<1>1. /\ DOMAIN G2 = Devices /\ G2[from] = Cut(G[from], s)
      /\ \A dev \in Devices \ {from} : G2[dev] = G[dev]
  BY DEF Trees, Removed
<1> HIDE DEF G2
<1>2. IsTree(G[from]) /\ \A dev \in Devices : IsTree(G[dev])
  BY DEF Trees
<1> DEFINE T == G[from]
<1>3. IsTree(T)
  BY <1>2
<1> HIDE DEF T
<1>4. /\ IsTree(Cut(T, s))
      /\ DOMAIN Cut(T, s) = {p \in DOMAIN T : ~IsPrefix(s, p)}
      /\ \A p \in DOMAIN Cut(T, s) : Cut(T, s)[p] = T[p]
  BY <1>3, CuttingKeepsTree
<1>5. QED
  BY <1>1, <1>2, <1>4 DEF Trees, T, G2, Shrunk

LEMMA RemovingKeepsStack ==
  ASSUME NEW c, RequestOK(c), c.delete, c.from # c.to, NEW G, Trees(G),
         NEW S \in Seq(Activations), S # <<>>, Stacked(c, G, S),
         NEW G2, Shrunk(G, G2, c.from, Last(S).src)
  PROVE  Stacked(c, G2, Popped(S))
<1> DEFINE K == Len(S)
           P == Popped(S)
           F == G[c.from]
           F2 == G2[c.from]
           s == Last(S).src
<1>1. /\ K \in Nat \ {0} /\ Len(P) = K - 1 /\ s = S[K].src /\ s \in Paths
      /\ \A i \in 1 .. K - 1 : P[i] = S[i]
  BY TopPopped DEF Activations
<1>2. /\ Nested(c, S) /\ Waiting(S) /\ NothingElse(c, F, S)
      /\ \A i \in 1 .. K : SourceThere(F, S[i]) /\ TargetThere(G[c.to], S[i])
  BY DEF Stacked
<1>3. /\ DOMAIN F2 = {p \in DOMAIN F : ~IsPrefix(s, p)}
      /\ \A p \in DOMAIN F2 : F2[p] = F[p]
      /\ IsTree(F) /\ G2[c.to] = G[c.to]
  BY DEF Trees, RequestOK, Requests, Shrunk
<1>4. \A i \in 1 .. K : S[i] \in Activations
  BY ElementOfSeq DEF K
<1>5. Len(c.src) \in Nat
  BY LenProperties DEF RequestOK, Requests, Paths
<1> HIDE DEF K, P, F, F2, s
<1>6. /\ \A i \in 1 .. K : Len(S[i].src) = Len(c.src) + i - 1 /\ \A j \in i .. K : IsPrefix(S[i].src, S[j].src)
      /\ \A i \in 1 .. K - 1 : S[i].at = "items" /\ Last(S[i + 1].src) \notin S[i].todo
  BY <1>2 DEF Nested, Waiting, K
<1>7. \A i \in 1 .. K - 1 : i \in 1 .. K /\ \A j \in i .. K - 1 : j \in i .. K /\ j \in 1 .. K - 1
  BY <1>1
<1>8. \A i \in 1 .. K - 1 : S[i].src \in Paths /\ S[i].todo \subseteq Names
  BY <1>4, <1>7 DEF Activations
<1>9. ASSUME NEW i \in 1 .. K - 1 PROVE Len(S[i].src) < Len(s) /\ Len(s) \in Nat
  <2>1. i \in 1 .. K /\ K \in 1 .. K /\ i \in Int /\ i < K
    BY <1>1
  <2>2. Len(S[i].src) = Len(c.src) + i - 1 /\ Len(s) = Len(c.src) + K - 1
    BY <1>1, <1>6, <2>1
  <2>3. QED BY <1>1, <1>5, <2>1, <2>2
\* The one beneath, and the name by which it knows this one.
<1>10. ASSUME K # 1
       PROVE  s = Append(S[K - 1].src, Last(s)) /\ Len(s) = Len(S[K - 1].src) + 1
  <2>1. K - 1 \in 1 .. K - 1 /\ K \in K - 1 .. K /\ K \in 1 .. K /\ K - 1 \in 1 .. K
    BY <1>1, <1>10
  <2>2. IsPrefix(S[K - 1].src, s) /\ S[K - 1].src \in Paths
    BY <1>1, <1>6, <1>8, <2>1
  <2>3. Len(s) = Len(S[K - 1].src) + 1
    <3>1. Len(S[K - 1].src) = Len(c.src) + (K - 1) - 1 /\ Len(s) = Len(c.src) + K - 1
      BY <1>1, <1>6, <2>1
    <3>2. Len(c.src) + K - 1 = Len(c.src) + (K - 1) - 1 + 1
      BY <1>1, <1>5
    <3>3. QED BY <3>1, <3>2
  <2>4. QED BY <1>1, <2>2, <2>3, EndIs
<1>11. ASSUME NEW i \in 1 .. K - 1
       PROVE  SourceThere(F2, P[i]) /\ TargetThere(G2[c.to], P[i])
  <2>1. i \in 1 .. K /\ P[i] = S[i] /\ S[i].src \in Paths
    BY <1>1, <1>7, <1>8
  <2>2. SourceThere(F, S[i]) /\ TargetThere(G[c.to], S[i])
    BY <1>2, <2>1
  <2>3. ~IsPrefix(s, S[i].src)
    BY <1>1, <1>9, <2>1, PrefixIs, LenProperties DEF Paths
  <2>4. ASSUME NEW n \in S[i].todo PROVE ~IsPrefix(s, Append(S[i].src, n))
    <3> DEFINE q == Append(S[i].src, n)
    <3>1. n \in Names
      BY <1>8
    <3>2. q \in Paths /\ Len(q) = Len(S[i].src) + 1 /\ Last(q) = n
      BY <2>1, <3>1, AppendIs
    <3> HIDE DEF q
    <3>3. SUFFICES ASSUME IsPrefix(s, q) PROVE FALSE
      BY DEF q
    <3>4. Len(s) <= Len(q) /\ Pre(q, Len(s)) = s
      BY <1>1, <3>2, <3>3, PrefixIs
    <3>5. Len(s) = Len(q)
      BY <1>9, <2>1, <3>2, <3>4, LenProperties DEF Paths
    <3>6. s = q
      BY <3>2, <3>4, <3>5, PreAll
    <3>7. i = K - 1
      <4>1. Len(S[i].src) = Len(c.src) + i - 1 /\ i \in Int /\ K \in 1 .. K
        BY <1>1, <1>6, <2>1
      <4>2. Len(s) = Len(c.src) + K - 1
        BY <1>1, <1>6, <4>1
      <4>3. QED BY <1>1, <1>5, <3>2, <3>5, <4>1, <4>2
    <3>8. S[i + 1].src = s
      BY <1>1, <3>7
    <3>9. QED BY <1>6, <3>2, <3>6, <3>8
  <2>5. QED BY <1>3, <2>1, <2>2, <2>3, <2>4 DEF SourceThere, TargetThere
<1>12. Nested(c, P)
  BY <1>1, <1>6, <1>7 DEF Nested
<1>13. Waiting(P)
  <2>1. \A i \in 1 .. K - 1 - 1 : i \in 1 .. K - 1 /\ i + 1 \in 1 .. K - 1
    BY <1>1
  <2>2. \A i \in 1 .. K - 1 - 1 : P[i].at = "items" /\ Last(P[i + 1].src) \notin P[i].todo
    BY <1>1, <1>6, <2>1
  <2>3. QED BY <1>1, <2>2 DEF Waiting
<1>14. NothingElse(c, F2, P)
  <2>1. SUFFICES ASSUME NEW i \in 1 .. K - 1, P[i].at # "start",
                        NEW p \in DOMAIN F2, IsStrictPrefix(P[i].src, p)
                 PROVE  LeftIn(c, P, i, p[Len(P[i].src) + 1])
    BY <1>1 DEF NothingElse
  <2>2. i \in 1 .. K /\ P[i] = S[i] /\ S[i].src \in Paths /\ i \in Int
    BY <1>1, <1>7, <1>8
  <2>3. p \in DOMAIN F /\ ~IsPrefix(s, p)
    BY <1>3
  <2> DEFINE m == p[Len(S[i].src) + 1]
  <2>4. LeftIn(c, S, i, m)
    BY <1>2, <2>1, <2>2, <2>3 DEF NothingElse, K
  <2>5. CASE i # K - 1
    <3>1. i < Len(P) /\ i + 1 \in 1 .. K - 1
      BY <1>1, <2>2, <2>5
    <3>2. P[i + 1] = S[i + 1]
      BY <1>1, <3>1
    <3>3. QED BY <2>2, <2>4, <3>1, <3>2 DEF LeftIn
  <2>6. CASE i = K - 1
    <3>1. m # Last(s)
      <4>1. SUFFICES ASSUME m = Last(s) PROVE FALSE
        OBVIOUS
      <4>2. s = Append(S[i].src, m) /\ Len(s) = Len(S[i].src) + 1
        BY <1>1, <1>10, <2>6, <4>1
      <4> HIDE DEF m
      <4>3. p \in Paths /\ IsStrictPrefix(S[i].src, p)
        BY <1>3, <2>1, <2>2, <2>3 DEF IsTree, Paths
      <4>4. Len(S[i].src) + 1 \in 1 .. Len(p) /\ Pre(p, Len(S[i].src) + 1) = Append(S[i].src, m)
        BY <2>2, <4>3, ChildIs DEF m
      <4>5. Len(s) <= Len(p) /\ Pre(p, Len(s)) = s
        BY <4>2, <4>4, LenProperties DEF Paths
      <4>6. QED BY <1>1, <2>3, <4>3, <4>5, PrefixIs
    <3>2. S[i + 1].src = s
      BY <1>1, <2>6
    <3>3. QED BY <2>2, <2>4, <3>1, <3>2 DEF LeftIn
  <2>7. QED BY <2>5, <2>6
<1>15. Alone(c, P)
  BY DEF Alone
<1>16. QED
  BY <1>1, <1>11, <1>12, <1>13, <1>14, <1>15 DEF Stacked, P, F2

----------------------------------------------------------------------------
(* The steps.                                                               *)

Inv ==
    /\ stack \in Seq(Activations) /\ Trees(fs)
    /\ stack # <<>> =>
          /\ RequestOK(call) /\ Stacked(call, fs, stack)
          /\ Top.at = "remove" => CopiedBy(Top)

NoLoss ==
    \A dev \in Devices : \A p \in DOMAIN fs[dev] :
        \/ p \in DOMAIN fs'[dev] /\ fs'[dev][p] = fs[dev][p]
        \/ /\ call.delete /\ dev = call.from
           /\ HiddenBelow(Top.src, p) \/ (p = Top.src /\ CopiedBy(Top))

\* A copy has a name.
LEMMA CopyNameIs ==
  ASSUME NEW t, NEW p \in Paths
  PROVE  CopyName(t, p) \in Names
<1>1. Base(p) \in Names
  <2>1. CASE p = Root
    BY <2>1, MoveAssumption DEF Base
  <2>2. CASE p # Root
    <3>1. Len(p) \in 1 .. Len(p)
      BY <2>2, EmptySeq, LenProperties DEF Root, Paths
    <3>2. p[Len(p)] \in Names
      BY <3>1, ElementOfSeq DEF Paths
    <3>3. QED BY <2>2, <3>2 DEF Base, Last
  <2>3. QED BY <2>1, <2>2
<1>2. AmigaName[Base(p)] \in Names /\ HostName[Base(p)] \in Names
  BY <1>1, MoveAssumption
<1>3. QED
  BY <1>1, <1>2 DEF CopyName, DirName, FileName

\* A name that is not taken is not there.
LEMMA FreeIs ==
  ASSUME NEW dev, NEW d \in Paths, NEW n \in Names, NEW path, path = Append(d, n),
         ~Taken(dev, path)
  PROVE  path \notin DOMAIN fs[dev]
<1>1. SUFFICES ASSUME path \in DOMAIN fs[dev] PROVE FALSE
  OBVIOUS
<1>2. /\ path \in Paths /\ Len(path) = Len(d) + 1 /\ Front(path) = d
      /\ Pre(path, Len(d)) = d /\ Len(d) \in Nat
  BY AppendIs, LenProperties DEF Paths
<1>3. Len(d) < Len(path)
  BY <1>2
<1>4. IsStrictPrefix(d, path)
  BY <1>2, <1>3, PrefixIs
<1>5. path \in InDir(fs[dev], Front(path))
  BY <1>1, <1>2, <1>4 DEF InDir, Below
<1>6. Same(dev, Last(path), Last(path))
  BY DEF Same
<1>7. QED
  BY <1>5, <1>6 DEF Taken

\* What the invariant says of the activation on top.
LEMMA TopIs ==
  ASSUME Inv, stack # <<>>
  PROVE  /\ Top \in Activations /\ Len(stack) \in Nat \ {0} /\ Top = stack[Len(stack)]
         /\ Top.src \in Paths /\ Top.dst \in Paths /\ Top.into \in Paths /\ Top.todo \subseteq Names
         /\ Top.at \in {"start", "items", "remove"}
         /\ call.from \in Devices /\ call.to \in Devices /\ call \in Requests
         /\ IsTree(fs[call.from]) /\ IsTree(fs[call.to])
         /\ Top.src \in DOMAIN fs[call.from]
         /\ fs[call.from][Top.src] = Directory \/ fs[call.from][Top.src].kind = "file"
         /\ Top.dst \in DOMAIN fs[call.to] /\ fs[call.to][Top.dst] = Directory
         /\ Top.at = "items" =>
               /\ fs[call.from][Top.src] = Directory
               /\ Top.into \in DOMAIN fs[call.to] /\ fs[call.to][Top.into] = Directory
         /\ Len(stack) > 1 \/ call.from = "host" => Top.src # Root
<1>1. /\ stack \in Seq(Activations) /\ Trees(fs)
      /\ RequestOK(call) /\ Stacked(call, fs, stack)
  BY DEF Inv
<1>2. Len(stack) \in Nat \ {0} /\ Top = stack[Len(stack)] /\ Top \in Activations
  BY <1>1, TopPopped DEF Top
<1>3. call \in Requests /\ call.from \in Devices /\ call.to \in Devices
  BY <1>1 DEF RequestOK, Requests
<1>4. IsTree(fs[call.from]) /\ IsTree(fs[call.to])
  BY <1>1, <1>3 DEF Trees
<1>5. Len(stack) \in 1 .. Len(stack)
  BY <1>2
<1>6. SourceThere(fs[call.from], Top) /\ TargetThere(fs[call.to], Top)
  BY <1>1, <1>2, <1>5 DEF Stacked
<1>7. fs[call.from][Top.src] = Directory \/ fs[call.from][Top.src].kind = "file"
  BY <1>4, <1>6 DEF IsTree, SourceThere
<1>8. ASSUME Len(stack) > 1 \/ call.from = "host" PROVE Top.src # Root
  <2>1. Len(Top.src) = Len(call.src) + Len(stack) - 1
    BY <1>1, <1>2, <1>5 DEF Stacked, Nested
  <2>2. Len(call.src) \in Nat /\ (call.from = "host" => Len(call.src) # 0)
    BY <1>1, <1>3, EmptySeq, LenProperties DEF RequestOK, Requests, Paths, Root
  <2>3. Len(Top.src) # 0
    BY <1>2, <1>8, <2>1, <2>2
  <2>4. QED BY <2>3, EmptySeq DEF Root
<1>9. QED
  BY <1>2, <1>3, <1>4, <1>6, <1>7, <1>8 DEF SourceThere, TargetThere, Activations

\* A new entry, by a step of a call or as it is interrupted.
LEMMA MakingIs ==
  ASSUME Inv, stack # <<>>, ~Taken(call.to, Into(Top)),
         NEW e, e = Directory \/ e.kind = "file", fs' = With(Into(Top), e)
  PROVE  Grown(fs, fs', call.to, Into(Top), e) /\ Into(Top) \in Paths /\ NoLoss
<1> DEFINE n == CopyName(fs[call.from], Top.src)
           path == Into(Top)
<1>1. Trees(fs)
  BY DEF Inv
<1>2. /\ Top.src \in Paths /\ Top.dst \in Paths /\ call.to \in Devices
      /\ Top.dst \in DOMAIN fs[call.to] /\ fs[call.to][Top.dst] = Directory
  BY TopIs
<1>3. n \in Names /\ path = Append(Top.dst, n)
  BY <1>2, CopyNameIs DEF Into
<1>4. ~Taken(call.to, path) /\ fs' = Made(fs, call.to, path, e)
  BY DEF With, Made
<1> HIDE DEF n, path
<1>5. path \notin DOMAIN fs[call.to]
  BY <1>2, <1>3, <1>4, FreeIs
<1>6. Grown(fs, fs', call.to, path, e)
  BY <1>1, <1>2, <1>3, <1>4, <1>5, MakingGrows
<1>7. NoLoss
  BY <1>6 DEF NoLoss, Grown, Grows
<1>8. path \in Paths
  BY <1>2, <1>3, AppendIs
<1>9. QED
  BY <1>6, <1>7, <1>8 DEF path

\* What the steps of a call do.  A copy e is made and f goes on as g, ...
Making(e, g) ==
    /\ ~RefusesMove(Top)
    /\ Grown(fs, fs', call.to, Into(Top), e)
    /\ g \in Activations /\ g.src = Top.src /\ g.dst = Top.dst
    /\ \/ /\ g.at = "items" /\ fs[call.from][g.src] = Directory
          /\ g.into = Into(Top) /\ e = Directory
          /\ g.todo = Listed(fs'[call.from], call.from, g.src)
       \/ /\ g.at = "remove" /\ fs[call.from][g.src].kind = "file"
    /\ g.src \notin short' => e = fs[call.from][g.src]
    /\ stack' = Replaced(stack, g)
    /\ short \subseteq short' /\ short' \subseteq short \cup {g.src} /\ UNCHANGED outcome

\* ... the activation g of the next item begins, ...
Pushing(n, f, g) ==
    /\ n \in Top.todo
    /\ f \in Activations /\ f.src = Top.src /\ f.dst = Top.dst /\ f.at = "items"
    /\ f.into = Top.into /\ f.todo = Top.todo \ {n}
    /\ g \in Activations /\ g.src = Append(Top.src, n) /\ g.dst = Top.into /\ g.at = "start"
    /\ stack' = Pushed(stack, f, g)
    /\ UNCHANGED <<fs, short, outcome>>

\* ... no item is left, ...
Finishing(f) ==
    /\ Top.todo = {}
    /\ f \in Activations /\ f = [Top EXCEPT !.at = "remove"]
    /\ f.src = Top.src /\ f.dst = Top.dst /\ f.at = "remove"
    /\ stack' = Replaced(stack, f)
    /\ UNCHANGED <<fs, short, outcome>>

\* ... or the activation returns, with its source removed or without.
Removing ==
    /\ Returns /\ UNCHANGED short
    /\ \/ /\ UNCHANGED fs
          /\ ~call.delete \/ (call.from = "volume" /\ Top.src = Root)
       \/ /\ call.delete /\ Top.src # Root
          /\ Shrunk(fs, fs', call.from, Top.src)
          /\ Below(fs[call.from], Top.src) = {} \/ call.from = "host"

LEMMA StartIs ==
  ASSUME Inv, stack # <<>>, Start(Top)
  PROVE  Fails \/ (NoLoss /\ \E e, g : Making(e, g))
<1> DEFINE f == Top
           path == Into(f)
           e == fs[call.from][f.src]
<1>1. CASE ~RefusesMove(f) /\ e.kind = "dir" /\ ~Fails
  <2>1. EnterDir(f, path)
    BY <1>1 DEF Start
  <2> DEFINE g == [f EXCEPT !.at = "items", !.into = path,
                            !.todo = Listed(fs'[call.from], call.from, f.src)]
  <2>2. /\ ~Taken(call.to, path) /\ fs' = With(path, Directory) /\ Goes(g)
        /\ UNCHANGED <<short, outcome>>
    BY <1>1, <2>1 DEF EnterDir
  <2>3. Grown(fs, fs', call.to, path, Directory) /\ path \in Paths /\ NoLoss
    BY <2>2, MakingIs
  <2>4. f \in Activations /\ f.src \in Paths /\ call.from \in Devices
    BY TopIs
  <2>5. Listed(fs'[call.from], call.from, f.src) \subseteq Names
    BY <2>3, <2>4, ListedIs DEF Grown, Trees
  <2>6. /\ g \in Activations /\ g.src = f.src /\ g.dst = f.dst /\ g.at = "items"
        /\ g.into = path /\ g.todo = Listed(fs'[call.from], call.from, f.src)
    BY <2>3, <2>4, <2>5 DEF Activations
  <2>7. stack' = Replaced(stack, g)
    BY <2>2 DEF Goes, Replaced
  <2>8. fs[call.from][g.src] = Directory
    <3>1. e = Directory \/ e.kind = "file"
      BY TopIs
    <3>2. QED BY <1>1, <2>6, <3>1
  <2> HIDE DEF g
  <2>9. Making(Directory, g)
    BY <1>1, <2>2, <2>3, <2>6, <2>7, <2>8 DEF Making
  <2>10. QED BY <2>3, <2>9
<1>2. CASE ~RefusesMove(f) /\ e.kind # "dir" /\ ~Fails
  <2>1. CopyFile(f, path)
    BY <1>2 DEF Start
  <2>2. ~Taken(call.to, path) /\ Written(f, path, e)
    BY <1>2, <2>1 DEF CopyFile, WriteFile
  <2> DEFINE g == [f EXCEPT !.at = "remove"]
  <2>3. PICK b : fs' = With(path, File(e.content, b))
    BY <2>2 DEF Written
  <2> DEFINE w == File(e.content, b)
  <2>4. w.kind = "file" /\ fs' = With(path, w)
    BY <2>3 DEF File
  <2> HIDE DEF w
  <2>5. Grown(fs, fs', call.to, path, w) /\ NoLoss
    BY <2>2, <2>4, MakingIs
  <2>6. /\ f.src \notin short' => w = e
        /\ short \subseteq short' /\ short' \subseteq short \cup {f.src} /\ UNCHANGED outcome
    BY <2>2, <2>5 DEF Written, Grown
  <2>7. f \in Activations /\ e.kind = "file"
    <3>1. Directory.kind = "dir"
      BY DEF Directory
    <3>2. QED BY <1>2, <3>1, TopIs
  <2>8. g \in Activations /\ g.src = f.src /\ g.dst = f.dst /\ g.at = "remove"
    BY <2>7 DEF Activations
  <2>9. stack' = Replaced(stack, g)
    BY <2>2 DEF Written, Goes, Replaced
  <2> HIDE DEF g
  <2>10. Making(w, g)
    BY <1>2, <2>5, <2>6, <2>7, <2>8, <2>9 DEF Making
  <2>11. QED BY <2>5, <2>10
<1>3. QED
  BY <1>1, <1>2 DEF Start

LEMMA ItemIs ==
  ASSUME Inv, stack # <<>>, Top.at = "items", NextItem(Top)
  PROVE  (\E n, f, g : Pushing(n, f, g)) \/ \E f : Finishing(f)
<1> DEFINE t == Top
<1>1. t \in Activations /\ t.src \in Paths /\ t.into \in Paths /\ t.todo \subseteq Names
  BY TopIs
<1>2. CASE \E n \in t.todo :
             stack' = Append(Append(Front(stack), [t EXCEPT !.todo = @ \ {n}]),
                             Frame(Append(t.src, n), t.into))
  <2>1. PICK n \in t.todo :
             stack' = Append(Append(Front(stack), [t EXCEPT !.todo = @ \ {n}]),
                             Frame(Append(t.src, n), t.into))
    BY <1>2
  <2> DEFINE f == [t EXCEPT !.todo = @ \ {n}]
             g == Frame(Append(t.src, n), t.into)
  <2>2. /\ f \in Activations /\ f.src = t.src /\ f.dst = t.dst /\ f.at = "items"
        /\ f.into = t.into /\ f.todo = t.todo \ {n}
    BY <1>1 DEF Activations
  <2>3. g \in Activations /\ g.src = Append(t.src, n) /\ g.dst = t.into /\ g.at = "start"
    <3>1. Append(t.src, n) \in Paths
      BY <1>1, AppendIs
    <3>2. Root \in Paths
      BY EmptySeq DEF Root, Paths
    <3>3. QED BY <1>1, <3>1, <3>2 DEF Activations, Frame
  <2>4. stack' = Pushed(stack, f, g)
    BY <2>1 DEF Pushed, Replaced
  <2> HIDE DEF f, g
  <2>5. Pushing(n, f, g)
    BY <2>2, <2>3, <2>4 DEF Pushing, NextItem
  <2>6. QED BY <2>5
<1>3. CASE t.todo = {} /\ Goes([t EXCEPT !.at = "remove"])
  <2> DEFINE f == [t EXCEPT !.at = "remove"]
  <2>1. f \in Activations /\ f.src = t.src /\ f.dst = t.dst /\ f.at = "remove"
    BY <1>1 DEF Activations
  <2>2. stack' = Replaced(stack, f)
    BY <1>3 DEF Goes, Replaced
  <2>3. Finishing(f)
    BY <1>3, <2>1, <2>2 DEF Finishing, NextItem
  <2>4. QED BY <2>3
<1>4. QED
  BY <1>2, <1>3 DEF NextItem

LEMMA RemoveIs ==
  ASSUME Inv, stack # <<>>, RemoveSource(Top)
  PROVE  Fails \/ Removing
<1> DEFINE s == Top.src
<1>1. /\ s \in Paths /\ call.from \in Devices /\ Trees(fs)
      /\ call.from = "host" => s # Root
  BY TopIs DEF Inv
<1>2. CASE ~call.delete \/ (call.from = "volume" /\ s = Root)
  BY <1>2 DEF RemoveSource, Removing
<1>3. ASSUME call.delete, s # Root, Returns, UNCHANGED short,
             fs' = Removed(fs, call.from, s),
             Below(fs[call.from], s) = {} \/ call.from = "host"
      PROVE  Removing
  <2>1. Shrunk(fs, fs', call.from, s)
    BY <1>1, <1>3, RemovingKeepsTrees
  <2>2. QED BY <1>3, <2>1 DEF Removing
<1>4. CASE call.delete /\ call.from = "host" /\ RemoveFromHost(Top)
  <2>1. fs' = Removed(fs, call.from, s) /\ Returns /\ UNCHANGED short
    BY <1>4 DEF RemoveFromHost, Without, Cut, Removed
  <2>2. QED BY <1>1, <1>3, <1>4, <2>1
<1>5. CASE call.delete /\ call.from = "volume" /\ s # Root /\ RemoveFromVolume(Top) /\ ~Fails
  <2>1. Below(fs[call.from], s) = {} /\ fs' = Without({s}) /\ Returns /\ UNCHANGED short
    BY <1>5 DEF RemoveFromVolume
  <2>2. fs' = Removed(fs, call.from, s)
    BY <2>1 DEF Without, Cut, Removed
  <2>3. QED BY <1>3, <1>5, <2>1, <2>2
<1>6. call.from = "host" \/ call.from = "volume"
  BY <1>1 DEF Devices
<1>7. QED
  BY <1>2, <1>4, <1>5, <1>6 DEF RemoveSource

\* Each keeps the invariant.
LEMMA MakingStep ==
  ASSUME Inv, stack # <<>>, UNCHANGED call, NEW e, NEW g, Making(e, g)
  PROVE  Inv'
<1>1. /\ stack \in Seq(Activations) /\ Trees(fs) /\ RequestOK(call) /\ Stacked(call, fs, stack)
  BY DEF Inv
<1>2. call.delete /\ call.from = call.to => Len(stack) = 1
  BY DEF Making, RefusesMove, IsOneChar, IsBare
<1>3. Stacked(call, fs', Replaced(stack, g))
  BY <1>1, <1>2, MakingKeepsStack DEF Top, Making
<1>4. stack' \in Seq(Activations) /\ stack' # <<>> /\ Top' = g
  BY <1>1, TopReplaced DEF Top, Making
<1>5. Top'.at = "remove" => CopiedBy(Top)'
  <2>2. call.from \in Devices /\ g.src \in DOMAIN fs[call.from]
    BY TopIs DEF Making
  <2>3. fs'[call.from][g.src] = fs[call.from][g.src]
    BY <2>2 DEF Making, Grown, Grows
  <2>4. Into(Top)' = Into(Top)
    BY <1>4, <2>3 DEF Making, Into, CopyName, DirName, FileName, Base
  <2>5. /\ Into(Top) \in DOMAIN fs'[call.to]
        /\ g.src \in short' \/ fs'[call.to][Into(Top)] = fs[call.from][g.src]
    BY DEF Making, Grown
  <2>6. QED BY <1>4, <2>3, <2>4, <2>5 DEF CopiedBy
<1>6. Trees(fs') /\ call' = call /\ stack' = Replaced(stack, g)
  BY DEF Making, Grown
<1>7. QED
  BY <1>1, <1>3, <1>4, <1>5, <1>6 DEF Inv

LEMMA ItemStep ==
  ASSUME Inv, stack # <<>>, Top.at = "items", NextItem(Top), UNCHANGED call
  PROVE  Inv' /\ NoLoss
<1>1. /\ stack \in Seq(Activations) /\ Trees(fs) /\ RequestOK(call) /\ Stacked(call, fs, stack)
  BY DEF Inv
<1>2. NoLoss /\ fs' = fs
  BY DEF NextItem, NoLoss
<1>3. ASSUME NEW n, NEW f, NEW g, Pushing(n, f, g) PROVE Inv'
  <2>1. Stacked(call, fs, stack')
    BY <1>1, <1>3, ItemKeepsStack DEF Top, Pushing
  <2>2. stack' \in Seq(Activations) /\ stack' # <<>> /\ Top' = g
    BY <1>1, <1>3, TopPushed DEF Top, Pushing
  <2>3. g.at = "start"
    BY <1>3 DEF Pushing
  <2>4. QED BY <1>1, <1>2, <2>1, <2>2, <2>3 DEF Inv
<1>4. ASSUME NEW f, Finishing(f) PROVE Inv'
  <2>1. Stacked(call, fs, stack')
    BY <1>1, <1>4, DoneKeepsStack DEF Top, Finishing
  <2>2. stack' \in Seq(Activations) /\ stack' # <<>> /\ Top' = f
    BY <1>1, <1>4, TopReplaced DEF Top, Finishing
  <2>3. CopiedBy(Top)'
    <3>1. fs[call.from][Top.src] = Directory
      BY TopIs
    <3>2. (fs[call.from][Top.src])' = Directory
      BY <1>2, <1>4, <2>2, <3>1 DEF Finishing
    <3>3. QED BY <3>2 DEF CopiedBy, Directory
  <2>4. QED BY <1>1, <1>2, <2>1, <2>2, <2>3 DEF Inv
<1>5. QED
  BY <1>2, <1>3, <1>4, ItemIs

\* What remains when the activation on top is done.
LEMMA ReturnStep ==
  ASSUME Inv, stack # <<>>, Returns, UNCHANGED call, Trees(fs'),
         Len(stack) > 1 => Stacked(call, fs', Popped(stack))
  PROVE  Inv'
<1>1. /\ stack \in Seq(Activations) /\ RequestOK(call) /\ Stacked(call, fs, stack)
  BY DEF Inv
<1>2. CASE Len(stack) = 1
  <2>1. stack' = <<>>
    BY <1>2 DEF Returns, Ends
  <2>2. QED BY <2>1, EmptySeq DEF Inv
<1>3. CASE Len(stack) # 1
  <2>1. stack' = Popped(stack)
    BY <1>3 DEF Returns, Popped
  <2> DEFINE K == Len(stack)
  <2>2. /\ K \in Nat \ {0} /\ stack' \in Seq(Activations) /\ Len(stack') = K - 1
        /\ \A i \in 1 .. K - 1 : stack'[i] = stack[i]
    BY <1>1, <2>1, TopPopped
  <2>3. \A i \in 1 .. K - 1 : stack[i].at = "items"
    BY <1>1 DEF Stacked, Waiting
  <2>4. K > 1
    BY <1>3, <2>2
  <2> HIDE DEF K
  <2>5. Top'.at = "items"
    <3>1. K - 1 \in 1 .. K - 1
      BY <2>2, <2>4
    <3>2. Top' = stack'[K - 1]
      BY <2>2 DEF Top, Last
    <3>3. QED BY <2>2, <2>3, <3>1, <3>2
  <2>6. Stacked(call, fs', stack')
    BY <2>1, <2>4 DEF K
  <2>7. QED BY <1>1, <2>2, <2>5, <2>6 DEF Inv
<1>4. QED
  BY <1>2, <1>3

LEMMA RemoveStep ==
  ASSUME Inv, stack # <<>>, Top.at = "remove", Removing, UNCHANGED call
  PROVE  Inv' /\ NoLoss
<1> DEFINE s == Top.src
<1>1. /\ stack \in Seq(Activations) /\ Trees(fs) /\ RequestOK(call) /\ Stacked(call, fs, stack)
      /\ CopiedBy(Top) /\ Returns
  BY DEF Inv, Removing
<1>2. /\ s \in Paths /\ call.from \in Devices /\ call.to \in Devices
      /\ Len(stack) \in Nat \ {0} /\ Top = stack[Len(stack)]
      /\ Len(stack) > 1 \/ call.from = "host" => s # Root
      /\ IsTree(fs[call.from])
  BY TopIs
<1>3. CASE UNCHANGED fs /\ (~call.delete \/ (call.from = "volume" /\ s = Root))
  <2>1. Len(stack) > 1 => Stacked(call, fs, Popped(stack))
    BY <1>1, <1>2, <1>3, ReturnKeepsStack
  <2>2. Inv'
    BY <1>1, <1>3, <2>1, ReturnStep
  <2>3. QED BY <1>3, <2>2 DEF NoLoss
<1>4. CASE /\ call.delete /\ s # Root
           /\ Shrunk(fs, fs', call.from, s)
           /\ Below(fs[call.from], s) = {} \/ call.from = "host"
  <2>1. Len(stack) > 1 => Stacked(call, fs', Popped(stack))
    <3>1. ASSUME Len(stack) > 1, call.from = call.to PROVE FALSE
      <4>1. Len(stack) = 2 /\ stack[2].at = "start"
        BY <1>1, <1>4, <3>1 DEF Stacked, Alone
      <4>2. QED BY <1>2, <4>1
    <3>2. SUFFICES ASSUME Len(stack) > 1 PROVE Stacked(call, fs', Popped(stack))
      OBVIOUS
    <3>3. call.from # call.to
      BY <3>1, <3>2
    <3>4. QED BY <1>1, <1>4, <3>3, RemovingKeepsStack DEF Top
  <2>2. Inv'
    BY <1>1, <1>4, <2>1, ReturnStep DEF Shrunk
  <2>3. ASSUME NEW p \in DOMAIN fs[call.from], p # s, IsPrefix(s, p)
        PROVE  HiddenBelow(s, p)
    <3>1. IsStrictPrefix(s, p) /\ p \in Paths
      BY <1>2, <2>3 DEF IsStrictPrefix, IsTree, Paths
    <3>2. call.from = "host"
      BY <1>4, <3>1 DEF Below
    <3> DEFINE m == p[Len(s) + 1]
    <3>3. LeftIn(call, stack, Len(stack), m)
      <4>1. Len(stack) \in 1 .. Len(stack)
        BY <1>2
      <4>2. NothingElse(call, fs[call.from], stack)
        BY <1>1, <1>4 DEF Stacked
      <4>3. QED BY <1>2, <3>1, <4>1, <4>2 DEF NothingElse
    <3>4. m \in Hidden
      BY <1>2, <3>3 DEF LeftIn
    <3>5. Len(s) + 1 \in Len(s) + 1 .. Len(p)
      <4>1. Len(s) + 1 \in 1 .. Len(p) /\ Len(s) \in Nat
        BY <1>2, <3>1, ChildIs, LenProperties DEF Paths
      <4>2. QED BY <4>1
    <3>6. QED BY <3>1, <3>2, <3>4, <3>5 DEF HiddenBelow
  <2>4. NoLoss
    BY <1>1, <1>2, <1>4, <2>3 DEF NoLoss, Shrunk
  <2>5. QED BY <2>2, <2>4
<1>5. QED
  BY <1>3, <1>4 DEF Removing

\* A call begins.
LEMMA FirstStack ==
  ASSUME NEW c, RequestOK(c), NEW G, Trees(G), NEW f, f = Frame(c.src, c.dst),
         c.src \in DOMAIN G[c.from], c.dst \in DOMAIN G[c.to], G[c.to][c.dst] = Directory,
         NEW S, S = <<f>>
  PROVE  S \in Seq(Activations) /\ S # <<>> /\ Last(S) = f /\ f.at = "start" /\ Stacked(c, G, S)
<1>1. c.src \in Paths /\ c.dst \in Paths /\ Root \in Paths
  BY EmptySeq DEF RequestOK, Requests, Root, Paths
<1>2. /\ f \in Activations /\ f.src = c.src /\ f.dst = c.dst /\ f.at = "start"
  BY <1>1 DEF Frame, Activations
<1>3. S \in Seq(Activations) /\ Len(S) = 1 /\ S[1] = f /\ S # <<>>
  BY <1>2
<1>4. Last(S) = f
  BY <1>3 DEF Last
<1>5. Len(c.src) \in Nat /\ IsPrefix(c.src, c.src)
  BY <1>1, PreAll, PrefixIs, LenProperties DEF Paths
<1>6. Nested(c, S)
  BY <1>2, <1>3, <1>5 DEF Nested
<1>7. Waiting(S) /\ Alone(c, S) /\ NothingElse(c, G[c.from], S)
  BY <1>2, <1>3 DEF Waiting, Alone, NothingElse
<1>8. \A i \in 1 .. Len(S) : SourceThere(G[c.from], S[i]) /\ TargetThere(G[c.to], S[i])
  BY <1>2, <1>3 DEF SourceThere, TargetThere
<1>9. QED
  BY <1>2, <1>3, <1>4, <1>6, <1>7, <1>8 DEF Stacked

LEMMA CallStep ==
  ASSUME Inv, NEW delete \in BOOLEAN, NEW from \in Devices, NEW to \in Devices,
         NEW src \in DOMAIN fs[from], NEW dst \in DirsOf(to),
         NEW bare \in {"neither", "source", "destination"},
         Call(delete, from, to, src, dst, bare)
  PROVE  /\ Inv' /\ NoLoss /\ stack = <<>> /\ call' \in Requests /\ Top'.at = "start"
         /\ call'.src \in DOMAIN before'[call'.from]
<1>1. Trees(fs) /\ fs' = fs /\ before' = fs /\ stack = <<>>
  BY DEF Inv, Call
<1>2. src \in Paths /\ dst \in Paths /\ dst \in DOMAIN fs[to] /\ fs[to][dst] = Directory
  <2>1. IsTree(fs[from]) /\ IsTree(fs[to])
    BY <1>1 DEF Trees
  <2>2. dst \in DOMAIN fs[to] /\ fs[to][dst].kind = "dir"
    BY DEF DirsOf
  <2>3. fs[to][dst] = Directory \/ fs[to][dst].kind = "file"
    BY <2>1, <2>2 DEF IsTree
  <2>4. QED BY <2>1, <2>2, <2>3 DEF IsTree, Paths
<1> DEFINE c == [delete |-> delete, from |-> from, to |-> to, src |-> src, dst |-> dst,
                 bare |-> bare]
           f == Frame(c.src, c.dst)
<1>3. c \in Requests
  BY <1>2 DEF Requests
<1>4. RequestOK(c)
  BY <1>3 DEF RequestOK, Call
<1>5. call' = c /\ stack' = <<f>>
  BY DEF Call
<1>6. /\ c.src \in DOMAIN fs[c.from] /\ c.dst \in DOMAIN fs[c.to]
      /\ fs[c.to][c.dst] = Directory
  BY <1>2
<1> HIDE DEF c
<1>7. /\ stack' \in Seq(Activations) /\ stack' # <<>> /\ Last(stack') = f /\ f.at = "start"
      /\ Stacked(c, fs, stack')
  BY <1>1, <1>4, <1>5, <1>6, FirstStack
<1>8. QED
  BY <1>1, <1>3, <1>4, <1>5, <1>6, <1>7 DEF Inv, NoLoss, Top

LEMMA InitIs ==
  ASSUME Init
  PROVE  Inv
<1>1. Trees(fs)
  <2>1. DOMAIN fs = Devices /\ \A d \in Devices : fs[d] = InitHost \/ fs[d] = InitVolume
    BY DEF Init
  <2>2. QED BY <2>1, MoveAssumption DEF Trees
<1>2. QED
  BY <1>1, EmptySeq DEF Init, Inv

LEMMA InterruptStep ==
  ASSUME Inv, Interrupt
  PROVE  Inv' /\ NoLoss
<1>1. stack # <<>> /\ stack' = <<>>
  BY DEF Interrupt, Ends
<1>2. CASE UNCHANGED fs
  BY <1>1, <1>2, EmptySeq DEF Inv, NoLoss
<1>3. CASE InterruptWriting(Top, Into(Top))
  <2> DEFINE w == File(fs[call.from][Top.src].content, 0)
  <2>1. ~Taken(call.to, Into(Top)) /\ fs' = With(Into(Top), w) /\ w.kind = "file"
    BY <1>3 DEF InterruptWriting, File
  <2> HIDE DEF w
  <2>2. Grown(fs, fs', call.to, Into(Top), w) /\ NoLoss
    BY <1>1, <2>1, MakingIs
  <2>3. QED BY <1>1, <2>2, EmptySeq DEF Inv, Grown
<1>4. QED
  BY <1>2, <1>3 DEF Interrupt, InterruptFile, InterruptReading

LEMMA StepIs ==
  ASSUME Inv, Step
  PROVE  Inv' /\ NoLoss
<1>1. stack # <<>> /\ UNCHANGED call
  BY DEF Step
<1>2. CASE Fails
  BY <1>2, EmptySeq DEF Fails, Ends, Inv, NoLoss
<1>3. CASE Top.at = "start" /\ Start(Top) /\ ~Fails
  BY <1>1, <1>3, StartIs, MakingStep
<1>4. CASE Top.at = "items" /\ NextItem(Top)
  BY <1>1, <1>4, ItemStep
<1>5. CASE Top.at = "remove" /\ RemoveSource(Top) /\ ~Fails
  BY <1>1, <1>5, RemoveIs, RemoveStep
<1>6. QED
  BY <1>2, <1>3, <1>4, <1>5 DEF Step

LEMMA Invariance ==
  ASSUME Inv, [Next]_vars
  PROVE  Inv' /\ [NoLoss]_vars
<1>1. CASE Step
  BY <1>1, StepIs
<1>2. CASE Interrupt
  BY <1>2, InterruptStep
<1>3. CASE UNCHANGED <<fs, call, stack, short>>
  BY <1>3 DEF Inv, NoLoss, Top, CopiedBy, Into, CopyName, DirName, FileName, Base
<1>4. CASE \E delete \in BOOLEAN, from, to \in Devices :
              \E src \in DOMAIN fs[from], dst \in DirsOf(to),
                 bare \in {"neither", "source", "destination"} : Call(delete, from, to, src, dst, bare)
  BY <1>4, CallStep
<1>5. QED
  BY <1>1, <1>2, <1>3, <1>4 DEF Next, Collect, vars

----------------------------------------------------------------------------
(* The first theorem.                                                       *)

\* A step of a call changes no entry and removes none but one that it has just
\* copied, completely unless its own copy was cut short, and what is hidden in a
\* directory of the host - whatever the trees, however deep, and wherever calls
\* were interrupted before.
THEOREM MovesLoseNothing == Spec => NothingIsLost
<1>1. NothingIsLost <=> [][NoLoss]_vars
  BY PTL DEF NothingIsLost, NoLoss
<1>2. Init => Inv
  BY InitIs
<1>3. Inv /\ [Next]_vars => Inv' /\ [NoLoss]_vars
  BY Invariance
<1>4. QED
  BY <1>1, <1>2, <1>3, PTL DEF Spec

----------------------------------------------------------------------------
(* A call that succeeds has copied everything: where the copies go.         *)

\* The i-th name after the destination.
NameOf(p, i) == CopyName(before[call.from], Pre(p, Len(call.src) + i - 1))

LEMMA CopiedIs ==
  ASSUME call \in Requests, NEW p \in Paths, IsPrefix(call.src, p)
  PROVE  /\ Copied(p) \in Paths /\ Len(Copied(p)) = Len(call.dst) + (Len(p) - Len(call.src) + 1)
         /\ \A j \in 1 .. Len(call.dst) : Copied(p)[j] = call.dst[j]
         /\ \A i \in 1 .. Len(p) - Len(call.src) + 1 :
               Copied(p)[Len(call.dst) + i] = NameOf(p, i)
<1> DEFINE N == Len(p) - Len(call.src) + 1
           d == call.dst
           q == [i \in 1 .. N |-> NameOf(p, i)]
<1>1. call.src \in Paths /\ d \in Paths /\ Len(call.src) \in Nat /\ Len(p) \in Nat
  BY LenProperties DEF Requests, Paths
<1>2. Len(call.src) <= Len(p)
  BY <1>1, PrefixIs
<1>3. N \in Nat \ {0}
  BY <1>1, <1>2
<1>4. Copied(p) = d \o q
  BY DEF Copied, NameOf, Pre
<1>5. ASSUME NEW i \in 1 .. N PROVE NameOf(p, i) \in Names
  <2>1. Len(call.src) + i - 1 \in 0 .. Len(p)
    BY <1>1, <1>2
  <2>2. Pre(p, Len(call.src) + i - 1) \in Paths
    BY <2>1, PreIs
  <2>3. QED BY <2>2, CopyNameIs DEF NameOf
<1> HIDE DEF N
<1>6. q \in Seq(Names) /\ Len(q) = N /\ \A i \in 1 .. N : q[i] = NameOf(p, i)
  BY <1>3, <1>5
<1> HIDE DEF q, d
<1>7. /\ d \o q \in Seq(Names) /\ Len(d \o q) = Len(d) + Len(q)
      /\ \A i \in 1 .. Len(d) + Len(q) : (d \o q)[i] = IF i <= Len(d) THEN d[i] ELSE q[i - Len(d)]
  BY <1>1, <1>6, ConcatProperties DEF Paths
<1>8. Len(d) \in Nat
  BY <1>1, LenProperties DEF Paths
<1>9. ASSUME NEW j \in 1 .. Len(d) PROVE Copied(p)[j] = d[j]
  <2>1. j \in 1 .. Len(d) + Len(q) /\ j <= Len(d)
    BY <1>3, <1>6, <1>8
  <2>2. QED BY <1>4, <1>7, <2>1
<1>10. ASSUME NEW i \in 1 .. N PROVE Copied(p)[Len(d) + i] = NameOf(p, i)
  <2>1. Len(d) + i \in 1 .. Len(d) + N /\ ~(Len(d) + i <= Len(d)) /\ Len(d) + i - Len(d) = i
    BY <1>3, <1>8
  <2>2. (d \o q)[Len(d) + i] = q[i]
    BY <1>6, <1>7, <2>1
  <2>3. QED BY <1>4, <1>6, <2>2
<1>11. QED
  BY <1>4, <1>6, <1>7, <1>9, <1>10 DEF N, d, Paths

\* The copy of the source is in the destination, that of an item in the copy of
\* its directory, and both are below the copy of the source.
LEMMA CopiedSource ==
  ASSUME call \in Requests
  PROVE  /\ IsPrefix(call.src, call.src)
         /\ Copied(call.src) = Append(call.dst, CopyName(before[call.from], call.src))
<1> DEFINE s == call.src
           d == call.dst
           n == CopyName(before[call.from], s)
           q == Append(d, n)
<1>1. s \in Paths /\ d \in Paths /\ Len(s) \in Nat /\ Len(d) \in Nat
  BY LenProperties DEF Requests, Paths
<1>2. IsPrefix(s, s)
  BY <1>1, PreAll, PrefixIs
<1>3. n \in Names
  BY <1>1, CopyNameIs
<1>4. Len(s) - Len(s) + 1 = 1 /\ Len(s) + 1 - 1 = Len(s)
  BY <1>1
<1>5. NameOf(s, 1) = n
  BY <1>1, <1>4, PreAll DEF NameOf
<1> HIDE DEF n
<1>6. /\ q \in Paths /\ Len(q) = Len(d) + 1 /\ q[Len(d) + 1] = n
      /\ \A j \in 1 .. Len(d) : q[j] = d[j]
  BY <1>1, <1>3, AppendProperties DEF Paths
<1>7. /\ Copied(s) \in Paths /\ Len(Copied(s)) = Len(d) + 1
      /\ \A j \in 1 .. Len(d) : Copied(s)[j] = d[j]
      /\ Copied(s)[Len(d) + 1] = n
  <2> DEFINE M == Len(s) - Len(s) + 1
  <2>1. /\ Copied(s) \in Paths /\ Len(Copied(s)) = Len(d) + M
        /\ \A j \in 1 .. Len(d) : Copied(s)[j] = d[j]
        /\ \A i \in 1 .. M : Copied(s)[Len(d) + i] = NameOf(s, i)
    BY <1>1, <1>2, CopiedIs
  <2> HIDE DEF M
  <2>2. M = 1
    BY <1>4 DEF M
  <2>3. QED BY <1>5, <2>1, <2>2
<1> HIDE DEF q, d
<1>8. ASSUME NEW j \in 1 .. Len(d) + 1 PROVE q[j] = Copied(s)[j]
  <2>1. j \in 1 .. Len(d) \/ j = Len(d) + 1
    BY <1>1
  <2>2. QED BY <1>6, <1>7, <2>1
<1>9. q = Copied(s)
  BY <1>1, <1>6, <1>7, <1>8, SamePaths
<1>10. QED
  BY <1>2, <1>9 DEF q, n, d

LEMMA CopiedItem ==
  ASSUME call \in Requests, NEW p \in Paths, IsPrefix(call.src, p), NEW m \in Names
  PROVE  /\ IsPrefix(call.src, Append(p, m))
         /\ Copied(Append(p, m)) = Append(Copied(p), CopyName(before[call.from], Append(p, m)))
<1> DEFINE s == call.src
           r == Append(p, m)
           n == CopyName(before[call.from], r)
           q == Append(Copied(p), n)
           D == Len(call.dst)
           N == Len(p) - Len(s) + 1
<1>1. s \in Paths /\ call.dst \in Paths /\ Len(s) \in Nat /\ D \in Nat /\ Len(p) \in Nat
  BY LenProperties DEF Requests, Paths
<1>2. /\ r \in Paths /\ Len(r) = Len(p) + 1 /\ Pre(r, Len(p)) = p
      /\ \A i \in 0 .. Len(p) : Pre(r, i) = Pre(p, i)
  BY AppendIs
<1> HIDE DEF r
<1>3. Len(s) <= Len(p) /\ Pre(p, Len(s)) = s
  BY <1>1, PrefixIs
<1>4. IsPrefix(s, r)
  <2>1. Len(s) <= Len(r) /\ Len(s) \in 0 .. Len(p)
    BY <1>1, <1>2, <1>3
  <2>2. QED BY <1>1, <1>2, <1>3, <2>1, PrefixIs
<1>5. n \in Names
  BY <1>2, CopyNameIs
<1>6. N \in Nat \ {0} /\ Len(r) - Len(s) + 1 = N + 1
  BY <1>1, <1>2, <1>3
<1>7. /\ Copied(p) \in Paths /\ Len(Copied(p)) = D + N
      /\ \A j \in 1 .. D : Copied(p)[j] = call.dst[j]
      /\ \A i \in 1 .. N : Copied(p)[D + i] = NameOf(p, i)
  BY CopiedIs
<1>8. /\ Copied(r) \in Paths /\ Len(Copied(r)) = D + (N + 1)
      /\ \A j \in 1 .. D : Copied(r)[j] = call.dst[j]
      /\ \A i \in 1 .. N + 1 : Copied(r)[D + i] = NameOf(r, i)
  BY <1>2, <1>4, <1>6, CopiedIs
<1>9. \A i \in 1 .. N : NameOf(r, i) = NameOf(p, i)
  <2>1. ASSUME NEW i \in 1 .. N PROVE Len(s) + i - 1 \in 0 .. Len(p)
    BY <1>1, <1>3
  <2>2. QED BY <1>2, <2>1 DEF NameOf
<1>10. NameOf(r, N + 1) = n
  <2>1. Len(s) + (N + 1) - 1 = Len(r)
    BY <1>1, <1>2, <1>6
  <2>2. QED BY <1>2, <2>1, PreAll DEF NameOf
<1> HIDE DEF n, N, D
<1>11. /\ q \in Paths /\ Len(q) = Len(Copied(p)) + 1 /\ q[Len(Copied(p)) + 1] = n
       /\ \A j \in 1 .. Len(Copied(p)) : q[j] = Copied(p)[j]
  BY <1>5, <1>7, AppendProperties DEF Paths
<1> HIDE DEF q
<1>12. D + N + 1 = D + (N + 1) /\ Len(q) = Len(Copied(r))
  BY <1>1, <1>6, <1>7, <1>8, <1>11
<1>13. ASSUME NEW j \in 1 .. Len(q) PROVE q[j] = Copied(r)[j]
  <2>1. j \in 1 .. D \/ (j - D \in 1 .. N /\ D + (j - D) = j) \/ j = D + (N + 1)
    BY <1>1, <1>6, <1>8, <1>12
  <2>2. CASE j \in 1 .. D
    <3>1. j \in 1 .. Len(Copied(p))
      BY <1>1, <1>6, <1>7, <2>2
    <3>2. QED BY <1>7, <1>8, <1>11, <2>2, <3>1
  <2>3. CASE j - D \in 1 .. N /\ D + (j - D) = j
    <3>1. j \in 1 .. Len(Copied(p)) /\ j - D \in 1 .. N + 1
      BY <1>1, <1>6, <1>7, <2>3
    <3>2. q[j] = NameOf(p, j - D)
      BY <1>7, <1>11, <2>3, <3>1
    <3>3. Copied(r)[j] = NameOf(r, j - D)
      BY <1>8, <2>3, <3>1
    <3>4. QED BY <1>9, <2>3, <3>2, <3>3
  <2>4. CASE j = D + (N + 1)
    <3>1. N + 1 \in 1 .. N + 1
      BY <1>6
    <3>2. Copied(r)[D + (N + 1)] = n
      BY <1>8, <1>10, <3>1
    <3>3. Len(Copied(p)) + 1 = D + (N + 1)
      BY <1>7, <1>12
    <3>4. QED BY <1>11, <2>4, <3>2, <3>3
  <2>5. QED BY <2>1, <2>2, <2>3, <2>4
<1>14. q = Copied(r)
  BY <1>8, <1>11, <1>12, <1>13, SamePaths
<1>15. QED
  BY <1>4, <1>14 DEF q, r, n

LEMMA CopiedBelow ==
  ASSUME call \in Requests, NEW p \in Paths, IsPrefix(call.src, p)
  PROVE  /\ Len(call.dst) + 1 \in 0 .. Len(Copied(p))
         /\ Pre(Copied(p), Len(call.dst) + 1) = Copied(call.src)
<1> DEFINE s == call.src
           D == Len(call.dst)
           u == Pre(Copied(p), D + 1)
           N == Len(p) - Len(s) + 1
<1>1. s \in Paths /\ Len(s) \in Nat /\ D \in Nat /\ Len(p) \in Nat
  BY LenProperties DEF Requests, Paths
<1>2. Len(s) <= Len(p) /\ Pre(p, Len(s)) = s
  BY <1>1, PrefixIs
<1>3. /\ N \in Nat \ {0} /\ 1 \in 1 .. N /\ 1 \in 1 .. 1 /\ Len(s) - Len(s) + 1 = 1
      /\ Len(s) + 1 - 1 = Len(s)
  BY <1>1, <1>2
<1>4. IsPrefix(s, s)
  BY CopiedSource
<1>5. /\ Copied(p) \in Paths /\ Len(Copied(p)) = D + N
      /\ \A j \in 1 .. D : Copied(p)[j] = call.dst[j]
      /\ Copied(p)[D + 1] = NameOf(p, 1)
  BY <1>3, CopiedIs
<1>6. /\ Copied(s) \in Paths /\ Len(Copied(s)) = D + 1
      /\ \A j \in 1 .. D : Copied(s)[j] = call.dst[j]
      /\ Copied(s)[D + 1] = NameOf(s, 1)
  BY <1>1, <1>3, <1>4, CopiedIs
<1>7. NameOf(p, 1) = NameOf(s, 1)
  BY <1>1, <1>2, <1>3, PreAll DEF NameOf
<1> HIDE DEF N, D
<1>8. D + 1 \in 0 .. Len(Copied(p))
  BY <1>1, <1>3, <1>5
<1>9. u \in Paths /\ Len(u) = D + 1 /\ \A j \in 1 .. D + 1 : u[j] = Copied(p)[j]
  BY <1>5, <1>8, PreIs
<1> HIDE DEF u
<1>10. ASSUME NEW j \in 1 .. D + 1 PROVE u[j] = Copied(s)[j]
  <2>1. j \in 1 .. D \/ j = D + 1
    BY <1>1
  <2>2. QED BY <1>5, <1>6, <1>7, <1>9, <2>1
<1>11. u = Copied(s)
  BY <1>6, <1>9, <1>10, SamePaths
<1>12. QED
  BY <1>8, <1>11 DEF u, D

----------------------------------------------------------------------------
(* How far a call has come.                                                 *)

Kept(p) == p \in DOMAIN fs[call.from] /\ fs[call.from][p] = before[call.from][p]

\* An entry that an activation of the stack will get to.
AheadOf(f, p) ==
    \/ f.at = "start" /\ IsPrefix(f.src, p)
    \/ f.at = "items" /\ IsStrictPrefix(f.src, p) /\ p[Len(f.src) + 1] \in f.todo
Ahead(S, p) == \E i \in 1 .. Len(S) : AheadOf(S[i], p)

\* Each activation copies to the place of the copy.
Placed ==
    /\ stack[1].src = call.src
    /\ \A i \in 1 .. Len(stack) :
          /\ stack[i].dst = IF i = 1 THEN call.dst ELSE stack[i - 1].into
          /\ stack[i].at = "items" /\ stack[i].src \in Sources =>
                stack[i].into = Copied(stack[i].src)

\* The copy of the source is new.
New ==
    IF stack[1].at = "start" THEN fs = before ELSE Copied(call.src) \notin DOMAIN before[call.to]

Progress ==
    /\ outcome = "running"
    /\ call.src \in DOMAIN before[call.from]
    /\ Placed /\ New
    /\ \A p \in Sources : Ahead(stack, p) => Kept(p)
    /\ \A p \in Sources : IsCopied(p) \/ Ahead(stack, p)

Complete ==
    /\ Inv /\ Trees(before)
    /\ stack # <<>> => Progress
    /\ SuccessIsComplete

LEMMA SameCall ==
  ASSUME UNCHANGED <<call, before>>
  PROVE  Sources' = Sources /\ \A p : Copied(p)' = Copied(p)
<1>1. ASSUME NEW p PROVE Copied(p)' = Copied(p)
  BY DEF Copied, CopyName, DirName, FileName, Base
<1>2. Sources' = Sources
  BY DEF Sources, HiddenBelow
<1>3. QED
  BY <1>1, <1>2

\* The beginnings of the path of an entry are there.
LEMMA TreePre ==
  ASSUME NEW t, IsTree(t), NEW p \in DOMAIN t, NEW i \in 0 .. Len(p)
  PROVE  p \in Paths /\ Pre(p, i) \in DOMAIN t
<1>1. p \in Paths /\ Len(p) \in Nat
  BY LenProperties DEF IsTree, Paths
<1>2. CASE i = Len(p)
  BY <1>1, <1>2, PreAll
<1>3. CASE i # Len(p)
  <2>1. i \in 0 .. Len(p) - 1
    BY <1>1, <1>3
  <2>2. QED BY <1>1, <2>1 DEF IsTree, Pre
<1>4. QED
  BY <1>2, <1>3

\* What is on the way down to something to be copied is to be copied.
LEMMA SourceAbove ==
  ASSUME call \in Requests, Trees(before), NEW p \in Sources, NEW q \in Paths,
         IsPrefix(call.src, q), IsPrefix(q, p)
  PROVE  q \in Sources
<1>1. /\ call.from \in Devices /\ IsTree(before[call.from]) /\ p \in DOMAIN before[call.from]
      /\ IsPrefix(call.src, p) /\ ~HiddenBelow(call.src, p) /\ p \in Paths
  BY DEF Requests, Trees, Sources, IsTree, Paths
<1>2. call.src \in Paths /\ Len(call.src) \in Nat /\ Len(q) \in Nat /\ Len(p) \in Nat
  BY <1>1, LenProperties DEF Requests, Paths
<1>3. Len(q) <= Len(p) /\ Pre(p, Len(q)) = q
  BY <1>1, PrefixIs
<1>4. Len(q) \in 0 .. Len(p)
  BY <1>2, <1>3
<1>5. q \in DOMAIN before[call.from]
  BY <1>1, <1>3, <1>4, TreePre
<1>6. ~HiddenBelow(call.src, q)
  <2>1. SUFFICES ASSUME call.from = "host", IsStrictPrefix(call.src, q),
                        NEW i \in Len(call.src) + 1 .. Len(q), q[i] \in Hidden
                 PROVE  FALSE
    BY DEF HiddenBelow
  <2>2. Len(call.src) < Len(q) /\ IsStrictPrefix(call.src, p)
    <3>1. Len(call.src) < Len(q)
      BY <1>2, <2>1, PrefixIs
    <3>2. Len(call.src) <= Len(p) /\ Pre(p, Len(call.src)) = call.src
      BY <1>1, <1>2, PrefixIs
    <3>3. Len(call.src) < Len(p)
      BY <1>2, <1>3, <3>1
    <3>4. QED BY <1>1, <1>2, <3>1, <3>2, <3>3, PrefixIs
  <2>3. i \in 1 .. Len(q) /\ i \in Len(call.src) + 1 .. Len(p)
    BY <1>2, <1>3
  <2>4. q[i] = p[i]
    BY <1>1, <1>3, <1>4, <2>3, PreIs
  <2>5. QED BY <1>1, <2>1, <2>2, <2>3, <2>4 DEF HiddenBelow
<1>7. QED
  BY <1>5, <1>6 DEF Sources

\* The top of the stack copies to the place of the copy of its source.
LEMMA IntoIs ==
  ASSUME Complete, stack # <<>>, Top.src \in Sources, Kept(Top.src)
  PROVE  Into(Top) = Copied(Top.src)
<1> DEFINE K == Len(stack)
           s == Top.src
           b == before[call.from]
<1>1. /\ K \in Nat \ {0} /\ Top = stack[K] /\ call \in Requests
      /\ s \in Paths /\ Top.dst \in Paths
  BY TopIs DEF Complete
<1>2. Placed /\ Stacked(call, fs, stack) /\ stack \in Seq(Activations) /\ Trees(before)
  BY DEF Complete, Progress, Inv
<1>3. CopyName(fs[call.from], s) = CopyName(b, s)
  BY DEF CopyName, Kept
<1> HIDE DEF b
<1>4. Into(Top) = Append(Top.dst, CopyName(b, s))
  BY <1>3 DEF Into
<1>5. CASE K = 1
  <2>1. 1 \in 1 .. K
    BY <1>1
  <2>2. s = call.src /\ Top.dst = call.dst
    BY <1>1, <1>2, <1>5, <2>1 DEF Placed
  <2>3. QED BY <1>1, <1>4, <2>2, CopiedSource DEF b
<1>6. CASE K # 1
  <2> DEFINE q == stack[K - 1]
  <2>1. /\ K - 1 \in 1 .. K - 1 /\ K - 1 \in 1 .. K /\ K \in 1 .. K /\ 1 \in 1 .. K
        /\ K \in K - 1 .. K
    <3> HIDE DEF K
    <3>1. QED BY <1>1, <1>6
  <2>2. Top.dst = q.into /\ stack[1].src = call.src
    BY <1>1, <1>2, <1>6, <2>1 DEF Placed
  <2>3. q.at = "items" /\ q \in Activations /\ q.src \in Paths
    <3>1. q \in Activations
      BY <1>2, <2>1, ElementOfSeq
    <3>2. QED BY <1>2, <2>1, <3>1 DEF Stacked, Waiting, Activations
  <2>4. /\ IsPrefix(call.src, q.src) /\ IsPrefix(q.src, s)
        /\ Len(q.src) = Len(call.src) + (K - 1) - 1 /\ Len(s) = Len(call.src) + K - 1
    BY <1>1, <1>2, <2>1, <2>2 DEF Stacked, Nested
  <2>5. Len(s) = Len(q.src) + 1
    <3>1. Len(call.src) \in Nat
      BY <1>1, LenProperties DEF Requests, Paths
    <3>2. Len(call.src) + K - 1 = Len(call.src) + (K - 1) - 1 + 1
      BY <1>1, <3>1
    <3>3. QED BY <2>4, <3>2
  <2>6. s = Append(q.src, Last(s)) /\ Last(s) \in Names
    BY <1>1, <2>3, <2>4, <2>5, EndIs
  <2>7. q.src \in Sources
    BY <1>1, <1>2, <2>3, <2>4, SourceAbove
  <2>8. q.into = Copied(q.src)
    BY <1>2, <2>1, <2>3, <2>7 DEF Placed
  <2>9. Copied(s) = Append(Copied(q.src), CopyName(b, s))
    BY <1>1, <2>3, <2>4, <2>6, CopiedItem DEF b
  <2>10. QED BY <1>4, <2>2, <2>8, <2>9
<1>7. QED
  BY <1>5, <1>6

----------------------------------------------------------------------------
(* The steps.                                                               *)

\* What the invariants say of the stack.
LEMMA StackIs ==
  ASSUME Complete, stack # <<>>
  PROVE  /\ Len(stack) \in Nat \ {0} /\ Top = stack[Len(stack)]
         /\ stack \in Seq(Activations) /\ Trees(fs) /\ Trees(before)
         /\ call \in Requests /\ call.from \in Devices /\ call.to \in Devices
         /\ IsTree(fs[call.from]) /\ IsTree(before[call.from]) /\ IsTree(before[call.to])
         /\ call.src \in Paths /\ call.src \in Sources /\ IsPrefix(call.src, call.src)
         /\ stack[1].src = call.src
         /\ \A i \in 1 .. Len(stack) :
               stack[i] \in Activations /\ stack[i].src \in Paths /\ IsPrefix(call.src, stack[i].src)
<1>1. /\ Len(stack) \in Nat \ {0} /\ Top = stack[Len(stack)] /\ call \in Requests
      /\ call.from \in Devices /\ call.to \in Devices /\ IsTree(fs[call.from])
  BY TopIs DEF Complete
<1>2. Placed /\ Stacked(call, fs, stack) /\ stack \in Seq(Activations) /\ Trees(before) /\ Trees(fs)
      /\ call.src \in DOMAIN before[call.from]
  BY DEF Complete, Progress, Inv
<1>3. IsTree(before[call.from]) /\ IsTree(before[call.to])
  BY <1>1, <1>2 DEF Trees
<1>4. call.src \in Paths /\ IsPrefix(call.src, call.src)
  BY <1>1, CopiedSource DEF Requests
<1>5. call.src \in Sources
  BY <1>2, <1>4 DEF Sources, HiddenBelow, IsStrictPrefix
<1>6. stack[1].src = call.src
  BY <1>2 DEF Placed
<1>7. 1 \in 1 .. Len(stack) /\ \A i \in 1 .. Len(stack) : i \in 1 .. Len(stack)
  <2> DEFINE K == Len(stack)
  <2> HIDE DEF K
  <2>1. K \in Nat \ {0}
    BY <1>1 DEF K
  <2>2. 1 \in 1 .. K
    BY <2>1
  <2>3. QED BY <2>2 DEF K
<1>8. \A i \in 1 .. Len(stack) :
         stack[i] \in Activations /\ stack[i].src \in Paths /\ IsPrefix(call.src, stack[i].src)
  <2>1. \A i \in 1 .. Len(stack) : stack[i] \in Activations
    BY <1>2, ElementOfSeq
  <2>2. \A i \in 1 .. Len(stack) : IsPrefix(stack[1].src, stack[i].src)
    BY <1>2, <1>7 DEF Stacked, Nested
  <2>3. QED BY <1>6, <2>1, <2>2 DEF Activations
<1>9. QED
  BY <1>1, <1>2, <1>3, <1>4, <1>5, <1>6, <1>8

\* What is to be copied and below d is listed in d.
LEMMA SourceListed ==
  ASSUME call \in Requests, NEW p \in Sources, NEW t, IsTree(t), p \in DOMAIN t,
         NEW d \in Paths, IsPrefix(call.src, d), IsStrictPrefix(d, p)
  PROVE  p[Len(d) + 1] \in Listed(t, call.from, d)
<1>1. \/ p[Len(d) + 1] \in Listed(t, call.from, d)
      \/ call.from = "host" /\ p[Len(d) + 1] \in Hidden
  BY ListedIs
<1>2. SUFFICES ASSUME call.from = "host", p[Len(d) + 1] \in Hidden PROVE FALSE
  BY <1>1
<1>3. p \in Paths /\ call.src \in Paths
  BY DEF IsTree, Paths, Requests
<1>4. Len(d) \in Nat /\ Len(p) \in Nat /\ Len(call.src) \in Nat
  BY <1>3, LenProperties DEF Paths
<1>5. Len(call.src) <= Len(d) /\ Len(d) < Len(p)
  BY <1>3, PrefixIs
<1>6. IsPrefix(call.src, p) /\ call.src # p
  <2>1. IsPrefix(d, p)
    BY DEF IsStrictPrefix
  <2>2. Len(call.src) # Len(p)
    BY <1>4, <1>5
  <2>3. QED BY <1>3, <2>1, <2>2, PrefixTrans
<1>7. Len(d) + 1 \in Len(call.src) + 1 .. Len(p)
  BY <1>4, <1>5
<1>8. HiddenBelow(call.src, p)
  BY <1>2, <1>6, <1>7 DEF HiddenBelow, IsStrictPrefix
<1>9. QED
  BY <1>8 DEF Sources

LEMMA MakingGoesOn ==
  ASSUME Complete, stack # <<>>, Top.at = "start", UNCHANGED <<call, before>>,
         NEW e, NEW g, Making(e, g)
  PROVE  Progress'
<1> DEFINE K == Len(stack)
           f == Top
           R == stack'
<1>1. /\ K \in Nat \ {0} /\ f = stack[K] /\ call \in Requests /\ call.from \in Devices
      /\ call.to \in Devices /\ IsTree(fs[call.from]) /\ call.src \in Sources
      /\ stack \in Seq(Activations) /\ stack[1].src = call.src /\ Trees(fs)
  BY StackIs
<1>2. /\ g \in Activations /\ g.src = f.src /\ g.dst = f.dst /\ R = Replaced(stack, g)
      /\ g.at = "items" => g.into = Into(f) /\ g.todo = Listed(fs'[call.from], call.from, f.src)
      /\ g.at # "items" => g.at = "remove" /\ fs[call.from][f.src].kind = "file"
      /\ Grown(fs, fs', call.to, Into(f), e)
      /\ f.src \notin short' => e = fs[call.from][f.src]
      /\ short \subseteq short'
      /\ outcome' = outcome /\ g.at # "start"
  BY DEF Making
<1>3. Len(R) = K /\ R[K] = g /\ \A i \in 1 .. K - 1 : R[i] = stack[i]
  BY <1>1, <1>2, TopReplaced
<1>4. /\ outcome = "running" /\ call.src \in DOMAIN before[call.from]
      /\ Placed /\ New
      /\ \A p \in Sources : Ahead(stack, p) => Kept(p)
      /\ \A p \in Sources : IsCopied(p) \/ Ahead(stack, p)
  BY DEF Complete, Progress
<1>5. Sources' = Sources /\ \A p : Copied(p)' = Copied(p)
  BY SameCall
<1>6. f.src \in Paths /\ IsPrefix(call.src, f.src) /\ IsPrefix(f.src, f.src)
  <2>1. K \in 1 .. K
    <3> HIDE DEF K
    <3>1. QED BY <1>1
  <2>2. f.src \in Paths /\ IsPrefix(call.src, f.src)
    BY <1>1, <2>1, StackIs
  <2>3. QED BY <2>2, PreAll, PrefixIs, LenProperties DEF Paths
<1>7. f.src \in Sources => Kept(f.src) /\ Into(f) = Copied(f.src)
  <2>1. K \in 1 .. K
    <3> HIDE DEF K
    <3>1. QED BY <1>1
  <2>2. Ahead(stack, f.src)
    BY <1>1, <1>6, <2>1 DEF Ahead, AheadOf
  <2>3. QED BY <1>4, <2>2, IntoIs
<1> HIDE DEF K, f, R
<1>8. Placed'
  <2>1. ASSUME NEW i \in 1 .. K
        PROVE  /\ R[i].dst = IF i = 1 THEN call.dst ELSE R[i - 1].into
               /\ R[i].at = "items" /\ R[i].src \in Sources => R[i].into = Copied(R[i].src)
    <3>1. /\ stack[i].dst = IF i = 1 THEN call.dst ELSE stack[i - 1].into
          /\ stack[i].at = "items" /\ stack[i].src \in Sources => stack[i].into = Copied(stack[i].src)
      BY <1>4 DEF Placed, K
    <3>2. R[i].dst = stack[i].dst
      <4>1. CASE i = K
        BY <1>1, <1>2, <1>3, <4>1
      <4>2. CASE i # K
        BY <1>1, <1>3, <4>2
      <4>3. QED BY <4>1, <4>2
    <3>3. i # 1 => R[i - 1].into = stack[i - 1].into
      BY <1>1, <1>3
    <3>4. R[i].at = "items" /\ R[i].src \in Sources => R[i].into = Copied(R[i].src)
      <4>1. CASE i = K
        BY <1>2, <1>3, <1>7, <4>1
      <4>2. CASE i # K
        BY <1>1, <1>3, <3>1, <4>2
      <4>3. QED BY <4>1, <4>2
    <3>5. QED BY <3>1, <3>2, <3>3, <3>4
  <2>2. R[1].src = call.src
    <3>1. CASE K = 1
      BY <1>1, <1>2, <1>3, <3>1
    <3>2. CASE K # 1
      BY <1>1, <1>3, <3>2
    <3>3. QED BY <3>1, <3>2
  <2>3. QED BY <1>3, <1>5, <2>1, <2>2 DEF Placed, R
<1>9. New'
  <2>1. CASE K = 1
    <3>1. fs = before /\ f.src = call.src
      BY <1>1, <1>4, <2>1 DEF New, f
    <3>2. Copied(call.src) \notin DOMAIN before[call.to]
      BY <1>1, <1>2, <1>7, <3>1 DEF Grown
    <3>3. R[1].at # "start"
      BY <1>2, <1>3, <2>1
    <3>4. QED BY <1>5, <3>2, <3>3 DEF New, R
  <2>2. CASE K # 1
    <3>1. R[1] = stack[1] /\ 1 \in 1 .. K - 1
      BY <1>1, <1>3, <2>2
    <3>2. stack[1].at # "start"
      BY <1>1, <3>1 DEF Complete, Inv, Stacked, Waiting, K
    <3>3. QED BY <1>4, <1>5, <3>1, <3>2 DEF New, R
  <2>3. QED BY <2>1, <2>2
\* What is ahead now was ahead before, and what was ahead is, or has been copied.
<1>10. ASSUME NEW p \in Sources, Ahead(R, p)
       PROVE  Kept(p)'
  <2>1. PICK i \in 1 .. K : AheadOf(R[i], p)
    BY <1>3, <1>10 DEF Ahead
  <2>2. AheadOf(stack[i], p)
    <3>1. CASE i = K
      BY <1>1, <1>2, <1>3, <2>1, <3>1 DEF AheadOf, IsStrictPrefix, f
    <3>2. CASE i # K
      BY <1>1, <1>3, <2>1, <3>2
    <3>3. QED BY <3>1, <3>2
  <2>3. Kept(p)
    BY <1>4, <2>2 DEF Ahead, K
  <2>4. QED BY <1>1, <1>2, <2>3 DEF Kept, Grown, Grows
<1>11. ASSUME NEW p \in Sources
       PROVE  IsCopied(p)' \/ Ahead(R, p)
  <2>0. fs[call.from] = fs[call.from] /\ call' = call /\ before' = before /\ Copied(p)' = Copied(p)
    BY <1>5
  <2>1. IsCopied(p) \/ Ahead(stack, p)
    BY <1>2, <1>4, <1>11
  <2>2. CASE IsCopied(p)
    BY <1>1, <1>2, <2>0, <2>2 DEF IsCopied, Grown, Grows
  <2>3. CASE \E i \in 1 .. K - 1 : AheadOf(stack[i], p)
    <3>1. \A i \in 1 .. K - 1 : i \in 1 .. K
      BY <1>1
    <3>2. QED BY <1>3, <2>3, <3>1 DEF Ahead
  <2>4. CASE Ahead(stack, p) /\ IsPrefix(f.src, p)
    <3>1. Kept(p) /\ p \in DOMAIN fs[call.from] /\ p \in DOMAIN fs'[call.from]
      BY <1>1, <1>2, <1>4, <2>4 DEF Kept, Grown, Grows
    <3>2. CASE p = f.src
      <4>1. (p \in short' \/ e = before[call.from][p]) /\ Into(f) = Copied(p)
        BY <1>2, <1>7, <3>1, <3>2 DEF Kept
      <4>2. Into(f) \in DOMAIN fs'[call.to] /\ fs'[call.to][Into(f)] = e
        BY <1>2 DEF Grown
      <4>3. QED BY <2>0, <4>1, <4>2 DEF IsCopied
    <3>3. CASE p # f.src
      <4>1. IsStrictPrefix(f.src, p)
        BY <2>4, <3>3 DEF IsStrictPrefix
      <4>2. g.at = "items"
        <5>1. fs[call.from][f.src] = Directory
          BY <1>1, <1>6, <3>1, <4>1, TreeIs
        <5>2. Directory.kind = "dir"
          BY DEF Directory
        <5>3. QED BY <1>2, <5>1, <5>2
      <4>3. IsTree(fs'[call.from])
        BY <1>1, <1>2 DEF Grown, Trees
      <4>4. p[Len(f.src) + 1] \in g.todo
        BY <1>1, <1>2, <1>6, <3>1, <4>1, <4>2, <4>3, SourceListed
      <4>5. AheadOf(R[K], p)
        BY <1>2, <1>3, <4>1, <4>2, <4>4 DEF AheadOf
      <4>6. K \in 1 .. Len(R)
        BY <1>1, <1>3
      <4>7. QED BY <4>5, <4>6 DEF Ahead
    <3>4. QED BY <3>2, <3>3
  <2>5. Ahead(stack, p) => (\E i \in 1 .. K - 1 : AheadOf(stack[i], p)) \/ IsPrefix(f.src, p)
    <3>1. SUFFICES ASSUME NEW i \in 1 .. K, AheadOf(stack[i], p), i \notin 1 .. K - 1
                   PROVE  IsPrefix(f.src, p)
      BY DEF Ahead, K
    <3>2. i = K
      BY <1>1, <3>1
    <3>3. QED BY <1>1, <3>1, <3>2 DEF AheadOf, IsStrictPrefix
  <2>6. QED BY <2>1, <2>2, <2>3, <2>4, <2>5
<1>12. QED
  BY <1>2, <1>4, <1>5, <1>8, <1>9, <1>10, <1>11 DEF Progress, R

\* Going on with the items changes nothing of what is ahead.
LEMMA ItemGoesOn ==
  ASSUME Complete, stack # <<>>, Top.at = "items", UNCHANGED <<call, before, fs, short, outcome>>,
         NEW R, R = stack', R \in Seq(Activations), NEW f \in Activations,
         f.src = Top.src, f.dst = Top.dst, f.into = Top.into, f.at # "start",
         R[Len(stack)] = f, \A i \in 1 .. Len(stack) - 1 : R[i] = stack[i],
         \/ Len(R) = Len(stack)
         \/ /\ Len(R) = Len(stack) + 1
            /\ R[Len(stack) + 1].at = "start" /\ R[Len(stack) + 1].dst = f.into,
         \A p \in Sources : Ahead(R, p) <=> Ahead(stack, p)
  PROVE  Progress'
<1> DEFINE K == Len(stack)
<1>1. /\ K \in Nat \ {0} /\ Top = stack[K] /\ stack[1].src = call.src
  BY StackIs
<1>2. /\ outcome = "running" /\ call.src \in DOMAIN before[call.from]
      /\ Placed /\ New
      /\ \A p \in Sources : Ahead(stack, p) => Kept(p)
      /\ \A p \in Sources : IsCopied(p) \/ Ahead(stack, p)
  BY DEF Complete, Progress
<1>3. Sources' = Sources /\ \A p : Copied(p)' = Copied(p)
  BY SameCall
<1>4. \A i \in 1 .. K :
         /\ stack[i].dst = IF i = 1 THEN call.dst ELSE stack[i - 1].into
         /\ stack[i].at = "items" /\ stack[i].src \in Sources => stack[i].into = Copied(stack[i].src)
  BY <1>2 DEF Placed
<1>5. \A i \in 1 .. K - 1 : R[i] = stack[i] /\ i \in 1 .. K
  BY <1>1
<1> HIDE DEF K
<1>6. \A i \in 1 .. K : /\ R[i].src = stack[i].src /\ R[i].dst = stack[i].dst
                        /\ R[i].into = stack[i].into
                        /\ R[i].at = "items" => stack[i].at = "items"
                        /\ R[i].at = "start" => stack[i].at = "start"
  <2>1. \A i \in 1 .. K : i = K \/ i \in 1 .. K - 1
    BY <1>1
  <2>2. R[K] = f /\ stack[K] = Top
    BY <1>1 DEF K
  <2>3. QED BY <1>5, <2>1, <2>2
<1>7. 1 \in 1 .. K /\ \A i \in 1 .. K : i # 1 => i - 1 \in 1 .. K
  BY <1>1
<1>8. ASSUME NEW i \in 1 .. Len(R)
      PROVE  /\ R[i].dst = IF i = 1 THEN call.dst ELSE R[i - 1].into
             /\ R[i].at = "items" /\ R[i].src \in Sources => R[i].into = Copied(R[i].src)
  <2>1. CASE i \in 1 .. K
    BY <1>4, <1>6, <1>7, <2>1
  <2>2. CASE i \notin 1 .. K
    <3>1. i = K + 1 /\ Len(R) = K + 1
      BY <1>1, <2>2 DEF K
    <3>2. i # 1 /\ i - 1 = K
      BY <1>1, <3>1
    <3>3. R[K + 1].at = "start" /\ R[K + 1].dst = f.into /\ R[K] = f
      <4>1. Len(R) # K
        BY <1>1, <3>1
      <4>2. QED BY <4>1 DEF K
    <3>4. QED BY <3>1, <3>2, <3>3
  <2>3. QED BY <2>1, <2>2
<1>9. Placed'
  <2>1. R[1].src = call.src
    BY <1>1, <1>6, <1>7
  <2>2. QED BY <1>3, <1>8, <2>1 DEF Placed
<1>10. New'
  <2>1. R[1].at = "start" <=> stack[1].at = "start"
    <3>1. CASE K = 1
      BY <1>1, <3>1 DEF K
    <3>2. CASE K # 1
      BY <1>1, <1>5, <3>2
    <3>3. QED BY <3>1, <3>2
  <2>2. QED BY <1>2, <1>3, <2>1 DEF New
<1>11. QED
  BY <1>2, <1>3, <1>9, <1>10 DEF Progress, Kept, IsCopied

LEMMA PushingGoesOn ==
  ASSUME Complete, stack # <<>>, Top.at = "items", UNCHANGED <<call, before>>,
         NEW n, NEW f, NEW g, Pushing(n, f, g)
  PROVE  Progress'
<1> DEFINE K == Len(stack)
           R == stack'
           d == Top.src
<1>1. /\ K \in Nat \ {0} /\ Top = stack[K] /\ call \in Requests /\ Trees(before)
      /\ stack \in Seq(Activations) /\ call.from \in Devices
  BY StackIs
<1>2. d \in Paths /\ Top.todo \subseteq Names
  BY TopIs DEF Complete
<1>3. /\ n \in Top.todo /\ f \in Activations /\ f.src = d /\ f.at = "items"
      /\ f.dst = Top.dst /\ f.into = Top.into /\ f.todo = Top.todo \ {n}
      /\ g \in Activations /\ g.src = Append(d, n) /\ g.dst = Top.into /\ g.at = "start"
      /\ R = Pushed(stack, f, g) /\ UNCHANGED <<fs, short, outcome>>
  BY DEF Pushing
<1>4. /\ R \in Seq(Activations) /\ Len(R) = K + 1 /\ R[K] = f /\ R[K + 1] = g
      /\ \A i \in 1 .. K - 1 : R[i] = stack[i]
  <2> DEFINE P == Pushed(stack, f, g)
  <2>1. stack \in Seq(Activations) /\ f \in Activations /\ g \in Activations
    BY <1>1, <1>3
  <2>2. /\ P \in Seq(Activations) /\ Len(P) = K + 1 /\ P[K] = f /\ P[K + 1] = g
        /\ \A i \in 1 .. K - 1 : P[i] = stack[i]
    BY <2>1, TopPushed
  <2> HIDE DEF P
  <2>3. R = P
    BY <1>3 DEF P
  <2>4. QED BY <2>2, <2>3
<1> HIDE DEF R, d
<1>5. ASSUME NEW p \in Sources PROVE Ahead(R, p) <=> Ahead(stack, p)
  <2> DEFINE m == p[Len(d) + 1]
  <2>1. p \in Paths
    BY <1>1 DEF Sources, Trees, IsTree, Paths
  <2>2. AheadOf(f, p) \/ AheadOf(g, p) <=> AheadOf(Top, p)
    <3>1. AheadOf(g, p) <=> IsStrictPrefix(d, p) /\ m = n
      <4>1. /\ g.src \in Paths /\ Len(g.src) = Len(d) + 1 /\ Pre(g.src, Len(d)) = d
            /\ g.src[Len(d) + 1] = n
        BY <1>2, <1>3, AppendIs
      <4>2. AheadOf(g, p) <=> IsPrefix(g.src, p)
        BY <1>3 DEF AheadOf
      <4>3. Len(d) \in Nat /\ Len(p) \in Nat
        BY <1>2, <2>1, LenProperties DEF Paths
      <4>4. ASSUME IsPrefix(g.src, p) PROVE IsStrictPrefix(d, p) /\ m = n
        <5>1. Len(d) + 1 <= Len(p) /\ Pre(p, Len(d) + 1) = g.src
          BY <2>1, <4>1, <4>4, PrefixIs
        <5>2. Len(d) + 1 \in 0 .. Len(p) /\ Len(d) \in 0 .. Len(d) + 1 /\ Len(d) < Len(p)
              /\ Len(d) + 1 \in 1 .. Len(d) + 1
          BY <4>3, <5>1
        <5>3. Pre(p, Len(d)) = d
          BY <2>1, <4>1, <5>1, <5>2, PrePre
        <5>4. p[Len(d) + 1] = n
          BY <2>1, <4>1, <5>1, <5>2, PreIs
        <5>5. QED BY <1>2, <2>1, <5>2, <5>3, <5>4, PrefixIs
      <4>5. ASSUME IsStrictPrefix(d, p), m = n PROVE IsPrefix(g.src, p)
        <5>1. Len(d) + 1 \in 1 .. Len(p) /\ Pre(p, Len(d) + 1) = Append(d, m)
          BY <1>2, <2>1, <4>5, ChildIs
        <5>2. Pre(p, Len(g.src)) = g.src /\ Len(g.src) <= Len(p)
          BY <1>3, <4>1, <4>3, <4>5, <5>1
        <5>3. QED BY <2>1, <4>1, <5>2, PrefixIs
      <4>6. QED BY <4>2, <4>4, <4>5
    <3>2. AheadOf(f, p) <=> IsStrictPrefix(d, p) /\ m \in Top.todo \ {n}
      BY <1>3 DEF AheadOf
    <3>3. AheadOf(Top, p) <=> IsStrictPrefix(d, p) /\ m \in Top.todo
      BY DEF AheadOf, d
    <3>4. QED BY <1>3, <3>1, <3>2, <3>3
  <2>3. \A i \in 1 .. K - 1 : R[i] = stack[i] /\ i \in 1 .. K /\ i \in 1 .. Len(R)
    BY <1>1, <1>4
  <2>4. K \in 1 .. K /\ K \in 1 .. Len(R) /\ K + 1 \in 1 .. Len(R)
    BY <1>1, <1>4
  <2>5. /\ \A i \in 1 .. K : i = K \/ i \in 1 .. K - 1
        /\ \A i \in 1 .. Len(R) : i = K + 1 \/ i = K \/ i \in 1 .. K - 1
    BY <1>1, <1>4
  <2>6. QED BY <1>1, <1>4, <2>2, <2>3, <2>4, <2>5 DEF Ahead
<1>6. QED
  BY <1>3, <1>4, <1>5, ItemGoesOn DEF R, d

LEMMA FinishingGoesOn ==
  ASSUME Complete, stack # <<>>, Top.at = "items", UNCHANGED <<call, before>>,
         NEW f, Finishing(f)
  PROVE  Progress'
<1> DEFINE K == Len(stack)
           R == stack'
<1>1. K \in Nat \ {0} /\ Top = stack[K] /\ stack \in Seq(Activations) /\ Top \in Activations
  BY StackIs, TopIs DEF Complete
<1>2. /\ Top.todo = {} /\ f \in Activations /\ f = [Top EXCEPT !.at = "remove"]
      /\ R = Replaced(stack, f) /\ UNCHANGED <<fs, short, outcome>>
  BY DEF Finishing
<1>3. f.src = Top.src /\ f.dst = Top.dst /\ f.into = Top.into /\ f.at = "remove"
  BY <1>1, <1>2 DEF Activations
<1>4. R \in Seq(Activations) /\ Len(R) = K /\ R[K] = f /\ \A i \in 1 .. K - 1 : R[i] = stack[i]
  <2> DEFINE P == Replaced(stack, f)
  <2>1. stack \in Seq(Activations) /\ f \in Activations
    BY <1>1, <1>2
  <2>2. P \in Seq(Activations) /\ Len(P) = K /\ P[K] = f /\ \A i \in 1 .. K - 1 : P[i] = stack[i]
    BY <2>1, TopReplaced
  <2> HIDE DEF P
  <2>3. R = P
    BY <1>2 DEF P
  <2>4. QED BY <2>2, <2>3
<1> HIDE DEF R
<1>5. ASSUME NEW p \in Sources PROVE Ahead(R, p) <=> Ahead(stack, p)
  <2>1. ~AheadOf(f, p) /\ ~AheadOf(Top, p)
    BY <1>2, <1>3 DEF AheadOf
  <2>2. \A i \in 1 .. K : i = K \/ i \in 1 .. K - 1
    BY <1>1
  <2>3. ASSUME NEW i \in 1 .. K PROVE AheadOf(R[i], p) <=> AheadOf(stack[i], p)
    BY <1>1, <1>4, <2>1, <2>2
  <2>4. QED BY <1>4, <2>3 DEF Ahead
<1>6. QED
  BY <1>2, <1>3, <1>4, <1>5, ItemGoesOn DEF R

\* What is ahead of an activation beneath is not below the top.
LEMMA AheadIsElsewhere ==
  ASSUME Complete, stack # <<>>, NEW p \in Sources, NEW i \in 1 .. Len(stack) - 1,
         AheadOf(stack[i], p)
  PROVE  ~IsPrefix(Top.src, p)
<1> DEFINE K == Len(stack)
           d == stack[i].src
           c == stack[i + 1].src
<1>1. /\ K \in Nat \ {0} /\ Top = stack[K] /\ call \in Requests /\ Trees(before)
      /\ call.from \in Devices
      /\ \A j \in 1 .. K : stack[j] \in Activations /\ stack[j].src \in Paths
  BY StackIs
<1>2. Stacked(call, fs, stack)
  BY DEF Complete, Inv
<1>3. p \in Paths
  BY <1>1 DEF Sources, Trees, IsTree, Paths
<1>4. /\ i \in 1 .. K - 1 /\ i \in 1 .. K /\ i + 1 \in 1 .. K /\ K \in i + 1 .. K /\ i + 1 \in i .. K
      /\ K \in 1 .. K
  <2> HIDE DEF K
  <2>0. i \in 1 .. K - 1
    BY DEF K
  <2>1. QED BY <1>1, <2>0
<1>5. stack[i].at = "items" /\ Last(c) \notin stack[i].todo
  BY <1>2, <1>4 DEF Stacked, Waiting
<1>6. p[Len(d) + 1] \in stack[i].todo
  BY <1>5 DEF AheadOf
<1>7. /\ Len(d) = Len(call.src) + i - 1 /\ Len(c) = Len(call.src) + (i + 1) - 1
      /\ IsPrefix(d, c) /\ IsPrefix(c, Top.src)
  BY <1>1, <1>2, <1>4 DEF Stacked, Nested
<1>8. c \in Paths /\ d \in Paths /\ Top.src \in Paths
  BY <1>1, <1>4
<1>9. Len(c) = Len(d) + 1 /\ Len(d) \in Nat
  <2>1. Len(call.src) \in Nat /\ i \in Int
    BY <1>1, <1>4, LenProperties DEF Requests, Paths
  <2>2. Len(call.src) + (i + 1) - 1 = Len(call.src) + i - 1 + 1
    BY <2>1
  <2>3. Len(d) \in Nat
    BY <1>8, LenProperties DEF Paths
  <2>4. QED BY <1>7, <2>2, <2>3
<1> HIDE DEF K, c, d
<1>10. SUFFICES ASSUME IsPrefix(Top.src, p) PROVE FALSE
  OBVIOUS
<1>11. IsPrefix(c, p)
  BY <1>3, <1>7, <1>8, <1>10, PrefixTrans
<1>12. Len(c) <= Len(p) /\ Pre(p, Len(c)) = c
  BY <1>3, <1>8, <1>11, PrefixIs
<1>13. Len(c) \in 0 .. Len(p) /\ Len(c) \in 1 .. Len(c)
  BY <1>3, <1>9, <1>12, LenProperties DEF Paths
<1>14. c[Len(c)] = p[Len(c)]
  BY <1>3, <1>12, <1>13, PreIs
<1>15. QED
  BY <1>5, <1>6, <1>9, <1>14 DEF Last

LEMMA RemovingGoesOn ==
  ASSUME Complete, stack # <<>>, Top.at = "remove", UNCHANGED <<call, before>>, Removing,
         Len(stack) # 1
  PROVE  Progress'
<1> DEFINE K == Len(stack)
           R == stack'
<1>1. /\ K \in Nat \ {0} /\ Top = stack[K] /\ stack \in Seq(Activations) /\ call \in Requests
      /\ call.from \in Devices /\ call.to \in Devices /\ stack[1].src = call.src
  BY StackIs
<1>2. R = Popped(stack) /\ UNCHANGED <<outcome, short>>
  BY DEF Removing, Returns, Popped
<1>3. Len(R) = K - 1 /\ \A i \in 1 .. K - 1 : R[i] = stack[i]
  BY <1>1, <1>2, TopPopped
<1>4. /\ outcome = "running" /\ call.src \in DOMAIN before[call.from]
      /\ Placed /\ New
      /\ \A p \in Sources : Ahead(stack, p) => Kept(p)
      /\ \A p \in Sources : IsCopied(p) \/ Ahead(stack, p)
  BY DEF Complete, Progress
<1>5. Sources' = Sources /\ \A p : Copied(p)' = Copied(p)
  BY SameCall
<1>6. Stacked(call, fs, stack) /\ K # 1
  BY DEF Complete, Inv
<1> HIDE DEF K, R
<1>7. \A i \in 1 .. K - 1 : i \in 1 .. K /\ stack[i].at = "items"
  BY <1>1, <1>6 DEF Stacked, Waiting, K
<1>8. 1 \in 1 .. K - 1 /\ \A i \in 1 .. K - 1 : i # 1 => i - 1 \in 1 .. K - 1
  BY <1>1, <1>6
<1>9. Placed'
  <2>1. \A i \in 1 .. K - 1 :
           /\ R[i].dst = IF i = 1 THEN call.dst ELSE R[i - 1].into
           /\ R[i].at = "items" /\ R[i].src \in Sources => R[i].into = Copied(R[i].src)
    BY <1>3, <1>4, <1>7, <1>8 DEF Placed, K
  <2>2. R[1].src = call.src
    BY <1>1, <1>3, <1>8
  <2>3. QED BY <1>3, <1>5, <2>1, <2>2 DEF Placed, R
<1>10. New'
  <2>1. R[1] = stack[1] /\ stack[1].at # "start"
    BY <1>3, <1>7, <1>8
  <2>2. QED BY <1>4, <1>5, <2>1 DEF New, R
<1>11. ASSUME NEW p \in Sources
       PROVE  /\ Ahead(R, p) <=> Ahead(stack, p)
              /\ Ahead(R, p) => ~IsPrefix(Top.src, p)
  <2>1. ~AheadOf(stack[K], p)
    BY <1>1 DEF AheadOf
  <2>2. \A i \in 1 .. K : i = K \/ i \in 1 .. K - 1
    BY <1>1
  <2>3. Ahead(R, p) <=> \E i \in 1 .. K - 1 : AheadOf(stack[i], p)
    BY <1>3 DEF Ahead
  <2>4. Ahead(stack, p) <=> \E i \in 1 .. K - 1 : AheadOf(stack[i], p)
    BY <1>7, <2>1, <2>2 DEF Ahead, K
  <2>5. QED BY <2>3, <2>4, AheadIsElsewhere DEF K
<1>12. /\ \A p \in DOMAIN fs[call.from] : ~IsPrefix(Top.src, p) =>
             p \in DOMAIN fs'[call.from] /\ fs'[call.from][p] = fs[call.from][p]
       /\ fs'[call.to] = fs[call.to]
  <2>1. CASE UNCHANGED fs
    BY <2>1
  <2>2. CASE call.delete /\ Shrunk(fs, fs', call.from, Top.src)
    <3>1. ASSUME call.from = call.to PROVE FALSE
      <4>1. K > 1 => K = 2 /\ stack[2].at = "start"
        BY <1>6, <2>2, <3>1 DEF Stacked, Alone, K
      <4>2. K > 1
        BY <1>1, <1>6
      <4>3. QED BY <1>1, <4>1, <4>2
    <3>2. QED BY <1>1, <2>2, <3>1 DEF Shrunk
  <2>3. QED BY <2>1, <2>2 DEF Removing
<1>13. ASSUME NEW p \in Sources, Ahead(R, p) PROVE Kept(p)'
  BY <1>4, <1>11, <1>12, <1>13 DEF Kept
<1>14. ASSUME NEW p \in Sources PROVE IsCopied(p)' \/ Ahead(R, p)
  <2>1. Copied(p)' = Copied(p) /\ short' = short
    BY <1>2, <1>5
  <2>2. QED BY <1>4, <1>11, <1>12, <2>1 DEF IsCopied
<1>15. QED
  BY <1>2, <1>4, <1>5, <1>9, <1>10, <1>13, <1>14 DEF Progress, R

\* The copy of something is not at the source, nor below it.
LEMMA CopyIsElsewhere ==
  ASSUME Complete, stack # <<>>, stack[1].at # "start", call.from = call.to, NEW p \in Sources
  PROVE  Copied(p) # call.src
<1>1. /\ call \in Requests /\ call.from \in Devices /\ Trees(before)
      /\ IsTree(before[call.from]) /\ p \in Paths /\ IsPrefix(call.src, p)
  BY StackIs DEF Sources, IsTree, Paths
<1>2. Copied(call.src) \notin DOMAIN before[call.to] /\ call.src \in DOMAIN before[call.from]
  BY DEF Complete, Progress, New
<1>3. /\ Len(call.dst) + 1 \in 0 .. Len(Copied(p))
      /\ Pre(Copied(p), Len(call.dst) + 1) = Copied(call.src)
  BY <1>1, CopiedBelow
<1>4. SUFFICES ASSUME Copied(p) = call.src PROVE FALSE
  OBVIOUS
<1>5. Copied(call.src) \in DOMAIN before[call.from]
  BY <1>1, <1>2, <1>3, <1>4, TreePre
<1>6. QED
  BY <1>2, <1>5

LEMMA CallCompletes ==
  ASSUME Complete, stack # <<>>, Top.at = "remove", UNCHANGED <<call, before>>, Removing,
         Len(stack) = 1
  PROVE  /\ \A p \in Sources : IsCopied(p)'
         /\ call.delete => \A p \in DOMAIN fs'[call.from] \ {Root} : ~IsPrefix(call.src, p)
<1>1. /\ Top = stack[1] /\ stack \in Seq(Activations) /\ call \in Requests
      /\ call.from \in Devices /\ call.to \in Devices /\ Top.src = call.src /\ call.src \in Paths
      /\ IsTree(fs[call.from]) /\ RequestOK(call)
  BY StackIs DEF Complete, Inv
<1>2. \A p \in Sources : IsCopied(p)
  <2>1. ASSUME NEW p \in Sources PROVE ~Ahead(stack, p)
    <3>1. \A i \in 1 .. 1 : i = 1
      OBVIOUS
    <3>2. ~AheadOf(stack[1], p)
      BY <1>1 DEF AheadOf
    <3>3. QED BY <3>1, <3>2 DEF Ahead
  <2>2. QED BY <2>1 DEF Complete, Progress
<1>3. short' = short /\ \A p : Copied(p)' = Copied(p)
  BY SameCall DEF Removing
<1>4. CASE UNCHANGED fs /\ (~call.delete \/ (call.from = "volume" /\ Top.src = Root))
  <2>1. \A p \in Sources : IsCopied(p)'
    BY <1>2, <1>3, <1>4 DEF IsCopied
  <2>2. ASSUME call.delete, NEW p \in DOMAIN fs[call.from], p # Root PROVE ~IsPrefix(call.src, p)
    <3>1. SUFFICES ASSUME IsPrefix(call.src, p) PROVE FALSE
      OBVIOUS
    <3>2. IsStrictPrefix(Top.src, p) /\ call.from # "host"
      BY <1>1, <1>4, <2>2, <3>1 DEF IsStrictPrefix
    <3>3. NothingElse(call, fs[call.from], stack) /\ 1 \in 1 .. 1
      BY <2>2 DEF Complete, Inv, Stacked
    <3>4. LeftIn(call, stack, 1, p[Len(Top.src) + 1])
      BY <1>1, <2>2, <3>2, <3>3 DEF NothingElse
    <3>5. QED BY <1>1, <3>2, <3>4 DEF LeftIn
  <2>3. QED BY <1>4, <2>1, <2>2
<1>5. CASE /\ call.delete /\ Shrunk(fs, fs', call.from, Top.src)
           /\ Below(fs[call.from], Top.src) = {} \/ call.from = "host"
  <2>1. /\ DOMAIN fs'[call.from] = {p \in DOMAIN fs[call.from] : ~IsPrefix(call.src, p)}
        /\ \A p \in DOMAIN fs'[call.from] : fs'[call.from][p] = fs[call.from][p]
        /\ \A dev \in Devices \ {call.from} : fs'[dev] = fs[dev]
    BY <1>1, <1>5 DEF Shrunk
  <2>2. ASSUME NEW p \in Sources PROVE IsCopied(p)'
    <3>1. /\ Copied(p) \in DOMAIN fs[call.to]
          /\ p \in short \/ fs[call.to][Copied(p)] = before[call.from][p]
      BY <1>2 DEF IsCopied
    <3>2. /\ Copied(p) \in DOMAIN fs'[call.to]
          /\ p \in short' \/ fs'[call.to][Copied(p)] = before[call.from][p]
      <4>1. CASE call.from # call.to
        BY <1>1, <1>3, <2>1, <3>1, <4>1
      <4>2. CASE call.from = call.to
        <5>1. Below(fs[call.from], call.src) = {}
          BY <1>1, <1>5, <4>2 DEF RequestOK
        <5>2. Copied(p) # call.src
          BY <1>1, <4>2, CopyIsElsewhere
        <5>3. ~IsPrefix(call.src, Copied(p))
          BY <3>1, <4>2, <5>1, <5>2 DEF Below, IsStrictPrefix
        <5>4. QED BY <1>3, <2>1, <3>1, <4>2, <5>3
      <4>3. QED BY <4>1, <4>2
    <3>3. Copied(p)' = Copied(p)
      BY <1>3
    <3>4. QED BY <3>2, <3>3 DEF IsCopied
  <2>3. QED BY <2>1, <2>2
<1>6. QED
  BY <1>4, <1>5 DEF Removing

LEMMA CompleteStep ==
  ASSUME Complete, Step
  PROVE  Complete'
<1>1. stack # <<>> /\ UNCHANGED <<call, before>> /\ Inv /\ Trees(before)
  BY DEF Step, Complete
<1>2. Inv' /\ Trees(before')
  BY <1>1, StepIs
<1>3. outcome = "running"
  BY <1>1 DEF Complete, Progress
<1>4. ASSUME Progress' PROVE Complete'
  BY <1>2, <1>4 DEF Complete, Progress, SuccessIsComplete
<1>5. CASE Fails
  BY <1>2, <1>5 DEF Complete, Fails, Ends, SuccessIsComplete
<1>6. CASE Top.at = "start" /\ Start(Top) /\ ~Fails
  BY <1>1, <1>4, <1>6, StartIs, MakingGoesOn
<1>7. CASE Top.at = "items" /\ NextItem(Top)
  <2>1. CASE \E n, f, g : Pushing(n, f, g)
    BY <1>1, <1>4, <1>7, <2>1, PushingGoesOn
  <2>2. CASE \E f : Finishing(f)
    BY <1>1, <1>4, <1>7, <2>2, FinishingGoesOn
  <2>3. QED BY <1>1, <1>7, <2>1, <2>2, ItemIs
<1>8. CASE Top.at = "remove" /\ RemoveSource(Top) /\ ~Fails
  <2>1. Removing
    BY <1>1, <1>8, RemoveIs
  <2>2. CASE Len(stack) # 1
    BY <1>1, <1>4, <1>8, <2>1, <2>2, RemovingGoesOn
  <2>3. CASE Len(stack) = 1
    <3>1. stack' = <<>> /\ UNCHANGED short
      BY <2>1, <2>3 DEF Removing, Returns, Ends
    <3>2. SuccessIsComplete'
      <4>1. SUFFICES /\ \A p \in Sources' : IsCopied(p)'
                     /\ call'.delete => \A p \in DOMAIN fs'[call'.from] \ {Root} : ~IsPrefix(call'.src, p)
        BY DEF SuccessIsComplete, IsCopied
      <4>2. Sources' = Sources /\ call' = call
        BY <1>1, SameCall
      <4>3. QED BY <1>1, <1>8, <2>1, <2>3, <3>1, <4>1, <4>2, CallCompletes
    <3>3. QED BY <1>2, <3>1, <3>2 DEF Complete
  <2>4. QED BY <2>2, <2>3
<1>9. QED
  BY <1>1, <1>5, <1>6, <1>7, <1>8 DEF Step

LEMMA CompleteCall ==
  ASSUME Complete, NEW delete \in BOOLEAN, NEW from \in Devices, NEW to \in Devices,
         NEW src \in DOMAIN fs[from], NEW dst \in DirsOf(to),
         NEW bare \in {"neither", "source", "destination"},
         Call(delete, from, to, src, dst, bare)
  PROVE  Complete'
<1>1. Inv /\ Trees(fs)
  BY DEF Complete, Inv
<1>2. /\ Inv' /\ call' \in Requests /\ Top'.at = "start" /\ call'.src \in DOMAIN before'[call'.from]
  BY <1>1, CallStep
<1> DEFINE f == Frame(src, dst)
           R == stack'
<1>3. /\ R = <<f>> /\ f.src = src /\ f.dst = dst /\ f.at = "start"
      /\ call'.src = src /\ call'.dst = dst /\ call'.from = from /\ call'.to = to
      /\ fs' = fs /\ before' = fs /\ outcome' = "running"
  BY DEF Call, Frame
<1> HIDE DEF f
<1>4. Len(R) = 1 /\ R[1] = f /\ \A i \in 1 .. 1 : i = 1
  BY <1>3
<1> HIDE DEF R
<1>5. Placed'
  BY <1>3, <1>4 DEF Placed, R
<1>6. New'
  BY <1>3, <1>4 DEF New, R
<1>7. \A p \in Sources' : Kept(p)' /\ Ahead(R, p)
  <2>1. \A p \in Sources' : p \in DOMAIN fs[from] /\ IsPrefix(src, p)
    BY <1>3 DEF Sources
  <2>2. \A p : IsPrefix(src, p) => AheadOf(f, p)
    BY <1>3 DEF AheadOf
  <2>3. 1 \in 1 .. Len(R)
    BY <1>4
  <2>4. \A p \in Sources' : Kept(p)'
    BY <1>3, <2>1 DEF Kept
  <2>5. \A p : AheadOf(f, p) => Ahead(R, p)
    BY <1>4, <2>3 DEF Ahead
  <2>6. QED BY <2>1, <2>2, <2>4, <2>5
<1>8. Progress'
  BY <1>2, <1>3, <1>5, <1>6, <1>7 DEF Progress, R
<1>9. QED
  BY <1>1, <1>2, <1>3, <1>8 DEF Complete, SuccessIsComplete

LEMMA CompleteInit ==
  ASSUME Init
  PROVE  Complete
<1>1. Inv /\ before = fs /\ outcome = "none" /\ stack = <<>>
  BY InitIs DEF Init
<1>2. Trees(before)
  BY <1>1 DEF Inv
<1>3. QED
  BY <1>1, <1>2 DEF Complete, SuccessIsComplete

LEMMA Completeness ==
  ASSUME Complete, [Next]_vars
  PROVE  Complete'
<1>1. CASE Step
  BY <1>1, CompleteStep
<1>2. CASE Interrupt
  <2>1. Inv' /\ stack' = <<>> /\ outcome' = "interrupted" /\ before' = before
    BY <1>2, InterruptStep DEF Complete, Interrupt, Ends
  <2>2. QED BY <2>1 DEF Complete, SuccessIsComplete
<1>3. CASE UNCHANGED <<fs, call, stack, outcome, before, short>>
  <2>1. Inv'
    BY <1>3, Invariance DEF Complete
  <2>2. Sources' = Sources /\ \A p : Copied(p)' = Copied(p)
    BY <1>3, SameCall
  <2>3. SuccessIsComplete'
    BY <1>3, <2>2 DEF Complete, SuccessIsComplete, IsCopied
  <2>4. Progress => Progress'
    BY <1>3, <2>2 DEF Progress, Placed, New, Kept, IsCopied
  <2>5. QED BY <1>3, <2>1, <2>3, <2>4 DEF Complete
<1>4. CASE \E delete \in BOOLEAN, from, to \in Devices :
              \E src \in DOMAIN fs[from], dst \in DirsOf(to),
                 bare \in {"neither", "source", "destination"} : Call(delete, from, to, src, dst, bare)
  BY <1>4, CompleteCall
<1>5. QED
  BY <1>1, <1>2, <1>3, <1>4 DEF Next, Collect, vars

----------------------------------------------------------------------------
(* The theorem.                                                             *)

\* A copy_adf_entry or move_adf_entry that ends without an error has copied
\* everything below the source to its place, with its content but for the files
\* cut short that it has warned about, and a move has left nothing behind.
THEOREM SuccessMeansComplete == Spec => []SuccessIsComplete
<1>1. Init => Complete
  BY CompleteInit
<1>2. Complete /\ [Next]_vars => Complete'
  BY Completeness
<1>3. Complete => SuccessIsComplete
  BY DEF Complete
<1>4. QED
  BY <1>1, <1>2, <1>3, PTL DEF Spec
=============================================================================
