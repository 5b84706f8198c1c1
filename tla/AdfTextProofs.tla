---------------------------- MODULE AdfTextProofs ----------------------------
(***************************************************************************)
(* Theorems about AdfText: files and volumes of any size, texts and        *)
(* vectors of any length, items of any size.                               *)
(***************************************************************************)
EXTENDS AdfText, WalksProofs

----------------------------------------------------------------------------
(* Parts of sequences, and sequences of sequences one behind the other.     *)

\* The part of s behind the first a elements, up to the b-th.
LEMMA PartIs ==
  ASSUME NEW V, NEW s \in Seq(V), NEW b \in 0 .. Len(s), NEW a \in 0 .. b
  PROVE  /\ SubSeq(s, a + 1, b) \in Seq(V)
         /\ Len(SubSeq(s, a + 1, b)) = b - a
         /\ \A i \in 1 .. b - a : SubSeq(s, a + 1, b)[i] = s[a + i]
<1>1. Len(s) \in Nat /\ a + 1 \in Int /\ b \in Int
  BY LenProperties
<1>2. \A i \in a + 1 .. b : s[i] \in V
  BY <1>1, ElementOfSeq
<1>3. /\ SubSeq(s, a + 1, b) \in Seq(V)
      /\ Len(SubSeq(s, a + 1, b)) = IF a + 1 <= b THEN b - (a + 1) + 1 ELSE 0
      /\ \A i \in 1 .. b - (a + 1) + 1 : SubSeq(s, a + 1, b)[i] = s[(a + 1) + i - 1]
  BY <1>1, <1>2, SubSeqProperties
<1>4. b - (a + 1) + 1 = b - a /\ \A i \in Int : (a + 1) + i - 1 = a + i
  BY <1>1
<1>5. QED BY <1>1, <1>3, <1>4

\* A part grows by its next element.
LEMMA PartGrows ==
  ASSUME NEW V, NEW s \in Seq(V), NEW b \in 0 .. Len(s) - 1, NEW a \in 0 .. b
  PROVE  SubSeq(s, a + 1, b + 1) = Append(SubSeq(s, a + 1, b), s[b + 1])
<1>1. Len(s) \in Nat /\ b \in 0 .. Len(s) /\ b + 1 \in 0 .. Len(s) /\ a \in 0 .. b + 1
  BY LenProperties
<1>2. b + 1 \in 1 .. Len(s)
  BY <1>1
<1>3. s[b + 1] \in V
  BY <1>2, ElementOfSeq
<1> DEFINE p == SubSeq(s, a + 1, b)
           q == SubSeq(s, a + 1, b + 1)
<1>4. p \in Seq(V) /\ Len(p) = b - a /\ \A i \in 1 .. b - a : p[i] = s[a + i]
  BY <1>1, PartIs
<1>5. q \in Seq(V) /\ Len(q) = (b + 1) - a /\ \A i \in 1 .. (b + 1) - a : q[i] = s[a + i]
  BY <1>1, PartIs
<1> HIDE DEF p, q
<1>6. /\ Append(p, s[b + 1]) \in Seq(V) /\ Len(Append(p, s[b + 1])) = Len(p) + 1
      /\ \A i \in 1 .. Len(p) : Append(p, s[b + 1])[i] = p[i]
      /\ Append(p, s[b + 1])[Len(p) + 1] = s[b + 1]
  BY <1>3, <1>4, AppendProperties
<1>7. Len(q) = Len(Append(p, s[b + 1]))
  BY <1>1, <1>4, <1>5, <1>6
<1>8. ASSUME NEW i \in 1 .. Len(q) PROVE q[i] = Append(p, s[b + 1])[i]
  <2>1. i \in 1 .. (b + 1) - a /\ q[i] = s[a + i]
    BY <1>5
  <2>2. CASE i \in 1 .. b - a
    BY <1>4, <1>6, <2>1, <2>2
  <2>3. CASE i = Len(p) + 1
    <3>1. a + i = b + 1
      BY <1>1, <1>4, <2>3
    <3>2. QED BY <1>6, <2>1, <2>3, <3>1
  <2>4. QED BY <1>1, <1>4, <2>1, <2>2, <2>3
<1>9. q = Append(p, s[b + 1])
  BY <1>5, <1>6, <1>7, <1>8, SeqEqual
<1>10. QED BY <1>9 DEF p, q

Associate(x, y, z) == (x \o y) \o z = x \o (y \o z)

LEMMA JoinsAssociate ==
  ASSUME NEW V, NEW x \in Seq(V), NEW y \in Seq(V), NEW z \in Seq(V)
  PROVE  Associate(x, y, z)
BY ConcatAssociative DEF Associate

\* g are the first 0, 1, ..., Len(P) sequences of P one behind the other.
IsJoin(g, P) == g[0] = <<>> /\ \A i \in 1 .. Len(P) : g[i] = g[i - 1] \o P[i]

LEMMA FlattenDef ==
  ASSUME NEW V, NEW P \in Seq(Seq(V))
  PROVE  \E g \in [0 .. Len(P) -> Seq(V)] : IsJoin(g, P) /\ FlattenSeq(P) = g[Len(P)]
<1> DEFINE n == Len(P)
<1>1. n \in Nat /\ \A i \in 1 .. n : P[i] \in Seq(V)
  BY LenProperties, ElementOfSeq
<1>2. CASE n = 0
  <2>1. P = <<>> /\ <<>> \in Seq(V)
    BY <1>2, EmptySeq
  <2>2. FlattenSeq(P) = <<>>
    BY <1>2, <2>1 DEF FlattenSeq
  <2> DEFINE g == [i \in 0 .. 0 |-> <<>>]
  <2>3. g \in [0 .. Len(P) -> Seq(V)] /\ IsJoin(g, P) /\ g[Len(P)] = <<>>
    BY <1>2, <2>1 DEF IsJoin
  <2> HIDE DEF g
  <2>4. QED BY <2>2, <2>3
<1>3. CASE n # 0
  <2> DEFINE N == n - 1
             F == [i \in 1 .. N |-> [x \in Seq(V) |-> x \o P[i + 1]]]
             Q(f) == f = [i \in 1 .. n |-> IF i = 1 THEN P[i] ELSE f[i - 1] \o P[i]]
             w == Along(F, P[1], N)
             h == [i \in 1 .. n |-> w[i - 1]]
             fl == CHOOSE f : Q(f)
             g == [i \in 0 .. n |-> IF i = 0 THEN <<>> ELSE fl[i]]
  <2>1. N \in Nat /\ P[1] \in Seq(V) /\ 1 \in 1 .. n
    BY <1>1, <1>3
  <2>2. ASSUME NEW i \in 1 .. N, NEW x \in Seq(V)
        PROVE  F[i][x] = x \o P[i + 1] /\ F[i][x] \in Seq(V)
    <3>1. P[i + 1] \in Seq(V)
      BY <1>1
    <3>2. x \o P[i + 1] \in Seq(V)
      BY <3>1, ConcatProperties
    <3>3. QED BY <3>2
  <2>3. w \in [0 .. N -> Seq(V)] /\ IsAlong(w, F, P[1], N)
    <3> HIDE DEF F, N
    <3>1. \A i \in 1 .. N, x \in Seq(V) : F[i][x] \in Seq(V)
      BY <2>2
    <3>2. QED BY <2>1, <3>1, AlongDef
  <2>4. w[0] = P[1] /\ \A i \in 1 .. N : w[i] = w[i - 1] \o P[i + 1]
    <3>1. w[0] = P[1] /\ \A i \in 1 .. N : w[i] = F[i][w[i - 1]]
      BY <2>3 DEF IsAlong
    <3> HIDE DEF w, F
    <3>2. ASSUME NEW i \in 1 .. N PROVE w[i] = w[i - 1] \o P[i + 1]
      <4>1. i - 1 \in 0 .. N
        BY <2>1
      <4>2. w[i - 1] \in Seq(V)
        BY <2>3, <4>1
      <4>3. QED BY <2>2, <3>1, <4>2
    <3>3. QED BY <3>1, <3>2
  <2> HIDE DEF w, F
  <2>5. ASSUME NEW i \in 1 .. n PROVE h[i] = IF i = 1 THEN P[i] ELSE h[i - 1] \o P[i]
    <3>1. CASE i = 1
      BY <2>4, <3>1
    <3>2. CASE i # 1
      <4>1. i - 1 \in 1 .. N /\ i - 1 \in 1 .. n /\ (i - 1) + 1 = i
        BY <1>1, <3>2
      <4>2. w[i - 1] = w[(i - 1) - 1] \o P[(i - 1) + 1]
        BY <2>4, <4>1
      <4>3. h[i] = w[i - 1] /\ h[i - 1] = w[(i - 1) - 1]
        BY <4>1
      <4>4. QED BY <3>2, <4>1, <4>2, <4>3
    <3>3. QED BY <3>1, <3>2
  <2>6. Q(h)
    <3> DEFINE r == [i \in 1 .. n |-> IF i = 1 THEN P[i] ELSE h[i - 1] \o P[i]]
    <3>1. \A i \in 1 .. n : h[i] = r[i]
      BY <2>5
    <3>2. h = r
      BY <3>1
    <3>3. QED BY <3>2
  <2>7. Q(fl)
    <3> HIDE DEF Q
    <3>1. \E f : Q(f)
      BY <2>6
    <3>2. QED BY <3>1
  <2>8. FlattenSeq(P) = fl[n]
    BY <1>3 DEF FlattenSeq
  <2>9. fl = [i \in 1 .. n |-> IF i = 1 THEN P[i] ELSE fl[i - 1] \o P[i]]
    BY <2>7
  <2> HIDE DEF fl, Q, h
  <2>10. /\ fl[1] = P[1]
         /\ \A i \in 2 .. n : fl[i] = fl[i - 1] \o P[i]
    <3>1. fl[1] = P[1]
      BY <2>1, <2>9
    <3>2. ASSUME NEW i \in 2 .. n PROVE fl[i] = fl[i - 1] \o P[i]
      <4>1. i \in 1 .. n /\ i # 1
        BY <1>1
      <4>2. QED BY <2>9, <4>1
    <3>3. QED BY <3>1, <3>2
  <2>11. g \in [0 .. n -> Seq(V)]
    <3> DEFINE T == {i \in 1 .. n : fl[i] \in Seq(V)}
    <3>1. 1 \in T
      BY <2>1, <2>10
    <3>2. ASSUME NEW i \in 1 .. n - 1, i \in T PROVE i + 1 \in T
      <4>1. i + 1 \in 2 .. n /\ (i + 1) - 1 = i /\ i + 1 \in 1 .. n
        BY <1>1
      <4>2. fl[i + 1] = fl[i] \o P[i + 1]
        BY <2>10, <4>1
      <4>3. fl[i] \in Seq(V) /\ P[i + 1] \in Seq(V)
        BY <1>1, <3>2, <4>1
      <4>4. fl[i + 1] \in Seq(V)
        BY <4>2, <4>3, ConcatProperties
      <4>5. QED BY <4>1, <4>4
    <3>3. 1 .. n \subseteq T
      <4> HIDE DEF T, n
      <4>1. 1 \in Nat
        OBVIOUS
      <4>2. QED BY <1>1, <3>1, <3>2, <4>1, RangeInd
    <3>4. \A i \in 1 .. n : fl[i] \in Seq(V)
      BY <3>3
    <3>5. QED BY <3>4, EmptySeq
  <2>12. IsJoin(g, P)
    <3>1. ASSUME NEW i \in 1 .. n PROVE g[i] = g[i - 1] \o P[i]
      <4>1. CASE i = 1
        <5>1. g[1] = P[1] /\ g[0] = <<>>
          BY <2>1, <2>10
        <5>2. <<>> \o P[1] = P[1]
          BY <2>1, ConcatEmptySeq
        <5>3. QED BY <4>1, <5>1, <5>2
      <4>2. CASE i # 1
        <5>1. i \in 2 .. n /\ i - 1 \in 1 .. n
          BY <1>1, <4>2
        <5>2. g[i] = fl[i] /\ g[i - 1] = fl[i - 1]
          BY <5>1
        <5>3. QED BY <2>10, <5>1, <5>2
      <4>3. QED BY <4>1, <4>2
    <3>2. g[0] = <<>>
      BY <1>1
    <3> HIDE DEF g
    <3>3. QED BY <3>1, <3>2 DEF IsJoin
  <2>13. g[n] = fl[n]
    BY <1>1, <1>3
  <2> HIDE DEF g
  <2>14. QED BY <2>8, <2>11, <2>12, <2>13
<1>4. QED BY <1>2, <1>3

\* Any such g ends with all of them.
LEMMA FlattenIs ==
  ASSUME NEW V, NEW P \in Seq(Seq(V)), NEW g, IsJoin(g, P)
  PROVE  FlattenSeq(P) = g[Len(P)] /\ FlattenSeq(P) \in Seq(V)
<1>1. PICK f \in [0 .. Len(P) -> Seq(V)] : IsJoin(f, P) /\ FlattenSeq(P) = f[Len(P)]
  BY FlattenDef
<1>2. Len(P) \in Nat
  BY LenProperties
<1> DEFINE T == {i \in 0 .. Len(P) : g[i] = f[i]}
<1>3. 0 \in T
  BY <1>1, <1>2 DEF IsJoin
<1>4. ASSUME NEW i \in 0 .. Len(P) - 1, i \in T PROVE i + 1 \in T
  <2>1. i + 1 \in 1 .. Len(P) /\ (i + 1) - 1 = i /\ i + 1 \in 0 .. Len(P)
    BY <1>2
  <2>2. g[i + 1] = g[i] \o P[i + 1] /\ f[i + 1] = f[i] \o P[i + 1]
    BY <1>1, <2>1 DEF IsJoin
  <2>3. QED BY <1>4, <2>1, <2>2
<1>5. 0 .. Len(P) \subseteq T
  <2> HIDE DEF T
  <2>1. 0 \in Nat
    OBVIOUS
  <2>2. QED BY <1>2, <1>3, <1>4, <2>1, RangeInd
<1>6. QED BY <1>1, <1>2, <1>5

LEMMA JoinIsSeq ==
  ASSUME NEW V, NEW P \in Seq(Seq(V))
  PROVE  FlattenSeq(P) \in Seq(V)
<1>1. PICK g \in [0 .. Len(P) -> Seq(V)] : IsJoin(g, P) /\ FlattenSeq(P) = g[Len(P)]
  BY FlattenDef
<1>2. Len(P) \in 0 .. Len(P)
  BY LenProperties
<1>3. QED BY <1>1, <1>2

LEMMA FlattenEmpty ==
  FlattenSeq(<<>>) = <<>>
<1>1. Len(<<>>) = 0
  BY EmptySeq
<1>2. QED BY <1>1 DEF FlattenSeq

\* With one more at the end.
LEMMA FlattenAppend ==
  ASSUME NEW V, NEW P \in Seq(Seq(V)), NEW x \in Seq(V)
  PROVE  /\ FlattenSeq(Append(P, x)) = FlattenSeq(P) \o x
         /\ FlattenSeq(P) \in Seq(V)
<1> DEFINE n == Len(P)
           R == Append(P, x)
<1>1. n \in Nat
  BY LenProperties
<1>2. /\ R \in Seq(Seq(V)) /\ Len(R) = n + 1 /\ R[n + 1] = x
      /\ \A i \in 1 .. n : R[i] = P[i]
  BY AppendProperties
<1> HIDE DEF R
<1>3. PICK g \in [0 .. Len(R) -> Seq(V)] : IsJoin(g, R) /\ FlattenSeq(R) = g[Len(R)]
  BY <1>2, FlattenDef
<1>4. g[0] = <<>> /\ \A i \in 1 .. n + 1 : g[i] = g[i - 1] \o R[i]
  BY <1>2, <1>3 DEF IsJoin
<1>5. \A i \in 1 .. n : i \in 1 .. n + 1
  BY <1>1
<1>6. IsJoin(g, P)
  BY <1>2, <1>4, <1>5 DEF IsJoin
<1>7. FlattenSeq(P) = g[n] /\ FlattenSeq(P) \in Seq(V)
  BY <1>6, FlattenIs
<1>8. n + 1 \in 1 .. n + 1 /\ (n + 1) - 1 = n
  BY <1>1
<1>9. g[n + 1] = g[n] \o x
  BY <1>2, <1>4, <1>8
<1>10. QED BY <1>2, <1>3, <1>7, <1>9 DEF R

\* The first of them and the others.
LEMMA FlattenHead ==
  ASSUME NEW V, NEW P \in Seq(Seq(V)), P # <<>>
  PROVE  /\ FlattenSeq(P) = Head(P) \o FlattenSeq(Tail(P))
         /\ Head(P) \in Seq(V) /\ Tail(P) \in Seq(Seq(V)) /\ FlattenSeq(Tail(P)) \in Seq(V)
<1> DEFINE n == Len(P)
           R == Tail(P)
<1>1. n \in Nat \ {0} /\ Head(P) = P[1]
  BY EmptySeq
<1>2. /\ R \in Seq(Seq(V)) /\ Len(R) = n - 1 /\ Head(P) \in Seq(V)
      /\ \A i \in 1 .. Len(R) : R[i] = P[i + 1]
  BY HeadTailProperties
<1> HIDE DEF R
<1>3. PICK f \in [0 .. n -> Seq(V)] : IsJoin(f, P) /\ FlattenSeq(P) = f[n]
  BY FlattenDef
<1>4. PICK g \in [0 .. Len(R) -> Seq(V)] : IsJoin(g, R) /\ FlattenSeq(R) = g[Len(R)]
  BY <1>2, FlattenDef
<1> DEFINE T == {i \in 0 .. n - 1 : f[i + 1] = P[1] \o g[i]}
<1>5. 0 \in T
  <2>1. 1 \in 1 .. n /\ 1 - 1 = 0
    BY <1>1
  <2>2. f[1] = <<>> \o P[1] /\ g[0] = <<>>
    BY <1>3, <1>4, <2>1 DEF IsJoin
  <2>3. <<>> \o P[1] = P[1] /\ P[1] \o <<>> = P[1]
    BY <1>1, <1>2, ConcatEmptySeq
  <2>4. 0 \in 0 .. n - 1 /\ 0 + 1 = 1
    BY <1>1
  <2>5. QED BY <2>2, <2>3, <2>4
<1>6. ASSUME NEW i \in 0 .. (n - 1) - 1, i \in T PROVE i + 1 \in T
  <2>1. /\ i + 2 \in 1 .. n /\ (i + 2) - 1 = i + 1 /\ i + 1 \in 1 .. Len(R)
        /\ (i + 1) - 1 = i /\ (i + 1) + 1 = i + 2 /\ i \in 0 .. Len(R) /\ i + 1 \in 0 .. n - 1
    BY <1>1, <1>2
  <2>2. f[i + 2] = f[i + 1] \o P[i + 2] /\ g[i + 1] = g[i] \o R[i + 1]
    BY <1>3, <1>4, <2>1 DEF IsJoin
  <2>3. R[i + 1] = P[i + 2] /\ P[i + 2] \in Seq(V) /\ g[i] \in Seq(V)
    <3>1. R[i + 1] = P[i + 2]
      BY <1>2, <2>1
    <3>2. P[i + 2] \in Seq(V)
      BY <2>1, ElementOfSeq
    <3>3. QED BY <3>1, <3>2, <1>4, <2>1
  <2>4. (P[1] \o g[i]) \o P[i + 2] = P[1] \o (g[i] \o P[i + 2])
    <3>1. P[1] \in Seq(V)
      BY <1>1, <1>2
    <3>2. Associate(P[1], g[i], P[i + 2])
      BY <2>3, <3>1, JoinsAssociate
    <3>3. QED BY <3>2 DEF Associate
  <2>5. f[i + 1] = P[1] \o g[i]
    BY <1>6
  <2>6. f[(i + 1) + 1] = P[1] \o g[i + 1]
    BY <2>1, <2>2, <2>3, <2>4, <2>5
  <2>7. QED BY <2>1, <2>6
<1>7. 0 .. n - 1 \subseteq T
  <2> DEFINE k == n - 1
  <2>1. 0 \in Nat /\ k \in Nat
    BY <1>1
  <2>2. 0 \in T /\ \A i \in 0 .. k - 1 : i \in T => i + 1 \in T
    BY <1>5, <1>6
  <2> HIDE DEF T, n, k
  <2>3. 0 .. k \subseteq T
    BY <2>1, <2>2, RangeInd
  <2>4. QED BY <2>3 DEF k
<1>8. n - 1 \in 0 .. n - 1 /\ (n - 1) + 1 = n
  BY <1>1
<1>9. f[n] = P[1] \o g[n - 1]
  BY <1>7, <1>8
<1>10. g[Len(R)] \in Seq(V)
  <2>1. Len(R) \in 0 .. Len(R)
    BY <1>2, LenProperties
  <2>2. QED BY ONLY <1>4, <2>1
<1>11. QED BY <1>1, <1>2, <1>3, <1>4, <1>9, <1>10 DEF R

----------------------------------------------------------------------------
(* The inductive invariant.  B is the file, c the call, p the position.     *)

LineCalls == [op : {"lines"}, n : Nat, ok : BOOLEAN, skipNul : BOOLEAN, from : Nat,
              buf : Seq(Bytes), result : Seq(Seq(Bytes))]
StringCalls == [op : {"strings"}, n : Nat, from : Nat, buf : Seq(Bytes), result : Seq(Seq(Bytes))]
ItemCalls == [op : {"items"}, what : Whats, n : Nat, size : Nat \ {0}, swap : BOOLEAN,
              from : Nat, left : Nat, m : Nat, got : Seq(Bytes)]
WriteCalls == [op : {"writelines", "writestrings", "writeitems"}, pieces : Seq(Seq(Bytes)),
               whole : Seq(Bytes), from : Nat, before : Seq(Bytes), warned : BOOLEAN]
TextCalls == LineCalls \cup StringCalls \cup ItemCalls \cup WriteCalls

TextTypes ==
    /\ bytes \in Seq(Bytes) /\ Len(bytes) <= Capacity
    /\ pos \in 0 .. Len(bytes)
    /\ mode \in {"read", "write", "closed"}
    /\ call \in TextCalls \cup {NoCall}
    /\ call # NoCall => mode # "closed" /\ last = NoAnswer
    /\ call \in WriteCalls => mode = "write"

\* LineEnds and Line of the properties, for a given file.
EndsOf(B, from) == {i \in from + 1 .. Len(B) : B[i] = "nl"}
BeginOf(B, from, k) == IF k = 1 THEN from + 1 ELSE Nth(EndsOf(B, from) \cup {Len(B) + 1}, k - 1) + 1
TextOf(B, from, k) ==
    SubSeq(B, BeginOf(B, from, k), Nth(EndsOf(B, from) \cup {Len(B) + 1}, k) - 1)
Kept(skipNul, s) == IF skipNul THEN WithoutNuls(s) ELSE s
LineOf(B, from, k, skipNul) == CString(Kept(skipNul, TextOf(B, from, k)))

\* The line under way begins behind b: a line end, or where the call began.  What
\* has been read of it is in the buffer.
UpTo(S, i) == {j \in S : j <= i}
LineBegan(B, c, p, b) ==
    /\ c.result = <<>> => b = c.from
    /\ c.result # <<>> => b \in EndsOf(B, c.from)
    /\ Cardinality(UpTo(EndsOf(B, c.from), b)) = Len(c.result)
    /\ \A j \in b + 1 .. p : B[j] # "nl"
    /\ c.buf = Kept(c.skipNul, SubSeq(B, b + 1, p))
    /\ Len(c.result) = c.n => p = b
LineSound(B, c, p) ==
    /\ \E b \in c.from .. p : LineBegan(B, c, p, b)
    /\ \A k \in 1 .. Len(c.result) : /\ TextOf(B, c.from, k) \in Seq(Bytes)
                                     /\ c.result[k] = LineOf(B, c.from, k, c.skipNul)

\* On a connection for writing.
LineIdle(B, c, p) == c.result = <<>> /\ p = c.from /\ (p = Len(B) => c.buf = <<>>)

Nulled(result) == [k \in DOMAIN result |-> Append(result[k], "nul")]
AllShort(result) == \A k \in DOMAIN result : Len(result[k]) < Limit
StringSound(B, c, p) ==
    /\ Len(c.result) = c.n => c.buf = <<>>
    /\ AllShort(c.result) =>
          /\ FlattenSeq(Nulled(c.result)) \o c.buf = SubSeq(B, c.from + 1, p)
          /\ \A i \in 1 .. Len(c.buf) : c.buf[i] # "nul"

ItemSound(B, c, p) ==
    /\ p = c.from + Len(c.got) /\ c.got = SubSeq(B, c.from + 1, p)
    /\ c.left <= c.n
    /\ Len(c.got) = Least((c.n - c.left) * c.size, Len(B) - c.from)
    /\ AsIs(c) => c.m = Len(c.got)
    /\ ~AsIs(c) => c.m = c.n - c.left /\ c.m * c.size < Len(c.got) + c.size
    /\ IsComplex(c.what) => c.size > 1 /\ AsIs(c)

\* What has been written so far, and what there is still to write: the rest, or
\* nothing that fits.
WriteSound(B, c, p) ==
    LET n == p - c.from IN
    /\ c.from <= Len(c.before) /\ n <= Len(c.whole)
    /\ Len(B) = IF Len(c.before) < p THEN p ELSE Len(c.before)
    /\ \A i \in 1 .. n : B[c.from + i] = c.whole[i]
    /\ \A i \in 1 .. c.from : B[i] = c.before[i]
    /\ \A i \in p + 1 .. Len(B) : B[i] = c.before[i]
    /\ \/ p = Capacity
       \/ LET rest == FlattenSeq(c.pieces) IN
          /\ Len(rest) = Len(c.whole) - n
          /\ \A i \in 1 .. Len(rest) : rest[i] = c.whole[n + i]
    /\ c.op = "writestrings" => \A i \in 1 .. Len(c.pieces) : c.pieces[i] # <<>>

CallSound ==
    /\ call # NoCall => call.from <= pos
    /\ call \in LineCalls => /\ Len(call.result) <= call.n
                             /\ mode = "read" => LineSound(bytes, call, pos)
                             /\ mode = "write" => LineIdle(bytes, call, pos)
    /\ call \in StringCalls => /\ Len(call.result) <= call.n
                               /\ mode = "read" => StringSound(bytes, call, pos)
    /\ call \in ItemCalls /\ mode = "read" => ItemSound(bytes, call, pos)
    /\ call \in WriteCalls => WriteSound(bytes, call, pos)

\* The answer a is right, with the file B and the position at p.
LinesRight(B, a, p) ==
    LET E == EndsOf(B, a.from)
        n == Least(a.n, Cardinality(E) + 1)
    IN  /\ Len(a.result) = n
        /\ \A k \in 1 .. n : /\ TextOf(B, a.from, k) \in Seq(Bytes)
                             /\ a.result[k] = LineOf(B, a.from, k, a.skipNul)
        /\ p = IF n = 0 THEN a.from ELSE Least(Len(B), Nth(E \cup {Len(B) + 1}, n))
StringsRight(B, a, p) ==
    LET found == FlattenSeq([k \in DOMAIN a.result |-> Append(a.result[k], "nul")])
        rest == SubSeq(B, a.from + Len(found) + 1, p)
    IN  /\ found \o rest = SubSeq(B, a.from + 1, p)
        /\ "nul" \notin ToSet(rest)
        /\ Len(a.result) = a.n => rest = <<>>
        /\ Len(a.result) < a.n => p = Len(B)
ItemsRight(B, a, p) ==
    /\ a.got = SubSeq(B, a.from + 1, p)
    /\ Len(a.got) = Least(a.n * a.size, Len(B) - a.from)
    /\ Len(a.got) = a.n * a.size => a.length = a.n
    /\ a.size = 1 => a.length = Len(a.got)
WrittenRight(B, a, p) ==
    LET n == p - a.from IN
    /\ SubSeq(B, a.from + 1, p) = SubSeq(a.whole, 1, n)
    /\ n < Len(a.whole) => p = Capacity
    /\ SubSeq(B, 1, a.from) = SubSeq(a.before, 1, a.from)
    /\ SubSeq(B, p + 1, Len(B)) = SubSeq(a.before, p + 1, Len(a.before))
AnswerSound ==
    /\ last.is = "lines" => /\ last.from \in Nat /\ last.skipNul \in BOOLEAN
                            /\ last.result \in Seq(Seq(Bytes))
                            /\ LinesRight(bytes, last, pos)
    /\ last.is = "strings" /\ mode = "read" /\ AllShort(last.result) => StringsRight(bytes, last, pos)
    /\ last.is = "items" /\ mode = "read" => ItemsRight(bytes, last, pos)
    /\ last.is = "written" => WrittenRight(bytes, last, pos)

TextInv == TextTypes /\ CallSound /\ AnswerSound

----------------------------------------------------------------------------
(* Lines and buffers.                                                       *)

\* What a string in C shows of a buffer.
LEMMA CStringIs ==
  ASSUME NEW s \in Seq(Bytes)
  PROVE  /\ CString(s) \in Seq(Bytes)
         /\ (\A i \in 1 .. Len(s) : s[i] # "nul") => CString(s) = s
<1> DEFINE I == {i \in 1 .. Len(s) : s[i] = "nul"}
           k == IF I # {} THEN Min(I) ELSE 0
<1>1. Len(s) \in Nat
  BY LenProperties
<1>2. CString(s) = IF k = 0 THEN s ELSE SubSeq(s, 1, k - 1)
  BY DEF CString, SelectInSeq
<1>3. CASE I = {}
  BY <1>2, <1>3
<1>4. CASE I # {}
  <2>1. I \in SUBSET Nat
    OBVIOUS
  <2>2. \E n \in I : \A m \in I : n <= m
    <3> HIDE DEF I
    <3>1. QED BY <1>4, <2>1, NatMin
  <2>3. Min(I) \in I
    BY <2>2 DEF Min
  <2>4. k \in 1 .. Len(s)
    BY <1>4, <2>3
  <2>5. k - 1 \in 0 .. Len(s) /\ 0 \in 0 .. k - 1 /\ 0 + 1 = 1
    BY <1>1, <2>4
  <2>6. SubSeq(s, 0 + 1, k - 1) \in Seq(Bytes)
    <3> HIDE DEF k
    <3>1. QED BY <2>5, PartIs
  <2>7. CString(s) \in Seq(Bytes)
    BY <1>2, <2>4, <2>5, <2>6
  <2>8. QED BY <1>4, <2>7
<1>5. QED BY <1>3, <1>4

\* Leaving the nuls out, byte by byte.
LEMMA WithoutNulsIs ==
  ASSUME NEW s \in Seq(Bytes)
  PROVE  /\ WithoutNuls(s) \in Seq(Bytes) /\ \A i \in 1 .. Len(WithoutNuls(s)) : WithoutNuls(s)[i] # "nul"
         /\ \A x \in Bytes : WithoutNuls(Append(s, x)) =
                                IF x = "nul" THEN WithoutNuls(s) ELSE Append(WithoutNuls(s), x)
<1> DEFINE V == Bytes \ {"nul"}
           One(x) == IF x = "nul" THEN <<>> ELSE <<x>>
           P == [i \in 1 .. Len(s) |-> One(s[i])]
<1>1. Len(s) \in Nat /\ DOMAIN s = 1 .. Len(s) /\ \A i \in 1 .. Len(s) : s[i] \in Bytes
  BY LenProperties, ElementOfSeq
<1>2. ASSUME NEW x \in Bytes PROVE One(x) \in Seq(V)
  <2>1. x # "nul" => x \in V
    OBVIOUS
  <2> HIDE DEF V
  <2>2. QED BY <2>1
<1> HIDE DEF One, V
<1>3. P \in Seq(Seq(V)) /\ Len(P) = Len(s)
  BY <1>1, <1>2
<1>4. WithoutNuls(s) = FlattenSeq(P)
  BY <1>1 DEF WithoutNuls, One
<1> HIDE DEF P
<1>5. FlattenSeq(P) \in Seq(V)
  BY <1>2, <1>3, EmptySeq, FlattenAppend
<1>6. FlattenSeq(P) \in Seq(Bytes)
  BY <1>5, SeqMonotonic DEF V
<1>7. \A i \in 1 .. Len(FlattenSeq(P)) : FlattenSeq(P)[i] # "nul"
  BY <1>5, ElementOfSeq DEF V
<1>8. ASSUME NEW x \in Bytes
      PROVE  WithoutNuls(Append(s, x)) = IF x = "nul" THEN WithoutNuls(s) ELSE Append(WithoutNuls(s), x)
  <2> DEFINE t == Append(s, x)
             Q == [i \in 1 .. Len(t) |-> One(t[i])]
  <2>1. /\ t \in Seq(Bytes) /\ Len(t) = Len(s) + 1 /\ t[Len(s) + 1] = x
        /\ \A i \in 1 .. Len(s) : t[i] = s[i]
    BY AppendProperties
  <2>2. DOMAIN t = 1 .. Len(t)
    BY <2>1, LenProperties
  <2> HIDE DEF t
  <2>3. WithoutNuls(t) = FlattenSeq(Q)
    BY <2>2 DEF WithoutNuls, One
  <2>4. /\ Append(P, One(x)) \in Seq(Seq(V)) /\ Len(Append(P, One(x))) = Len(P) + 1
        /\ Append(P, One(x))[Len(P) + 1] = One(x)
        /\ \A i \in 1 .. Len(P) : Append(P, One(x))[i] = P[i]
    BY <1>2, <1>3, AppendProperties
  <2>5. Q \in Seq(Seq(V)) /\ Len(Q) = Len(s) + 1
    <3>1. \A i \in 1 .. Len(t) : t[i] \in Bytes
      BY <2>1, ElementOfSeq
    <3>2. QED BY <1>1, <1>2, <2>1, <3>1
  <2>6. ASSUME NEW i \in 1 .. Len(s) + 1 PROVE Q[i] = Append(P, One(x))[i]
    <3>1. Q[i] = One(t[i])
      BY <2>1
    <3>2. CASE i \in 1 .. Len(s)
      <4>1. P[i] = One(s[i])
        BY <3>2 DEF P
      <4>2. QED BY <1>3, <2>1, <2>4, <3>1, <3>2, <4>1
    <3>3. CASE i = Len(s) + 1
      BY <1>3, <2>1, <2>4, <3>1, <3>3
    <3>4. i \in 1 .. Len(s) \/ i = Len(s) + 1
      BY <1>1
    <3> HIDE DEF Q
    <3>5. QED BY <3>2, <3>3, <3>4
  <2> HIDE DEF Q
  <2>7. Q = Append(P, One(x))
    BY <1>3, <2>4, <2>5, <2>6, SeqEqual
  <2>8. FlattenSeq(Q) = FlattenSeq(P) \o One(x)
    BY <1>2, <1>3, <2>7, FlattenAppend
  <2>9. CASE x = "nul"
    <3>1. One(x) = <<>>
      BY <2>9 DEF One
    <3>2. FlattenSeq(P) \o <<>> = FlattenSeq(P)
      BY <1>5, ConcatEmptySeq
    <3>3. QED BY <1>4, <2>3, <2>8, <2>9, <3>1, <3>2 DEF t
  <2>10. CASE x # "nul"
    <3>1. One(x) = <<x>>
      BY <2>10 DEF One
    <3>2. Append(FlattenSeq(P), x) = FlattenSeq(P) \o <<x>>
      BY <1>6, AppendIsConcat
    <3>3. QED BY <1>4, <2>3, <2>8, <2>10, <3>1, <3>2 DEF t
  <2>11. QED BY <2>9, <2>10
<1>9. QED BY <1>4, <1>6, <1>7, <1>8

LEMMA WithoutNulsEmpty ==
  WithoutNuls(<<>>) = <<>>
<1> DEFINE P == [i \in DOMAIN <<>> |-> IF <<>>[i] = "nul" THEN <<>> ELSE << <<>>[i] >>]
<1>1. DOMAIN <<>> = {}
  OBVIOUS
<1>2. P = <<>>
  BY <1>1
<1> HIDE DEF P
<1>3. QED BY <1>2, FlattenEmpty DEF WithoutNuls, P

\* The line that a buffer becomes.
LEMMA KeptIs ==
  ASSUME NEW skipNul \in BOOLEAN, NEW s \in Seq(Bytes)
  PROVE  /\ Kept(skipNul, s) \in Seq(Bytes)
         /\ CString(Kept(skipNul, s)) = IF skipNul THEN WithoutNuls(s) ELSE CString(s)
         /\ \A x \in Bytes : Kept(skipNul, Append(s, x)) =
                 IF skipNul /\ x = "nul" THEN Kept(skipNul, s) ELSE Append(Kept(skipNul, s), x)
<1>1. CASE skipNul
  <2>1. WithoutNuls(s) \in Seq(Bytes) /\ \A i \in 1 .. Len(WithoutNuls(s)) : WithoutNuls(s)[i] # "nul"
    BY WithoutNulsIs
  <2>2. CString(WithoutNuls(s)) = WithoutNuls(s)
    BY <2>1, CStringIs
  <2>3. QED BY <1>1, <2>1, <2>2, WithoutNulsIs DEF Kept
<1>2. CASE ~skipNul
  BY <1>2 DEF Kept
<1>3. QED BY <1>1, <1>2

\* The line that the properties speak of.
LEMMA LineIs ==
  ASSUME bytes \in Seq(Bytes), NEW from \in Nat, NEW k, NEW skipNul \in BOOLEAN,
         TextOf(bytes, from, k) \in Seq(Bytes)
  PROVE  Line(from, k, skipNul) = LineOf(bytes, from, k, skipNul)
<1>1. LineEnds(from) = EndsOf(bytes, from)
  BY DEF LineEnds, EndsOf
<1>2. Line(from, k, skipNul) = IF skipNul THEN WithoutNuls(TextOf(bytes, from, k))
                                          ELSE CString(TextOf(bytes, from, k))
  BY <1>1 DEF Line, TextOf, BeginOf
<1>3. QED BY <1>2, KeptIs DEF LineOf

\* The k-th element of a set of numbers is the one with k elements up to it.
LEMMA NthIs ==
  ASSUME NEW S \in SUBSET Nat, IsFiniteSet(S), NEW i \in S, NEW k, Cardinality(UpTo(S, i)) = k
  PROVE  Nth(S, k) = i
<1>1. ASSUME NEW a \in S, NEW b \in S, a < b, Cardinality(UpTo(S, a)) = Cardinality(UpTo(S, b))
      PROVE  FALSE
  <2>1. UpTo(S, b) \in SUBSET S /\ UpTo(S, a) \in SUBSET UpTo(S, b)
    <3>1. ASSUME NEW j \in S, j <= a PROVE j <= b
      <4>1. j \in Nat /\ a \in Nat /\ b \in Nat
        OBVIOUS
      <4>2. QED BY <1>1, <3>1, <4>1
    <3>2. QED BY <3>1 DEF UpTo
  <2>2. IsFiniteSet(UpTo(S, b))
    BY <2>1, FS_Subset
  <2>3. UpTo(S, a) = UpTo(S, b)
    BY <1>1, <2>1, <2>2, FS_Subset
  <2>4. b \in UpTo(S, b) /\ b \notin UpTo(S, a)
    BY <1>1 DEF UpTo
  <2>5. QED BY <2>3, <2>4
<1>2. ASSUME NEW j \in S, Cardinality(UpTo(S, j)) = k PROVE j = i
  <2>1. j < i \/ i < j \/ i = j
    OBVIOUS
  <2>2. QED BY <1>1, <1>2, <2>1
<1>3. Nth(S, k) = CHOOSE j \in S : Cardinality(UpTo(S, j)) = k
  BY DEF Nth, UpTo
<1>4. QED BY <1>2, <1>3

LEMMA EndsAre ==
  ASSUME NEW B \in Seq(Bytes), NEW from \in Nat
  PROVE  /\ EndsOf(B, from) \in SUBSET (from + 1 .. Len(B)) /\ IsFiniteSet(EndsOf(B, from))
         /\ EndsOf(B, from) \cup {Len(B) + 1} \in SUBSET Nat
         /\ IsFiniteSet(EndsOf(B, from) \cup {Len(B) + 1})
         /\ \A i : IsFiniteSet(UpTo(EndsOf(B, from), i))
                   /\ UpTo(EndsOf(B, from), i) \in SUBSET EndsOf(B, from)
<1> DEFINE E == EndsOf(B, from)
<1>1. Len(B) \in Nat
  BY LenProperties
<1>2. E \in SUBSET (from + 1 .. Len(B)) /\ E \cup {Len(B) + 1} \in SUBSET Nat
  BY <1>1 DEF EndsOf
<1>3. IsFiniteSet(from + 1 .. Len(B))
  BY <1>1, FS_Interval
<1> HIDE DEF E
<1>4. IsFiniteSet(E)
  BY <1>2, <1>3, FS_Subset
<1>5. IsFiniteSet(E \cup {Len(B) + 1})
  BY <1>4, FS_AddElement
<1>6. ASSUME NEW i PROVE IsFiniteSet(UpTo(E, i)) /\ UpTo(E, i) \in SUBSET E
  <2>1. UpTo(E, i) \in SUBSET E
    BY DEF UpTo
  <2>2. QED BY <1>4, <2>1, FS_Subset
<1>7. QED BY <1>2, <1>4, <1>5, <1>6 DEF E

\* The line under way, when it ends before p + 1: at a line end or with the file.
LineDone(B, c, p, b) ==
    LET E == EndsOf(B, c.from)
        r == Len(c.result)
    IN  /\ TextOf(B, c.from, r + 1) = SubSeq(B, b + 1, p)
        /\ LineOf(B, c.from, r + 1, c.skipNul) = CString(c.buf)
        /\ Nth(E \cup {Len(B) + 1}, r + 1) = p + 1
        /\ r > 0 => Nth(E \cup {Len(B) + 1}, r) = b
        /\ p + 1 \in E => Cardinality(UpTo(E, p + 1)) = r + 1
        /\ p = Len(B) => Cardinality(E) = r

LEMMA LineUnderWay ==
  ASSUME NEW B \in Seq(Bytes), NEW c \in LineCalls, NEW p \in 0 .. Len(B), c.from <= p,
         NEW b \in c.from .. p, LineBegan(B, c, p, b),
         \/ p + 1 \in EndsOf(B, c.from)
         \/ p = Len(B)
  PROVE  LineDone(B, c, p, b)
<1> DEFINE E == EndsOf(B, c.from)
           r == Len(c.result)
           L == Len(B)
           S == E \cup {L + 1}
<1>1. L \in Nat /\ r \in Nat /\ c.from \in Nat /\ b \in Nat /\ p \in Nat /\ b <= p /\ c.from <= b
  BY LenProperties DEF LineCalls
<1>2. /\ E \in SUBSET (c.from + 1 .. L) /\ S \in SUBSET Nat /\ IsFiniteSet(S)
      /\ \A i : IsFiniteSet(UpTo(E, i)) /\ UpTo(E, i) \in SUBSET E
  BY <1>1, EndsAre
<1>3. /\ r = 0 => b = c.from
      /\ r > 0 => b \in E
      /\ Cardinality(UpTo(E, b)) = r
      /\ \A j \in b + 1 .. p : B[j] # "nl"
  BY EmptySeq DEF LineBegan, LineCalls
<1>4. p + 1 \in S
  BY <1>1
<1>5. \A j \in E : j <= p => j <= b
  <2>1. \A j \in E : B[j] = "nl"
    BY DEF EndsOf
  <2>2. ASSUME NEW j \in E, j <= p, ~(j <= b) PROVE FALSE
    <3>1. j \in b + 1 .. p
      BY <1>1, <1>2, <2>2
    <3>2. QED BY <1>3, <2>1, <3>1
  <2>3. QED BY <2>2
<1> HIDE DEF E, r, L
<1>6. UpTo(S, b) = UpTo(E, b)
  BY <1>1, <1>2 DEF UpTo, L
<1>7. UpTo(S, p + 1) = UpTo(E, b) \cup {p + 1} /\ p + 1 \notin UpTo(E, b)
  <2>1. \A j \in S : j <= p + 1 => j <= p \/ j = p + 1
    BY <1>1, <1>2
  <2>2. \A j \in S : j <= p => j \in E
    BY <1>1, <1>2 DEF L
  <2>3. \A j \in S : j <= p + 1 => (j \in E /\ j <= b) \/ j = p + 1
    BY <1>5, <2>1, <2>2
  <2>4. \A j \in E : j <= b => j \in S /\ j <= p + 1
    BY <1>1, <1>2
  <2>5. ~(p + 1 <= b) /\ p + 1 <= p + 1
    BY <1>1
  <2>6. QED BY <1>4, <2>3, <2>4, <2>5 DEF UpTo
<1>8. Cardinality(UpTo(S, p + 1)) = r + 1
  BY <1>2, <1>3, <1>7, FS_AddElement
<1>9. Nth(S, r + 1) = p + 1
  BY <1>2, <1>4, <1>8, NthIs
<1>10. r > 0 => Nth(S, r) = b
  BY <1>2, <1>3, <1>6, NthIs
<1>11. BeginOf(B, c.from, r + 1) = b + 1
  <2>1. CASE r = 0
    BY <1>3, <2>1 DEF BeginOf
  <2>2. CASE r # 0
    <3>1. r + 1 # 1 /\ (r + 1) - 1 = r /\ r > 0
      BY <1>1, <2>2
    <3>2. QED BY <1>10, <3>1 DEF BeginOf, E, L
  <2>3. QED BY <2>1, <2>2
<1>12. TextOf(B, c.from, r + 1) = SubSeq(B, b + 1, p)
  <2>1. (p + 1) - 1 = p
    BY <1>1
  <2>2. QED BY <1>9, <1>11, <2>1 DEF TextOf, E, L
<1>13. LineOf(B, c.from, r + 1, c.skipNul) = CString(c.buf)
  <2>1. c.buf = Kept(c.skipNul, SubSeq(B, b + 1, p))
    BY DEF LineBegan
  <2>2. QED BY <1>12, <2>1 DEF LineOf
<1>14. p + 1 \in E => UpTo(E, p + 1) = UpTo(S, p + 1)
  BY <1>1, <1>2 DEF UpTo, L
<1>15. p = L => Cardinality(E) = r
  <2>1. ASSUME p = L PROVE UpTo(E, b) = E
    <3>1. ASSUME NEW j \in E PROVE j <= p
      <4>1. j \in c.from + 1 .. L
        BY <1>2
      <4>2. QED BY <1>1, <2>1, <4>1
    <3>2. QED BY <1>5, <3>1 DEF UpTo
  <2>2. QED BY <1>3, <2>1
<1>16. QED BY <1>8, <1>9, <1>10, <1>12, <1>13, <1>14, <1>15 DEF LineDone, E, r, L

LEMMA LineBegins ==
  ASSUME NEW B \in Seq(Bytes), NEW c \in LineCalls, c.from \in 0 .. Len(B),
         c.buf = <<>>, c.result = <<>>
  PROVE  LineSound(B, c, c.from)
<1> DEFINE p == c.from
           E == EndsOf(B, p)
<1>1. p \in Nat /\ Len(B) \in Nat /\ p < p + 1 /\ Len(c.result) = 0
  BY LenProperties, EmptySeq
<1>2. E \in SUBSET (p + 1 .. Len(B))
  BY <1>1, EndsAre
<1>3. UpTo(E, p) = {}
  BY <1>1, <1>2 DEF UpTo
<1>4. SubSeq(B, p + 1, p) = <<>>
  BY <1>1, SubSeqEmpty
<1>5. Kept(c.skipNul, <<>>) = <<>>
  BY WithoutNulsEmpty DEF Kept
<1>6. \A j \in p + 1 .. p : FALSE
  BY <1>1
<1>7. LineBegan(B, c, p, p)
  BY <1>1, <1>3, <1>4, <1>5, <1>6, FS_EmptySet DEF LineBegan
<1>8. p \in c.from .. p /\ \A k \in 1 .. Len(c.result) : FALSE
  BY <1>1
<1>9. QED BY <1>7, <1>8 DEF LineSound

\* A byte of the line under way.
LEMMA LineByteSound ==
  ASSUME NEW B \in Seq(Bytes), NEW c \in LineCalls, NEW p \in 0 .. Len(B) - 1, c.from <= p,
         LineSound(B, c, p), Len(c.result) < c.n, B[p + 1] # "nl",
         NEW d \in LineCalls, d.n = c.n, d.from = c.from, d.result = c.result, d.skipNul = c.skipNul,
         d.buf = IF c.skipNul /\ B[p + 1] = "nul" THEN c.buf ELSE Append(c.buf, B[p + 1])
  PROVE  LineSound(B, d, p + 1)
<1>1. PICK b \in c.from .. p : LineBegan(B, c, p, b)
  BY DEF LineSound
<1>2. /\ Len(B) \in Nat /\ c.from \in Nat /\ b \in c.from .. p + 1 /\ p + 1 \in 1 .. Len(B)
      /\ b \in 0 .. p /\ p \in 0 .. Len(B) /\ c.n \in Nat /\ Len(c.result) \in Nat
  BY LenProperties DEF LineCalls
<1>3. B[p + 1] \in Bytes
  BY <1>2, ElementOfSeq
<1> DEFINE s == SubSeq(B, b + 1, p)
<1>4. s \in Seq(Bytes) /\ SubSeq(B, b + 1, p + 1) = Append(s, B[p + 1])
  BY <1>2, PartIs, PartGrows
<1> HIDE DEF s
<1>5. c.skipNul \in BOOLEAN
  BY DEF LineCalls
<1>6. Kept(c.skipNul, Append(s, B[p + 1])) =
         IF c.skipNul /\ B[p + 1] = "nul" THEN Kept(c.skipNul, s) ELSE Append(Kept(c.skipNul, s), B[p + 1])
  BY <1>3, <1>4, <1>5, KeptIs
<1>7. c.buf = Kept(c.skipNul, s)
  BY <1>1 DEF LineBegan, s
<1>8. d.buf = Kept(d.skipNul, SubSeq(B, b + 1, p + 1))
  BY <1>4, <1>6, <1>7
<1>9. ASSUME NEW j \in b + 1 .. p + 1 PROVE B[j] # "nl"
  <2>1. j \in b + 1 .. p \/ j = p + 1
    BY <1>2
  <2>2. QED BY <1>1, <2>1 DEF LineBegan
<1>10. LineBegan(B, d, p + 1, b)
  BY <1>1, <1>2, <1>8, <1>9 DEF LineBegan
<1>11. QED BY <1>2, <1>10 DEF LineSound

\* The line under way is complete.
LEMMA LineEndSound ==
  ASSUME NEW B \in Seq(Bytes), NEW c \in LineCalls, NEW p \in 0 .. Len(B) - 1, c.from <= p,
         LineSound(B, c, p), Len(c.result) < c.n, B[p + 1] = "nl",
         NEW d \in LineCalls, d.n = c.n, d.from = c.from, d.skipNul = c.skipNul,
         d.buf = <<>>, d.result = Append(c.result, CString(c.buf))
  PROVE  LineSound(B, d, p + 1)
<1> DEFINE r == Len(c.result)
           E == EndsOf(B, c.from)
<1>1. PICK b \in c.from .. p : LineBegan(B, c, p, b)
  BY DEF LineSound
<1>2. /\ Len(B) \in Nat /\ c.from \in Nat /\ p + 1 \in 1 .. Len(B) /\ p \in 0 .. Len(B)
      /\ b \in 0 .. p /\ r \in Nat /\ c.result \in Seq(Seq(Bytes)) /\ c.buf \in Seq(Bytes)
  BY LenProperties DEF LineCalls
<1>3. p + 1 \in E
  BY <1>2 DEF EndsOf
<1>4. /\ TextOf(B, c.from, r + 1) = SubSeq(B, b + 1, p)
      /\ LineOf(B, c.from, r + 1, c.skipNul) = CString(c.buf)
      /\ Cardinality(UpTo(E, p + 1)) = r + 1
  <2>1. LineDone(B, c, p, b)
    BY <1>1, <1>2, <1>3, LineUnderWay
  <2>2. QED BY <1>3, <2>1 DEF LineDone
<1>5. TextOf(B, c.from, r + 1) \in Seq(Bytes)
  BY <1>2, <1>4, PartIs
<1>6. CString(c.buf) \in Seq(Bytes)
  BY <1>2, CStringIs
<1>7. /\ Len(d.result) = r + 1 /\ d.result # <<>> /\ d.result[r + 1] = CString(c.buf)
      /\ \A k \in 1 .. r : d.result[k] = c.result[k]
  BY <1>2, <1>6, AppendProperties
<1>8. ASSUME NEW k \in 1 .. Len(d.result)
      PROVE  /\ TextOf(B, d.from, k) \in Seq(Bytes)
             /\ d.result[k] = LineOf(B, d.from, k, d.skipNul)
  <2>1. k \in 1 .. r \/ k = r + 1
    BY <1>2, <1>7
  <2>2. CASE k = r + 1
    BY <1>4, <1>5, <1>7, <2>2
  <2>3. CASE k \in 1 .. r
    BY <1>7, <2>3 DEF LineSound
  <2>4. QED BY <2>1, <2>2, <2>3
<1> DEFINE q == p + 1
<1>9. /\ SubSeq(B, q + 1, q) = <<>> /\ Kept(d.skipNul, <<>>) = <<>>
      /\ \A j \in q + 1 .. q : FALSE
  BY <1>2, SubSeqEmpty, WithoutNulsEmpty DEF Kept
<1>10. LineBegan(B, d, q, q)
  BY <1>3, <1>4, <1>7, <1>9 DEF LineBegan
<1>11. q \in d.from .. q
  BY <1>2
<1>12. QED BY <1>8, <1>10, <1>11 DEF LineSound

LEMMA LinesAreRight ==
  ASSUME bytes \in Seq(Bytes), last.from \in Nat, last.skipNul \in BOOLEAN,
         last.result \in Seq(Seq(Bytes)), LinesRight(bytes, last, pos)
  PROVE  LinesAreThere
<1> DEFINE n == Least(last.n, Cardinality(LineEnds(last.from)) + 1)
<1>1. LineEnds(last.from) = EndsOf(bytes, last.from)
  BY DEF LineEnds, EndsOf
<1>2. /\ Len(last.result) = n
      /\ \A k \in 1 .. n : /\ TextOf(bytes, last.from, k) \in Seq(Bytes)
                           /\ last.result[k] = LineOf(bytes, last.from, k, last.skipNul)
      /\ pos = IF n = 0 THEN last.from
               ELSE Least(Len(bytes), Nth(LineEnds(last.from) \cup {Len(bytes) + 1}, n))
  BY <1>1 DEF LinesRight
<1>3. \A k \in 1 .. n : last.result[k] = Line(last.from, k, last.skipNul)
  BY <1>2, LineIs
<1>4. DOMAIN last.result = 1 .. n
  BY <1>2, LenProperties
<1>5. last.result \in [1 .. n -> Seq(Bytes)]
  BY <1>2, LenProperties
<1> HIDE DEF n
<1>6. last.result = [k \in 1 .. n |-> Line(last.from, k, last.skipNul)]
  BY <1>3, <1>5
<1>7. /\ n = Least(last.n, Cardinality(LineEnds(last.from)) + 1)
      /\ n = Len(last.result)
  BY <1>2 DEF n
<1>8. QED BY <1>2, <1>6, <1>7 DEF LinesAreThere

\* The file ends: what is behind the last line end is a line.
LEMMA LastLine ==
  ASSUME NEW B \in Seq(Bytes), NEW c \in LineCalls, NEW p, p = Len(B), c.from <= p,
         LineSound(B, c, p), Len(c.result) < c.n,
         NEW a, a.n = c.n, a.from = c.from, a.skipNul = c.skipNul,
         a.result = Append(c.result, CString(c.buf))
  PROVE  LinesRight(B, a, p)
<1> DEFINE r == Len(c.result)
           E == EndsOf(B, c.from)
           L == Len(B)
<1>1. L \in Nat /\ p \in 0 .. L
  BY LenProperties
<1>2. PICK b \in c.from .. p : LineBegan(B, c, p, b)
  BY DEF LineSound
<1>3. /\ c.from \in Nat /\ b \in 0 .. p /\ r \in Nat /\ c.n \in Nat
      /\ c.result \in Seq(Seq(Bytes)) /\ c.buf \in Seq(Bytes)
  BY <1>1, LenProperties DEF LineCalls
<1>4. /\ TextOf(B, c.from, r + 1) = SubSeq(B, b + 1, p)
      /\ LineOf(B, c.from, r + 1, c.skipNul) = CString(c.buf)
      /\ Nth(E \cup {L + 1}, r + 1) = L + 1
      /\ Cardinality(E) = r
  <2>1. LineDone(B, c, p, b)
    BY <1>1, <1>2, LineUnderWay
  <2>2. QED BY <2>1 DEF LineDone
<1>5. TextOf(B, c.from, r + 1) \in Seq(Bytes)
  BY <1>1, <1>3, <1>4, PartIs
<1>6. CString(c.buf) \in Seq(Bytes)
  BY <1>3, CStringIs
<1>7. /\ Len(a.result) = r + 1 /\ a.result[r + 1] = CString(c.buf)
      /\ \A k \in 1 .. r : a.result[k] = c.result[k]
  BY <1>3, <1>6, AppendProperties
<1>8. Least(a.n, Cardinality(E) + 1) = r + 1
  BY <1>3, <1>4 DEF Least
<1>9. ASSUME NEW k \in 1 .. r + 1
      PROVE  /\ TextOf(B, a.from, k) \in Seq(Bytes)
             /\ a.result[k] = LineOf(B, a.from, k, a.skipNul)
  <2>1. k \in 1 .. r \/ k = r + 1
    BY <1>3
  <2>2. CASE k = r + 1
    BY <1>4, <1>5, <1>7, <2>2
  <2>3. CASE k \in 1 .. r
    BY <1>7, <2>3 DEF LineSound
  <2>4. QED BY <2>1, <2>2, <2>3
<1>10. p = Least(L, L + 1) /\ r + 1 # 0
  BY <1>1, <1>3 DEF Least
<1>11. QED BY <1>4, <1>7, <1>8, <1>9, <1>10 DEF LinesRight

\* There are as many lines as were asked for.
LEMMA AllLines ==
  ASSUME NEW B \in Seq(Bytes), NEW c \in LineCalls, NEW p \in 0 .. Len(B), c.from <= p,
         LineSound(B, c, p), Len(c.result) = c.n,
         NEW a, a.n = c.n, a.from = c.from, a.skipNul = c.skipNul, a.result = c.result
  PROVE  LinesRight(B, a, p)
<1> DEFINE r == Len(c.result)
           E == EndsOf(B, c.from)
           L == Len(B)
           S == E \cup {L + 1}
<1>1. L \in Nat /\ p \in 0 .. L
  BY LenProperties
<1>2. PICK b \in c.from .. p : LineBegan(B, c, p, b)
  BY DEF LineSound
<1>3. c.from \in Nat /\ b = p /\ r \in Nat /\ c.n \in Nat /\ (r = 0 <=> c.result = <<>>)
  BY <1>2, LenProperties, EmptySeq DEF LineCalls, LineBegan
<1>4. /\ E \in SUBSET (c.from + 1 .. L) /\ IsFiniteSet(E)
      /\ S \in SUBSET Nat /\ IsFiniteSet(S) /\ UpTo(E, p) \in SUBSET E
  BY <1>3, EndsAre
<1>5. Cardinality(UpTo(E, p)) = r
  BY <1>2, <1>3 DEF LineBegan
<1>6. Cardinality(E) \in Nat /\ r <= Cardinality(E)
  BY <1>4, <1>5, FS_Subset, FS_CardinalityType
<1>7. Least(a.n, Cardinality(E) + 1) = r
  BY <1>3, <1>6 DEF Least
<1>8. CASE r = 0
  BY <1>2, <1>3, <1>7, <1>8 DEF LinesRight, LineBegan
<1>9. CASE r # 0
  <2>1. p \in E
    BY <1>2, <1>3, <1>9 DEF LineBegan
  <2> HIDE DEF E, L
  <2>2. UpTo(S, p) = UpTo(E, p)
    BY <1>1 DEF UpTo
  <2>3. Nth(S, r) = p
    BY <1>4, <1>5, <2>1, <2>2, NthIs
  <2>4. p = Least(L, p)
    BY <1>1 DEF Least
  <2>5. QED BY <1>7, <1>9, <2>3, <2>4 DEF LinesRight, LineSound, E, L
<1>10. QED BY <1>8, <1>9

\* None were asked for.
LEMMA NoLines ==
  ASSUME NEW B \in Seq(Bytes), NEW a, a.n = 0, a.from \in Nat, a.result = <<>>
  PROVE  LinesRight(B, a, a.from)
<1>1. Cardinality(EndsOf(B, a.from)) \in Nat
  BY EndsAre, FS_CardinalityType
<1>2. Least(a.n, Cardinality(EndsOf(B, a.from)) + 1) = 0
  BY <1>1 DEF Least
<1>3. Len(a.result) = 0 /\ \A k \in 1 .. 0 : FALSE
  BY EmptySeq
<1>4. QED BY <1>2, <1>3 DEF LinesRight

----------------------------------------------------------------------------
(* Strings.                                                                 *)

Appends(s, t, x) == s \o Append(t, x) = Append(s \o t, x)

LEMMA AppendedBehind ==
  ASSUME NEW V, NEW s \in Seq(V), NEW t \in Seq(V), NEW x \in V
  PROVE  Appends(s, t, x)
<1>1. s \o t \in Seq(V) /\ <<x>> \in Seq(V)
  BY ConcatProperties
<1>2. Append(t, x) = t \o <<x>> /\ Append(s \o t, x) = (s \o t) \o <<x>>
  BY <1>1, AppendIsConcat
<1>3. Associate(s, t, <<x>>)
  BY <1>1, JoinsAssociate
<1>4. QED BY <1>2, <1>3 DEF Associate, Appends

LEMMA NulledIs ==
  ASSUME NEW R \in Seq(Seq(Bytes))
  PROVE  /\ Nulled(R) \in Seq(Seq(Bytes)) /\ FlattenSeq(Nulled(R)) \in Seq(Bytes)
         /\ \A x \in Seq(Bytes) : Nulled(Append(R, x)) = Append(Nulled(R), Append(x, "nul"))
<1>1. \A x \in Seq(Bytes) : Append(x, "nul") \in Seq(Bytes)
  BY AppendProperties DEF Bytes
<1>2. ASSUME NEW S \in Seq(Seq(Bytes))
      PROVE  /\ Nulled(S) \in Seq(Seq(Bytes)) /\ Len(Nulled(S)) = Len(S)
             /\ \A i \in 1 .. Len(S) : Nulled(S)[i] = Append(S[i], "nul")
  <2>1. Len(S) \in Nat /\ DOMAIN S = 1 .. Len(S) /\ \A i \in 1 .. Len(S) : S[i] \in Seq(Bytes)
    BY LenProperties, ElementOfSeq
  <2>2. Nulled(S) = [k \in 1 .. Len(S) |-> Append(S[k], "nul")]
    BY <2>1 DEF Nulled
  <2>3. \A i \in 1 .. Len(S) : Append(S[i], "nul") \in Seq(Bytes)
    BY <1>1, <2>1
  <2>4. QED BY <2>1, <2>2, <2>3
<1>3. FlattenSeq(Nulled(R)) \in Seq(Bytes)
  BY <1>2, EmptySeq, FlattenAppend
<1>4. ASSUME NEW x \in Seq(Bytes)
      PROVE  Nulled(Append(R, x)) = Append(Nulled(R), Append(x, "nul"))
  <2> DEFINE S == Append(R, x)
             T == Append(Nulled(R), Append(x, "nul"))
  <2>1. /\ S \in Seq(Seq(Bytes)) /\ Len(S) = Len(R) + 1 /\ S[Len(R) + 1] = x
        /\ \A i \in 1 .. Len(R) : S[i] = R[i]
    BY AppendProperties
  <2>2. /\ T \in Seq(Seq(Bytes)) /\ Len(T) = Len(R) + 1 /\ T[Len(R) + 1] = Append(x, "nul")
        /\ \A i \in 1 .. Len(R) : T[i] = Nulled(R)[i]
    BY <1>1, <1>2, AppendProperties
  <2> HIDE DEF S, T
  <2>3. Nulled(S) \in Seq(Seq(Bytes)) /\ Len(Nulled(S)) = Len(T)
    BY <1>2, <2>1, <2>2
  <2>4. Len(R) \in Nat
    BY LenProperties
  <2>5. ASSUME NEW i \in 1 .. Len(R) + 1 PROVE Nulled(S)[i] = T[i]
    <3>1. Nulled(S)[i] = Append(S[i], "nul")
      BY <1>2, <2>1
    <3>2. CASE i \in 1 .. Len(R)
      BY <1>2, <2>1, <2>2, <3>1, <3>2
    <3>3. CASE i = Len(R) + 1
      BY <2>1, <2>2, <3>1, <3>3
    <3>4. QED BY <2>4, <3>2, <3>3
  <2>6. Nulled(S) = T
    BY <2>2, <2>3, <2>5, SeqEqual
  <2>7. QED BY <2>6 DEF S, T
<1>5. QED BY <1>2, <1>3, <1>4

LEMMA StringBegins ==
  ASSUME NEW B \in Seq(Bytes), NEW c \in StringCalls, c.buf = <<>>, c.result = <<>>
  PROVE  StringSound(B, c, c.from)
<1>1. c.from \in Nat
  BY DEF StringCalls
<1>2. SubSeq(B, c.from + 1, c.from) = <<>>
  BY <1>1, SubSeqEmpty
<1>3. Nulled(<<>>) = <<>> /\ Len(<<>>) = 0
  BY EmptySeq DEF Nulled
<1>4. <<>> \o <<>> = <<>>
  BY ConcatEmptySeq, EmptySeq
<1>5. FlattenSeq(Nulled(c.result)) \o c.buf = SubSeq(B, c.from + 1, c.from)
  BY <1>2, <1>3, <1>4, FlattenEmpty
<1>6. \A i \in 1 .. Len(c.buf) : FALSE
  BY <1>3
<1>7. QED BY <1>5, <1>6 DEF StringSound

\* A byte of the string under way.
LEMMA StringByteSound ==
  ASSUME NEW B \in Seq(Bytes), NEW c \in StringCalls, NEW p \in 0 .. Len(B) - 1, c.from <= p,
         StringSound(B, c, p), Len(c.result) < c.n, B[p + 1] # "nul",
         NEW d \in StringCalls, d.n = c.n, d.from = c.from, d.result = c.result,
         d.buf = Append(c.buf, B[p + 1])
  PROVE  StringSound(B, d, p + 1)
<1>1. /\ Len(B) \in Nat /\ c.from \in 0 .. p /\ p \in 0 .. Len(B) - 1 /\ c.buf \in Seq(Bytes)
      /\ c.result \in Seq(Seq(Bytes)) /\ c.n \in Nat /\ p + 1 \in 1 .. Len(B)
      /\ Len(c.buf) \in Nat /\ Len(c.result) \in Nat
  BY LenProperties DEF StringCalls
<1>2. B[p + 1] \in Bytes
  BY <1>1, ElementOfSeq
<1>3. ASSUME AllShort(c.result)
      PROVE  FlattenSeq(Nulled(c.result)) \o d.buf = SubSeq(B, c.from + 1, p + 1)
  <2> DEFINE F == FlattenSeq(Nulled(c.result))
  <2>1. F \in Seq(Bytes) /\ F \o c.buf = SubSeq(B, c.from + 1, p)
    BY <1>1, <1>3, NulledIs DEF StringSound
  <2> HIDE DEF F
  <2>2. Appends(F, c.buf, B[p + 1])
    BY <1>1, <1>2, <2>1, AppendedBehind
  <2>3. SubSeq(B, c.from + 1, p + 1) = Append(SubSeq(B, c.from + 1, p), B[p + 1])
    BY <1>1, PartGrows
  <2>4. QED BY <2>1, <2>2, <2>3 DEF F, Appends
<1>4. /\ Len(d.buf) = Len(c.buf) + 1 /\ d.buf[Len(c.buf) + 1] = B[p + 1]
      /\ \A i \in 1 .. Len(c.buf) : d.buf[i] = c.buf[i]
  BY <1>1, <1>2, AppendProperties
<1>5. ASSUME AllShort(c.result), NEW i \in 1 .. Len(d.buf) PROVE d.buf[i] # "nul"
  <2>1. i \in 1 .. Len(c.buf) \/ i = Len(c.buf) + 1
    BY <1>1, <1>4
  <2>2. QED BY <1>4, <1>5, <2>1 DEF StringSound
<1>6. Len(d.result) # d.n
  BY <1>1
<1>7. QED BY <1>3, <1>5, <1>6 DEF StringSound

\* The string under way is complete.
LEMMA StringNulSound ==
  ASSUME NEW B \in Seq(Bytes), NEW c \in StringCalls, NEW p \in 0 .. Len(B) - 1, c.from <= p,
         StringSound(B, c, p), B[p + 1] = "nul",
         NEW d \in StringCalls, d.n = c.n, d.from = c.from, d.buf = <<>>,
         d.result = Append(c.result, c.buf)
  PROVE  StringSound(B, d, p + 1)
<1>1. /\ Len(B) \in Nat /\ c.from \in 0 .. p /\ p \in 0 .. Len(B) - 1 /\ c.buf \in Seq(Bytes)
      /\ c.result \in Seq(Seq(Bytes)) /\ Len(c.result) \in Nat
  BY LenProperties DEF StringCalls
<1>2. ASSUME AllShort(d.result)
      PROVE  FlattenSeq(Nulled(d.result)) \o d.buf = SubSeq(B, c.from + 1, p + 1)
  <2> DEFINE F == FlattenSeq(Nulled(c.result))
             x == Append(c.buf, "nul")
  <2>1. /\ Len(d.result) = Len(c.result) + 1
        /\ \A k \in 1 .. Len(c.result) : d.result[k] = c.result[k]
        /\ DOMAIN d.result = 1 .. Len(d.result) /\ DOMAIN c.result = 1 .. Len(c.result)
    BY <1>1, AppendProperties, LenProperties DEF StringCalls
  <2>2. AllShort(c.result)
    BY <1>1, <1>2, <2>1 DEF AllShort
  <2>3. /\ F \in Seq(Bytes) /\ F \o c.buf = SubSeq(B, c.from + 1, p)
        /\ Nulled(c.result) \in Seq(Seq(Bytes)) /\ Nulled(d.result) = Append(Nulled(c.result), x)
    BY <1>1, <2>2, NulledIs DEF StringSound
  <2>4. "nul" \in Bytes /\ x \in Seq(Bytes)
    BY <1>1, AppendProperties DEF Bytes
  <2> HIDE DEF x
  <2>5. FlattenSeq(Nulled(d.result)) = F \o x
    BY <2>3, <2>4, FlattenAppend
  <2> HIDE DEF F
  <2>6. Appends(F, c.buf, "nul")
    BY <1>1, <2>3, <2>4, AppendedBehind
  <2>7. SubSeq(B, c.from + 1, p + 1) = Append(SubSeq(B, c.from + 1, p), B[p + 1])
    BY <1>1, PartGrows
  <2>8. F \o x \in Seq(Bytes)
    BY <2>3, <2>4, ConcatProperties
  <2>9. (F \o x) \o <<>> = F \o x
    BY <2>8, ConcatEmptySeq
  <2>10. F \o x = SubSeq(B, c.from + 1, p + 1)
    BY <2>3, <2>6, <2>7 DEF Appends, x
  <2>11. QED BY <2>5, <2>9, <2>10
<1>3. \A i \in 1 .. Len(d.buf) : FALSE
  BY EmptySeq
<1>4. QED BY <1>2, <1>3 DEF StringSound

LEMMA StringsAreRight ==
  ASSUME NEW B \in Seq(Bytes), NEW c \in StringCalls, NEW p \in 0 .. Len(B), c.from <= p,
         StringSound(B, c, p), Len(c.result) <= c.n,
         Len(c.result) = c.n \/ p = Len(B),
         NEW a, a.n = c.n, a.from = c.from, a.result = c.result,
         \A k \in DOMAIN a.result : Len(a.result[k]) < Limit
  PROVE  StringsRight(B, a, p)
<1> DEFINE F == FlattenSeq(Nulled(c.result))
           f == Len(F)
           rest == SubSeq(B, c.from + f + 1, p)
           whole == SubSeq(B, c.from + 1, p)
<1>1. /\ Len(B) \in Nat /\ c.from \in 0 .. p /\ p \in 0 .. Len(B) /\ c.buf \in Seq(Bytes)
      /\ c.result \in Seq(Seq(Bytes)) /\ Len(c.result) \in Nat /\ c.n \in Nat
  BY LenProperties DEF StringCalls
<1>2. AllShort(c.result)
  BY DEF AllShort
<1>3. /\ F \o c.buf = whole /\ F \in Seq(Bytes)
      /\ \A i \in 1 .. Len(c.buf) : c.buf[i] # "nul"
      /\ Len(c.result) = c.n => c.buf = <<>>
  BY <1>1, <1>2, NulledIs DEF StringSound
<1>4. FlattenSeq([k \in DOMAIN a.result |-> Append(a.result[k], "nul")]) = F
  BY DEF Nulled
<1> HIDE DEF F
<1>5. f \in Nat /\ Len(c.buf) \in Nat
  BY <1>1, <1>3, LenProperties
<1>6. /\ whole \in Seq(Bytes) /\ Len(whole) = p - c.from
      /\ \A i \in 1 .. p - c.from : whole[i] = B[c.from + i]
  <2>1. PICK e : e = c.from
    OBVIOUS
  <2>2. p \in 0 .. Len(B) /\ e \in 0 .. p
    BY <1>1, <2>1
  <2>3. /\ SubSeq(B, e + 1, p) \in Seq(Bytes) /\ Len(SubSeq(B, e + 1, p)) = p - e
        /\ \A i \in 1 .. p - e : SubSeq(B, e + 1, p)[i] = B[e + i]
    BY ONLY <2>2, B \in Seq(Bytes), PartIs
  <2>4. QED BY ONLY <2>1, <2>3
<1>7. /\ Len(F \o c.buf) = f + Len(c.buf)
      /\ \A i \in 1 .. f + Len(c.buf) : (F \o c.buf)[i] = IF i <= f THEN F[i] ELSE c.buf[i - f]
  BY <1>1, <1>3, ConcatProperties
<1> HIDE DEF whole
<1>8. f + Len(c.buf) = p - c.from
  BY <1>3, <1>6, <1>7
<1>9. c.from + f \in 0 .. p
  BY <1>1, <1>5, <1>8
<1>10. /\ rest \in Seq(Bytes) /\ Len(rest) = p - (c.from + f)
       /\ \A i \in 1 .. p - (c.from + f) : rest[i] = B[(c.from + f) + i]
  <2> DEFINE d == c.from + f
  <2>1. d \in 0 .. p
    BY <1>9
  <2> HIDE DEF d
  <2>2. /\ SubSeq(B, d + 1, p) \in Seq(Bytes) /\ Len(SubSeq(B, d + 1, p)) = p - d
        /\ \A i \in 1 .. p - d : SubSeq(B, d + 1, p)[i] = B[d + i]
    BY <1>1, <2>1, PartIs
  <2>3. QED BY <2>2 DEF d
<1> HIDE DEF rest
<1>11. rest = c.buf
  <2>1. Len(rest) = Len(c.buf)
    BY <1>1, <1>5, <1>8, <1>10
  <2>2. ASSUME NEW i \in 1 .. Len(rest) PROVE rest[i] = c.buf[i]
    <3>1. /\ f + i \in 1 .. f + Len(c.buf) /\ ~(f + i <= f) /\ (f + i) - f = i
          /\ (c.from + f) + i = c.from + (f + i) /\ f + i \in 1 .. p - c.from
          /\ i \in 1 .. p - (c.from + f)
      <4>1. PICK e : e = c.from
        OBVIOUS
      <4>2. PICK l : l = Len(c.buf)
        OBVIOUS
      <4> HIDE DEF f
      <4>3. e \in Nat /\ p \in Nat /\ f \in Nat /\ l \in Nat /\ f + l = p - e /\ i \in 1 .. l
        BY <1>1, <1>5, <1>8, <2>1, <4>1, <4>2
      <4>4. /\ f + i \in 1 .. f + l /\ ~(f + i <= f) /\ (f + i) - f = i
            /\ (e + f) + i = e + (f + i) /\ f + i \in 1 .. p - e /\ i \in 1 .. p - (e + f)
        BY ONLY <4>3
      <4>5. QED BY ONLY <4>1, <4>2, <4>4
    <3>2. (F \o c.buf)[f + i] = c.buf[i]
      BY <1>7, <3>1
    <3>3. QED BY <1>3, <1>6, <1>10, <3>1, <3>2
  <2>3. QED BY <1>1, <1>10, <2>1, <2>2, SeqEqual
<1>12. F \o rest = SubSeq(B, a.from + 1, p)
  BY <1>3, <1>11 DEF whole
<1>13. "nul" \notin ToSet(rest)
  <2>1. DOMAIN c.buf = 1 .. Len(c.buf)
    BY <1>1, LenProperties
  <2>2. QED BY <1>3, <1>11, <2>1 DEF ToSet
<1>14. Len(a.result) = a.n => rest = <<>>
  BY <1>3, <1>11
<1>15. Len(a.result) < a.n => p = Len(B)
  BY <1>1
<1>16. QED BY <1>4, <1>12, <1>13, <1>14, <1>15 DEF StringsRight, rest

----------------------------------------------------------------------------
(* Items.                                                                   *)

LEMMA Products ==
  ASSUME NEW x \in Nat, NEW y \in Nat, NEW z \in Nat
  PROVE  /\ (x + y) * z = x * z + z * y /\ x * z \in Nat /\ z * y \in Nat
         /\ z > 0 /\ y > 0 => z * y > 0 /\ z * y >= y
OBVIOUS

\* Of zk bytes that are asked for, s are there; g have been read of xz before.
Asks(xz, zk, L, from, p, g, s) ==
    /\ {xz, zk, L, from, p, g} \subseteq Nat /\ p <= L /\ p = from + g
    /\ g = Least(xz, L - from) /\ s = IF L - p < zk THEN L - p ELSE zk
Gets(xz, zk, L, from, p, g, s) ==
    /\ s \in Nat /\ p + s <= L /\ g + s = Least(xz + zk, L - from)
    /\ p + s = from + (g + s) /\ (s > 0 => g = xz)

LEMMA BytesThere ==
  ASSUME NEW xz, NEW zk, NEW L, NEW from, NEW p, NEW g, NEW s, Asks(xz, zk, L, from, p, g, s)
  PROVE  Gets(xz, zk, L, from, p, g, s)
<1>1. /\ xz \in Nat /\ zk \in Nat /\ L \in Nat /\ from \in Nat /\ p \in Nat /\ g \in Nat
      /\ p <= L /\ p = from + g
      /\ g = (IF xz < L - from THEN xz ELSE L - from) /\ s = (IF L - p < zk THEN L - p ELSE zk)
  BY DEF Asks, Least
<1>2. s \in Nat /\ p + s <= L /\ p + s = from + (g + s) /\ (s > 0 => g = xz)
  BY <1>1
<1>3. g + s = IF xz + zk < L - from THEN xz + zk ELSE L - from
  BY <1>1
<1>4. QED BY <1>2, <1>3 DEF Gets, Least

LEMMA ItemBegins ==
  ASSUME NEW B \in Seq(Bytes), NEW c \in ItemCalls, c.from \in 0 .. Len(B),
         c.left = c.n, c.m = 0, c.got = <<>>, c.size \in Sizes[c.what]
  PROVE  ItemSound(B, c, c.from)
<1>1. /\ Len(B) \in Nat /\ c.n \in Nat /\ c.size \in Nat \ {0} /\ c.from \in Nat /\ c.what \in Whats
  BY LenProperties DEF ItemCalls
<1>2. Len(c.got) = 0 /\ SubSeq(B, c.from + 1, c.from) = <<>>
  BY <1>1, EmptySeq, SubSeqEmpty
<1>3. c.n - c.left = 0 /\ 0 * c.size = 0
  BY <1>1
<1>4. Len(c.got) = Least((c.n - c.left) * c.size, Len(B) - c.from)
  BY <1>1, <1>2, <1>3 DEF Least
<1>5. IsComplex(c.what) => c.size > 1 /\ AsIs(c)
  BY TextAssumption DEF IsComplex, AsIs, Whats
<1>6. QED BY <1>1, <1>2, <1>3, <1>4, <1>5 DEF ItemSound

\* k items are asked for, and s bytes of them are there.
LEMMA ItemsSound ==
  ASSUME NEW B \in Seq(Bytes), NEW c \in ItemCalls, NEW p \in 0 .. Len(B), c.from <= p,
         ItemSound(B, c, p), NEW k \in 1 .. c.left,
         NEW s, s = (IF Len(B) - p < c.size * k THEN Len(B) - p ELSE c.size * k),
         NEW d \in ItemCalls, d.n = c.n, d.from = c.from, d.size = c.size, d.what = c.what,
         d.left = c.left - k, d.got = c.got \o SubSeq(B, p + 1, p + s),
         AsIs(c) => d.m = c.m + s,
         ~AsIs(c) => d.m = c.m + 1 /\ k = 1 /\ s > 0
  PROVE  ItemSound(B, d, p + s) /\ s \in Nat /\ p + s <= Len(B)
<1>1. /\ Len(B) \in Nat /\ c.n \in Nat /\ c.left \in Nat /\ c.size \in Nat \ {0} /\ c.from \in 0 .. p
      /\ p \in Nat /\ k \in Nat /\ c.m \in Nat /\ c.got \in Seq(Bytes) /\ Len(c.got) \in Nat
  BY LenProperties DEF ItemCalls
<1>2. /\ c.left <= c.n /\ p = c.from + Len(c.got) /\ c.got = SubSeq(B, c.from + 1, p)
      /\ Len(c.got) = Least((c.n - c.left) * c.size, Len(B) - c.from)
  BY DEF ItemSound
<1> DEFINE x == c.n - c.left
           z == c.size
           xz == x * z
           zk == z * k
<1>3. x \in Nat /\ z \in Nat /\ z > 0 /\ k > 0 /\ c.n - d.left = x + k /\ d.left <= d.n
  <2>1. c.n \in Nat /\ c.left \in Nat /\ c.left <= c.n /\ d.left = c.left - k /\ d.n = c.n /\ k \in 1 .. c.left
    BY <1>1, <1>2
  <2>2. PICK n : n = c.n
    OBVIOUS
  <2>3. PICK left : left = c.left
    OBVIOUS
  <2>4. n \in Nat /\ left \in Nat /\ left <= n /\ k \in 1 .. left
    BY ONLY <2>1, <2>2, <2>3
  <2>5. n - left \in Nat /\ n - (left - k) = (n - left) + k /\ left - k <= n /\ k > 0
    BY ONLY <2>4
  <2>6. c.size \in Nat /\ c.size > 0
    BY <1>1
  <2>7. QED BY ONLY <2>1, <2>2, <2>3, <2>5, <2>6
<1> HIDE DEF x
<1>4. (x + k) * z = xz + zk /\ xz \in Nat /\ zk \in Nat /\ zk > 0
  <2> HIDE DEF z
  <2>1. x \in Nat /\ z \in Nat /\ z > 0 /\ k \in Nat /\ k > 0
    BY <1>1, <1>3
  <2>2. QED BY ONLY <2>1, Products
<1>5. Len(c.got) = Least(xz, Len(B) - c.from) /\ s = IF Len(B) - p < zk THEN Len(B) - p ELSE zk
  BY <1>2 DEF x
<1> HIDE DEF z, xz, zk
<1>6. /\ s \in Nat /\ p + s <= Len(B) /\ Len(c.got) + s = Least(xz + zk, Len(B) - c.from)
      /\ p + s = c.from + (Len(c.got) + s) /\ (s > 0 => Len(c.got) = xz)
  <2>1. c.from \in Nat /\ p <= Len(B) /\ p = c.from + Len(c.got)
    BY <1>1, <1>2
  <2>2. Len(B) \in Nat /\ p \in Nat /\ Len(c.got) \in Nat /\ xz \in Nat /\ zk \in Nat
    BY <1>1, <1>4
  <2>3. Asks(xz, zk, Len(B), c.from, p, Len(c.got), s)
    BY ONLY <1>5, <2>1, <2>2 DEF Asks
  <2>4. Gets(xz, zk, Len(B), c.from, p, Len(c.got), s)
    BY ONLY <2>3, BytesThere
  <2>5. QED BY ONLY <2>4 DEF Gets
<1>7. s \in Nat /\ p + s \in p .. Len(B) /\ (p + s) - p = s /\ p + s \in Nat
  <2>1. p \in Nat /\ Len(B) \in Nat
    BY <1>1
  <2>2. QED BY ONLY <1>6, <2>1
<1>8. SubSeq(B, p + 1, p + s) \in Seq(Bytes) /\ Len(SubSeq(B, p + 1, p + s)) = s
  <2> DEFINE q == p + s
  <2>1. q \in 0 .. Len(B) /\ p \in 0 .. q /\ q - p = s
    BY <1>1, <1>7
  <2> HIDE DEF q
  <2>2. SubSeq(B, p + 1, q) \in Seq(Bytes) /\ Len(SubSeq(B, p + 1, q)) = q - p
    BY <2>1, PartIs
  <2>3. QED BY <2>1, <2>2 DEF q
<1>9. Len(d.got) = Len(c.got) + s
  BY <1>1, <1>8, ConcatProperties
<1>10. d.got = SubSeq(B, d.from + 1, p + s)
  <2>1. c.from + 1 \in 1 .. Len(B) + 1 /\ p \in (c.from + 1) - 1 .. Len(B) /\ p + s \in p .. Len(B)
    <3>1. p \in 0 .. Len(B) /\ Len(B) \in Nat /\ c.from \in 0 .. p
      BY <1>1
    <3>2. QED BY ONLY <1>7, <3>1
  <2>2. SubSeq(B, c.from + 1, p) \o SubSeq(B, p + 1, p + s) = SubSeq(B, c.from + 1, p + s)
    BY <2>1, ConcatAdjacentSubSeq
  <2>3. QED BY <1>2, <2>2
<1>11. Len(d.got) = Least((d.n - d.left) * d.size, Len(B) - d.from)
  BY <1>3, <1>4, <1>6, <1>9 DEF z
<1>12. p + s = d.from + Len(d.got)
  BY <1>6, <1>9
<1>13. AsIs(d) <=> AsIs(c)
  BY DEF AsIs
<1>14. AsIs(d) => d.m = Len(d.got)
  BY <1>9, <1>13 DEF ItemSound
<1>15. ASSUME ~AsIs(d) PROVE d.m = d.n - d.left /\ d.m * d.size < Len(d.got) + d.size
  <2>1. c.m = x /\ xz < Len(c.got) + z /\ k = 1 /\ s > 0 /\ d.m = c.m + 1
    BY <1>13, <1>15 DEF ItemSound, x, xz, z
  <2>2. d.m = x + k
    BY <2>1
  <2>3. zk = z
    BY <1>3, <2>1 DEF zk
  <2>4. xz + zk < Len(d.got) + z
    <3>1. Len(d.got) = xz + s
      BY <1>6, <1>9, <2>1
    <3>2. QED BY <1>3, <1>4, <1>7, <2>1, <2>3, <3>1
  <2>5. d.m * d.size = xz + zk
    BY <1>4, <2>2 DEF z
  <2>6. QED BY <1>3, <2>2, <2>4, <2>5 DEF z
<1>16. IsComplex(d.what) => d.size > 1 /\ AsIs(d)
  BY <1>13 DEF ItemSound
<1>17. ItemSound(B, d, p + s)
  BY <1>3, <1>10, <1>11, <1>12, <1>14, <1>15, <1>16 DEF ItemSound
<1>18. QED BY <1>6, <1>17

\* The answer of a call that has nothing left, or has met the end of the file.
\* m items of z bytes in g bytes, of L that are there, when left of n are left.
Counted(n, left, z, m, g, L, asIs, complex) ==
    /\ {n, left, z, m, g, L} \subseteq Nat /\ left <= n /\ z > 0 /\ {asIs, complex} \subseteq BOOLEAN
    /\ g = Least((n - left) * z, L) /\ (left = 0 \/ g = L)
    /\ asIs => m = g
    /\ ~asIs => m = n - left /\ m * z < g + z
    /\ complex => z > 1 /\ asIs
LengthFits(n, z, g, L, length) ==
    /\ g = Least(n * z, L)
    /\ g = n * z => length = n
    /\ z = 1 => length = g

LEMMA LengthIsRight ==
  ASSUME NEW n, NEW left, NEW z, NEW m, NEW g, NEW L, NEW asIs, NEW complex, NEW length,
         Counted(n, left, z, m, g, L, asIs, complex),
         length = IF m < n /\ ~complex THEN m ELSE n
  PROVE  LengthFits(n, z, g, L, length)
<1>0. /\ {n, left, z, m, g, L} \subseteq Nat /\ left <= n /\ z > 0 /\ {asIs, complex} \subseteq BOOLEAN
      /\ g = Least((n - left) * z, L) /\ (left = 0 \/ g = L)
      /\ asIs => m = g
      /\ ~asIs => m = n - left /\ m * z < g + z
      /\ complex => z > 1 /\ asIs
  BY DEF Counted
<1>. USE <1>0
<1>1. PICK x \in Nat : x = n - left
  OBVIOUS
<1>2. x + left = n /\ z > 0
  BY <1>1
<1>3. PICK xz, lz, nz : xz = x * z /\ lz = z * left /\ nz = n * z
  OBVIOUS
<1>4. nz = xz + lz /\ xz \in Nat /\ lz \in Nat /\ (left > 0 => lz > 0) /\ (left = 0 => lz = 0)
  <2>1. (x + left) * z = x * z + z * left /\ x * z \in Nat /\ z * left \in Nat
        /\ (z > 0 /\ left > 0 => z * left > 0)
    BY Products
  <2>2. z * 0 = 0
    OBVIOUS
  <2>3. QED BY <1>2, <1>3, <2>1, <2>2
<1>5. nz >= n
  <2>1. CASE n = 0
    BY <1>4, <2>1
  <2>2. CASE n > 0
    <3>1. z * n >= n /\ z * n = n * z
      BY <1>2, <2>2, Products
    <3>2. QED BY <1>3, <3>1
  <2>3. QED BY <2>1, <2>2
<1>6. z = 1 => xz = x
  BY <1>3
<1>7. g = Least(xz, L)
  BY <1>1, <1>3
<1>8. ~asIs => m = x /\ xz < g + z
  BY <1>1, <1>3
<1>9. g = Least(nz, L)
  BY <1>4, <1>7 DEF Least
<1>10. g = nz => length = n
  BY <1>1, <1>4, <1>5, <1>7, <1>8 DEF Least
<1>11. ASSUME z = 1 PROVE length = g
  <2>1. g <= x /\ x <= n
    BY <1>1, <1>2, <1>6, <1>7, <1>11 DEF Least
  <2>2. asIs \/ g = x
    BY <1>6, <1>8, <1>11, <2>1
  <2>3. m = g
    BY <1>8, <2>2
  <2>4. QED BY <1>11, <2>1, <2>3
<1>12. QED BY <1>3, <1>9, <1>10, <1>11 DEF LengthFits

LEMMA ItemsAreRight ==
  ASSUME NEW B \in Seq(Bytes), NEW c \in ItemCalls, NEW p \in 0 .. Len(B), c.from <= p,
         ItemSound(B, c, p), c.left = 0 \/ p = Len(B), NEW a, a = Items(c)
  PROVE  ItemsRight(B, a, p)
<1>1. /\ Len(B) \in Nat /\ c.n \in Nat /\ c.left \in Nat /\ c.size \in Nat \ {0} /\ c.from \in Nat
      /\ c.m \in Nat /\ Len(c.got) \in Nat /\ p \in Nat
  BY LenProperties DEF ItemCalls
<1> DEFINE length == IF c.m < c.n /\ ~IsComplex(c.what) THEN c.m ELSE c.n
           g == Len(c.got)
           L == Len(B) - c.from
<1>2. /\ c.left <= c.n /\ p = c.from + g /\ c.got = SubSeq(B, c.from + 1, p)
      /\ g = Least((c.n - c.left) * c.size, L)
      /\ AsIs(c) => c.m = g
      /\ ~AsIs(c) => c.m = c.n - c.left /\ c.m * c.size < g + c.size
      /\ IsComplex(c.what) => c.size > 1 /\ AsIs(c)
  BY DEF ItemSound
<1>3. /\ a.got = c.got /\ a.from = c.from /\ a.n = c.n /\ a.size = c.size
      /\ a.length = length
  BY DEF Items
<1>4. L \in Nat /\ (c.left = 0 \/ g = L)
  <2>1. p = c.from + g
    BY <1>2
  <2>2. p <= Len(B)
    BY <1>1
  <2> HIDE DEF g
  <2>3. g \in Nat
    BY <1>1 DEF g
  <2>4. QED BY <1>1, <2>1, <2>2, <2>3
<1>5. AsIs(c) \in BOOLEAN /\ IsComplex(c.what) \in BOOLEAN
  BY DEF AsIs, IsComplex
<1> HIDE DEF g, L, length
<1>6. length = IF c.m < c.n /\ ~IsComplex(c.what) THEN c.m ELSE c.n
  BY DEF length
<1>7. g \in Nat
  BY <1>1 DEF g
<1>8. /\ g = Least(c.n * c.size, L)
      /\ g = c.n * c.size => length = c.n
      /\ c.size = 1 => length = g
  <2>1. c.n \in Nat /\ c.left \in Nat /\ c.size \in Nat \ {0} /\ c.m \in Nat
    BY <1>1
  <2>2. Counted(c.n, c.left, c.size, c.m, g, L, AsIs(c), IsComplex(c.what))
    BY ONLY <1>2, <1>4, <1>5, <1>7, <2>1 DEF Counted
  <2>3. LengthFits(c.n, c.size, g, L, length)
    BY ONLY <2>2, <1>6, LengthIsRight
  <2>4. QED BY ONLY <2>3 DEF LengthFits
<1>9. QED BY <1>2, <1>3, <1>8 DEF ItemsRight, g, L

----------------------------------------------------------------------------
(* Writing.                                                                 *)

LEMMA FitIs ==
  ASSUME pos \in 0 .. Capacity, NEW piece \in Seq(Bytes)
  PROVE  LET f == Fit(piece) IN
         /\ f \in Seq(Bytes) /\ Len(f) \in Nat
         /\ Len(f) = IF Capacity - pos < Len(piece) THEN Capacity - pos ELSE Len(piece)
         /\ \A i \in 1 .. Len(f) : f[i] = piece[i]
<1> DEFINE k == IF Capacity - pos < Len(piece) THEN Capacity - pos ELSE Len(piece)
<1>1. Len(piece) \in Nat /\ Capacity \in Nat
  BY LenProperties, TextAssumption
<1>2. k \in 0 .. Len(piece) /\ 0 \in 0 .. k /\ 0 + 1 = 1 /\ k - 0 = k
  BY <1>1
<1>3. Fit(piece) = SubSeq(piece, 1, k)
  BY DEF Fit
<1> HIDE DEF k
<1>4. /\ SubSeq(piece, 0 + 1, k) \in Seq(Bytes) /\ Len(SubSeq(piece, 0 + 1, k)) = k - 0
      /\ \A i \in 1 .. k - 0 : SubSeq(piece, 0 + 1, k)[i] = piece[0 + i]
  BY <1>2, PartIs
<1>5. /\ Fit(piece) \in Seq(Bytes) /\ Len(Fit(piece)) = k
      /\ \A i \in 1 .. k : Fit(piece)[i] = piece[i]
  <2>1. \A i \in 1 .. k : 0 + i = i
    BY <1>2
  <2>2. QED BY <1>2, <1>3, <1>4, <2>1
<1>6. QED BY <1>2, <1>5 DEF k

LEMMA WrittenIs ==
  ASSUME bytes \in Seq(Bytes), pos \in 0 .. Len(bytes), NEW f \in Seq(Bytes)
  PROVE  LET W == Written(f)
             q == pos + Len(f)
         IN  /\ W \in Seq(Bytes)
             /\ Len(W) = IF Len(bytes) < q THEN q ELSE Len(bytes)
             /\ \A i \in 1 .. pos : W[i] = bytes[i]
             /\ \A i \in pos + 1 .. q : W[i] = f[i - pos]
             /\ \A i \in q + 1 .. Len(bytes) : W[i] = bytes[i]
<1> DEFINE q == pos + Len(f)
           L == Len(bytes)
           x == SubSeq(bytes, 1, pos)
           z == SubSeq(bytes, q + 1, L)
           xf == x \o f
           W == xf \o z
<1>1. L \in Nat /\ Len(f) \in Nat /\ pos \in 0 .. L /\ q \in Nat /\ pos <= q /\ q - pos = Len(f)
  BY LenProperties
<1>2. x \in Seq(Bytes) /\ Len(x) = pos /\ \A i \in 1 .. pos : x[i] = bytes[i]
  <2>1. /\ SubSeq(bytes, 0 + 1, pos) \in Seq(Bytes) /\ Len(SubSeq(bytes, 0 + 1, pos)) = pos - 0
        /\ \A i \in 1 .. pos - 0 : SubSeq(bytes, 0 + 1, pos)[i] = bytes[0 + i]
    BY <1>1, PartIs
  <2>2. 0 + 1 = 1 /\ pos - 0 = pos /\ \A i \in 1 .. pos : 0 + i = i
    BY <1>1
  <2>3. QED BY <2>1, <2>2
<1>3. /\ z \in Seq(Bytes) /\ Len(z) = (IF L < q THEN 0 ELSE L - q)
      /\ \A i \in 1 .. Len(z) : z[i] = bytes[q + i]
  <2>1. CASE L < q
    <3>1. z = <<>>
      BY <1>1, <2>1, SubSeqEmpty
    <3>2. QED BY <2>1, <3>1, EmptySeq
  <2>2. CASE q <= L
    <3>1. q \in 0 .. L /\ L \in 0 .. L
      BY <1>1, <2>2
    <3> HIDE DEF q
    <3>2. /\ SubSeq(bytes, q + 1, L) \in Seq(Bytes) /\ Len(SubSeq(bytes, q + 1, L)) = L - q
          /\ \A i \in 1 .. L - q : SubSeq(bytes, q + 1, L)[i] = bytes[q + i]
      BY <3>1, PartIs
    <3>3. QED BY <1>1, <2>2, <3>2
  <2>3. QED BY <1>1, <2>1, <2>2
<1>4. Written(f) = W
  BY DEF Written
<1> HIDE DEF x, z
<1>5. /\ xf \in Seq(Bytes) /\ Len(xf) = pos + Len(f)
      /\ \A i \in 1 .. pos + Len(f) : xf[i] = IF i <= pos THEN x[i] ELSE f[i - pos]
  BY <1>2, ConcatProperties
<1> HIDE DEF xf
<1>6. /\ W \in Seq(Bytes) /\ Len(W) = q + Len(z)
      /\ \A i \in 1 .. q + Len(z) : W[i] = IF i <= q THEN xf[i] ELSE z[i - q]
  <2>1. z \in Seq(Bytes) /\ xf \in Seq(Bytes) /\ Len(xf) = q
    BY <1>3, <1>5
  <2>2. /\ xf \o z \in Seq(Bytes) /\ Len(xf \o z) = Len(xf) + Len(z)
        /\ \A i \in 1 .. Len(xf) + Len(z) :
              (xf \o z)[i] = IF i <= Len(xf) THEN xf[i] ELSE z[i - Len(xf)]
    BY ONLY <2>1, ConcatProperties
  <2> HIDE DEF q
  <2>3. QED BY ONLY <2>1, <2>2 DEF W
<1> HIDE DEF W
<1>7. Len(W) = IF L < q THEN q ELSE L
  <2>1. PICK s : s = Len(z)
    OBVIOUS
  <2>2. L \in Nat /\ q \in Nat /\ s = (IF L < q THEN 0 ELSE L - q) /\ Len(W) = q + s
    BY <1>1, <1>3, <1>6, <2>1
  <2> HIDE DEF q, L
  <2>3. QED BY ONLY <2>2
<1>8. Len(z) \in Nat /\ (q <= L => Len(z) = L - q)
  BY <1>1, <1>3
<1>9. ASSUME NEW i \in 1 .. pos PROVE W[i] = bytes[i]
  <2>1. i \in 1 .. pos + Len(f) /\ i \in 1 .. q + Len(z) /\ i <= pos /\ i <= q
    BY <1>1, <1>8
  <2>2. QED BY <1>2, <1>5, <1>6, <2>1
<1>10. ASSUME NEW i \in pos + 1 .. q PROVE W[i] = f[i - pos]
  <2>1. i \in 1 .. pos + Len(f) /\ i \in 1 .. q + Len(z) /\ ~(i <= pos) /\ i <= q
    BY <1>1, <1>8
  <2>2. QED BY <1>5, <1>6, <2>1
<1>11. ASSUME NEW i \in q + 1 .. L PROVE W[i] = bytes[i]
  <2>1. i \in 1 .. q + Len(z) /\ ~(i <= q) /\ i - q \in 1 .. Len(z) /\ q + (i - q) = i
    BY <1>1, <1>8
  <2>2. QED BY <1>3, <1>6, <2>1
<1>12. QED BY <1>4, <1>6, <1>7, <1>9, <1>10, <1>11

LEMMA WriteBegins ==
  ASSUME NEW B \in Seq(Bytes), NEW c \in WriteCalls, c.from \in 0 .. Len(B), c.before = B,
         c.whole = FlattenSeq(c.pieces),
         c.op = "writestrings" => \A i \in 1 .. Len(c.pieces) : c.pieces[i] # <<>>
  PROVE  WriteSound(B, c, c.from)
<1>1. Len(B) \in Nat /\ c.from \in Nat /\ c.from <= Len(B) /\ Len(c.whole) \in Nat
  BY LenProperties DEF WriteCalls
<1>2. c.from - c.from = 0 /\ Len(c.whole) - 0 = Len(c.whole) /\ ~(Len(B) < c.from)
  BY <1>1
<1>3. \A i \in 1 .. 0 : FALSE
  OBVIOUS
<1>4. \A i \in 1 .. Len(c.whole) : 0 + i = i
  OBVIOUS
<1>5. QED BY <1>1, <1>2, <1>3, <1>4 DEF WriteSound

\* A piece, or what there is room for of it.
LEMMA PieceSound ==
  ASSUME bytes \in Seq(Bytes), Len(bytes) <= Capacity, pos \in 0 .. Len(bytes),
         NEW c \in WriteCalls, c.from <= pos, WriteSound(bytes, c, pos), c.pieces # <<>>,
         NEW f, f = Fit(Head(c.pieces)),
         NEW d \in WriteCalls, d.op = c.op, d.from = c.from, d.before = c.before, d.whole = c.whole,
         d.pieces = IF c.op = "writestrings" /\ Len(f) = 0 THEN <<>> ELSE Tail(c.pieces)
  PROVE  /\ WriteSound(Written(f), d, pos + Len(f))
         /\ Written(f) \in Seq(Bytes) /\ Len(Written(f)) <= Capacity
         /\ pos + Len(f) \in 0 .. Len(Written(f)) /\ c.from <= pos + Len(f)
<1> DEFINE piece == Head(c.pieces)
           P == c.pieces
           rest == FlattenSeq(P)
           rest2 == FlattenSeq(Tail(P))
           L == Len(bytes)
           W == Written(f)
           q == pos + Len(f)
           n == pos - c.from
           m == q - c.from
           h == Len(piece)
<1>1. /\ L \in Nat /\ Capacity \in Nat /\ pos \in 0 .. Capacity /\ pos \in 0 .. L /\ L <= Capacity
      /\ c.from \in 0 .. pos /\ P \in Seq(Seq(Bytes)) /\ Len(c.whole) \in Nat /\ Len(c.before) \in Nat
  BY LenProperties, TextAssumption DEF WriteCalls
<1>2. /\ rest = piece \o rest2 /\ piece \in Seq(Bytes) /\ Tail(P) \in Seq(Seq(Bytes))
      /\ rest2 \in Seq(Bytes)
  BY <1>1, FlattenHead
<1> HIDE DEF rest, rest2
<1>3. /\ Len(rest) = h + Len(rest2)
      /\ \A i \in 1 .. h + Len(rest2) : rest[i] = IF i <= h THEN piece[i] ELSE rest2[i - h]
      /\ Len(rest2) \in Nat /\ h \in Nat
  BY <1>2, ConcatProperties, LenProperties
<1>4. /\ f \in Seq(Bytes) /\ Len(f) \in Nat
      /\ Len(f) = IF Capacity - pos < h THEN Capacity - pos ELSE h
      /\ \A i \in 1 .. Len(f) : f[i] = piece[i]
  BY <1>1, <1>2, FitIs
<1>5. /\ W \in Seq(Bytes)
      /\ Len(W) = IF L < q THEN q ELSE L
      /\ \A i \in 1 .. pos : W[i] = bytes[i]
      /\ \A i \in pos + 1 .. q : W[i] = f[i - pos]
      /\ \A i \in q + 1 .. L : W[i] = bytes[i]
  BY <1>4, WrittenIs
<1>6. /\ c.from <= Len(c.before) /\ n <= Len(c.whole)
      /\ L = IF Len(c.before) < pos THEN pos ELSE Len(c.before)
      /\ \A i \in 1 .. n : bytes[c.from + i] = c.whole[i]
      /\ \A i \in 1 .. c.from : bytes[i] = c.before[i]
      /\ \A i \in pos + 1 .. L : bytes[i] = c.before[i]
      /\ \/ pos = Capacity
         \/ /\ Len(rest) = Len(c.whole) - n
            /\ \A i \in 1 .. Len(rest) : rest[i] = c.whole[n + i]
      /\ c.op = "writestrings" => \A i \in 1 .. Len(P) : P[i] # <<>>
  BY DEF WriteSound, rest
<1> HIDE DEF W, piece, P
<1>7. /\ q \in Nat /\ pos <= q /\ q <= Capacity /\ n \in Nat /\ m = n + Len(f) /\ m \in Nat
      /\ Len(f) <= h /\ (Len(f) # h => q = Capacity) /\ (pos = Capacity => Len(f) = 0 /\ q = Capacity)
      /\ c.from + n = pos /\ c.from + m = q
  <2>1. PICK k : k = Len(f)
    OBVIOUS
  <2>2. PICK p : p = pos
    OBVIOUS
  <2>3. PICK e : e = c.from
    OBVIOUS
  <2> HIDE DEF h
  <2>4. /\ Capacity \in Nat /\ p \in 0 .. Capacity /\ e \in 0 .. p /\ h \in Nat
        /\ k = IF Capacity - p < h THEN Capacity - p ELSE h
    BY <1>1, <1>3, <1>4, <2>1, <2>2, <2>3
  <2>5. /\ k \in Nat /\ p + k \in Nat /\ p <= p + k /\ p + k <= Capacity /\ p - e \in Nat
        /\ (p + k) - e = (p - e) + k /\ (p + k) - e \in Nat /\ k <= h /\ (k # h => p + k = Capacity)
        /\ (p = Capacity => k = 0 /\ p + k = Capacity)
        /\ e + (p - e) = p /\ e + ((p + k) - e) = p + k
    BY ONLY <2>4
  <2>6. QED BY ONLY <2>1, <2>2, <2>3, <2>5
<1> HIDE DEF q, n, m, h, L
<1>a. PICK e : e = c.from
  OBVIOUS
<1>b. PICK p : p = pos
  OBVIOUS
<1>c. PICK y : y = Len(W)
  OBVIOUS
<1>d. PICK w : w = Len(c.whole)
  OBVIOUS
<1>e. PICK r : r = Len(rest2)
  OBVIOUS
<1>f. PICK v : v = Len(f)
  OBVIOUS
<1>g. PICK k : k = Len(c.before)
  OBVIOUS
<1>h. /\ L \in Nat /\ Capacity \in Nat /\ p \in Nat /\ p <= L /\ L <= Capacity /\ e \in Nat /\ e <= p
      /\ q \in Nat /\ p <= q /\ q <= Capacity /\ y = (IF L < q THEN q ELSE L)
      /\ n \in Nat /\ m = n + v /\ v \in Nat /\ v <= h /\ h \in Nat /\ r \in Nat /\ w \in Nat /\ n <= w
      /\ (p = Capacity => v = 0)
  <2>1. /\ L \in Nat /\ Capacity \in Nat /\ p \in Nat /\ p <= L /\ L <= Capacity /\ e \in Nat /\ e <= p
    BY ONLY <1>1, <1>a, <1>b
  <2>2. q \in Nat /\ p <= q /\ q <= Capacity /\ n \in Nat /\ m = n + v /\ v <= h /\ (p = Capacity => v = 0)
    BY ONLY <1>7, <1>b, <1>f
  <2>3. y = IF L < q THEN q ELSE L
    BY ONLY <1>5, <1>c
  <2>4. v \in Nat
    BY ONLY <1>4, <1>f
  <2>5. h \in Nat /\ r \in Nat
    BY ONLY <1>3, <1>e
  <2>6. w \in Nat
    BY ONLY <1>1, <1>d
  <2>7. n <= w
    BY ONLY <1>6, <1>d
  <2>8. QED BY ONLY <2>1, <2>2, <2>3, <2>4, <2>5, <2>6, <2>7
<1>i. (p = Capacity \/ h + r = w - n) /\ k \in Nat /\ L = (IF k < p THEN p ELSE k)
  BY <1>1, <1>3, <1>6, <1>b, <1>d, <1>e, <1>g
<1>8. Len(W) <= Capacity /\ q \in 0 .. Len(W) /\ c.from <= q
  <2>1. y <= Capacity /\ q \in 0 .. y /\ e <= q
    BY ONLY <1>h
  <2>2. QED BY ONLY <1>a, <1>c, <2>1
<1>9. m <= Len(c.whole)
  <2>1. m <= w
    BY ONLY <1>h, <1>i
  <2>2. QED BY ONLY <1>d, <2>1
<1>10. Len(W) = IF Len(c.before) < q THEN q ELSE Len(c.before)
  <2>1. y = IF k < q THEN q ELSE k
    BY ONLY <1>h, <1>i
  <2>2. QED BY ONLY <1>c, <1>g, <2>1
<1>11. ASSUME NEW i \in 1 .. m PROVE W[c.from + i] = c.whole[i]
  <2>1. CASE i <= n
    <3>1. i \in 1 .. n /\ c.from + i \in 1 .. pos
      <4>1. e + n = p
        BY ONLY <1>7, <1>a, <1>b
      <4>2. i \in 1 .. n /\ e + i \in 1 .. p
        BY ONLY <1>h, <2>1, <4>1, i \in 1 .. m
      <4>3. QED BY ONLY <1>a, <1>b, <4>2
    <3>2. QED BY <1>5, <1>6, <3>1
  <2>2. CASE ~(i <= n)
    <3>1. PICK z : z = i - n
      OBVIOUS
    <3>2. /\ z \in 1 .. Len(f) /\ c.from + i \in pos + 1 .. q /\ (c.from + i) - pos = z /\ n + z = i
          /\ z \in 1 .. h /\ z \in 1 .. Len(rest) /\ z <= h /\ pos # Capacity /\ z \in 1 .. h + Len(rest2)
      <4>1. /\ e \in Nat /\ p \in Nat /\ r \in Nat /\ v \in Nat /\ n \in Nat /\ h \in Nat
            /\ m = n + v /\ v <= h /\ e + n = p /\ e + m = q /\ i \in 1 .. m /\ ~(i <= n) /\ z = i - n
            /\ (p = Capacity => v = 0)
        <5>1. e + n = p /\ e + m = q
          BY ONLY <1>7, <1>a, <1>b
        <5>2. QED BY ONLY <1>h, <2>2, <3>1, <5>1, i \in 1 .. m
      <4>2. /\ z \in 1 .. v /\ e + i \in p + 1 .. q /\ (e + i) - p = z /\ n + z = i
            /\ z \in 1 .. h /\ z \in 1 .. h + r /\ z <= h /\ p # Capacity
        BY ONLY <4>1
      <4>3. QED BY ONLY <1>3, <1>a, <1>b, <1>e, <1>f, <4>2
    <3>3. W[c.from + i] = f[z]
      BY <1>5, <3>2
    <3>4. f[z] = piece[z]
      BY <1>4, <3>2
    <3>5. rest[z] = piece[z]
      BY <1>3, <3>2
    <3>6. rest[z] = c.whole[n + z]
      BY <1>6, <3>2
    <3>7. QED BY <3>2, <3>3, <3>4, <3>5, <3>6
  <2>3. QED BY <2>1, <2>2
<1>12. ASSUME NEW i \in 1 .. c.from PROVE W[i] = c.before[i]
  <2>1. i \in 1 .. pos
    BY <1>1
  <2>2. QED BY <1>5, <1>6, <2>1
<1>13. ASSUME NEW i \in q + 1 .. Len(W) PROVE W[i] = c.before[i]
  <2>1. i \in q + 1 .. y
    BY ONLY <1>c, i \in q + 1 .. Len(W)
  <2>2. i \in q + 1 .. L /\ i \in p + 1 .. L
    BY ONLY <1>h, <2>1
  <2>3. i \in pos + 1 .. L
    BY ONLY <1>b, <2>2
  <2>4. QED BY <1>5, <1>6, <2>2, <2>3
<1>14. ASSUME q # Capacity
       PROVE  LET R == FlattenSeq(d.pieces) IN
              Len(R) = Len(c.whole) - m /\ \A i \in 1 .. Len(R) : R[i] = c.whole[m + i]
  <2>1. Len(f) = h /\ pos # Capacity
    BY <1>7, <1>14
  <2>2. d.pieces = Tail(P)
    <3>1. CASE c.op = "writestrings"
      <4>1. P # <<>> /\ Len(P) # 0 /\ piece = P[1]
        BY <1>1, EmptySeq DEF P, piece
      <4>2. 1 \in 1 .. Len(P)
        BY <1>1, <4>1, LenProperties
      <4>3. piece # <<>>
        BY <1>6, <3>1, <4>1, <4>2
      <4>4. h # 0
        BY <1>2, <4>3, EmptySeq DEF h
      <4>5. QED BY <2>1, <4>4 DEF P
    <3>2. CASE c.op # "writestrings"
      BY <3>2 DEF P
    <3>3. QED BY <3>1, <3>2
  <2>3. FlattenSeq(d.pieces) = rest2
    BY <2>2 DEF rest2
  <2>4. Len(rest2) = Len(c.whole) - m
    <3>1. r \in Nat /\ w \in Nat /\ h \in Nat /\ n \in Nat /\ m = n + h
      BY <1>1, <1>3, <1>7, <2>1, <1>e, <1>d
    <3>2. h + r = w - n
      BY <1>3, <1>6, <2>1, <1>e, <1>d
    <3>3. r = w - m
      BY ONLY <3>1, <3>2
    <3>4. QED BY ONLY <1>e, <1>d, <3>3
  <2>5. ASSUME NEW i \in 1 .. Len(rest2) PROVE rest2[i] = c.whole[m + i]
    <3>1. /\ h + i \in 1 .. h + Len(rest2) /\ ~(h + i <= h) /\ (h + i) - h = i /\ n + (h + i) = m + i
          /\ h + i \in 1 .. Len(rest)
      BY <1>3, <1>7, <2>1
    <3>2. rest[h + i] = rest2[i]
      BY <1>3, <3>1
    <3>3. rest[h + i] = c.whole[n + (h + i)]
      BY <1>6, <2>1, <3>1
    <3>4. QED BY <3>1, <3>2, <3>3
  <2>6. QED BY <2>3, <2>4, <2>5
<1>15. ASSUME c.op = "writestrings", NEW i \in 1 .. Len(d.pieces) PROVE d.pieces[i] # <<>>
  <2>1. CASE d.pieces = <<>>
    <3>1. Len(d.pieces) = 0
      BY <2>1, EmptySeq
    <3>2. QED BY <1>15, <3>1
  <2>2. CASE d.pieces = Tail(P)
    <3>1. P \in Seq(Seq(Bytes)) /\ P # <<>> /\ i \in 1 .. Len(Tail(P))
      BY <1>1, <1>15, <2>2 DEF P
    <3>2. /\ Tail(P) \in Seq(Seq(Bytes)) /\ Len(Tail(P)) = Len(P) - 1 /\ Len(P) \in Nat
          /\ \A j \in 1 .. Len(Tail(P)) : Tail(P)[j] = P[j + 1]
      BY ONLY <3>1, HeadTailProperties, LenProperties
    <3>3. Tail(P)[i] = P[i + 1] /\ i + 1 \in 1 .. Len(P)
      BY ONLY <3>1, <3>2
    <3>4. QED BY <1>6, <1>15, <2>2, <3>3
  <2>3. QED BY <2>1, <2>2 DEF P
<1>16. WriteSound(W, d, q)
  BY <1>6, <1>9, <1>10, <1>11, <1>12, <1>13, <1>14, <1>15 DEF WriteSound, m
<1>17. QED BY <1>5, <1>8, <1>16 DEF W, q

\* Parts with the same elements.
Agree(s, a, b, t, d, e) ==
    /\ b \in 0 .. Len(s) /\ a \in 0 .. b /\ e \in 0 .. Len(t) /\ d \in 0 .. e
    /\ b - a = e - d /\ \A i \in 1 .. b - a : s[a + i] = t[d + i]
SameParts(s, a, b, t, d, e) == SubSeq(s, a + 1, b) = SubSeq(t, d + 1, e)

LEMMA PartsAgree ==
  ASSUME NEW V, NEW s \in Seq(V), NEW t \in Seq(V), NEW a, NEW b, NEW d, NEW e,
         Agree(s, a, b, t, d, e)
  PROVE  SameParts(s, a, b, t, d, e)
<1> USE DEF Agree, SameParts
<1> DEFINE p == SubSeq(s, a + 1, b)
           q == SubSeq(t, d + 1, e)
<1>1. p \in Seq(V) /\ Len(p) = b - a /\ \A i \in 1 .. b - a : p[i] = s[a + i]
  BY PartIs
<1>2. q \in Seq(V) /\ Len(q) = e - d /\ \A i \in 1 .. e - d : q[i] = t[d + i]
  BY PartIs
<1> HIDE DEF p, q
<1>3. Len(p) = Len(q) /\ \A i \in 1 .. Len(p) : p[i] = q[i]
  BY <1>1, <1>2
<1>4. p = q
  BY ONLY <1>1, <1>2, <1>3, SeqEqual
<1>5. QED BY <1>4 DEF p, q

\* Nothing is left to write.
LEMMA WriteAnswer ==
  ASSUME NEW B \in Seq(Bytes), NEW c \in WriteCalls, NEW p \in 0 .. Len(B), c.from <= p,
         WriteSound(B, c, p), c.pieces = <<>>,
         NEW a, a.from = c.from, a.whole = c.whole, a.before = c.before
  PROVE  WrittenRight(B, a, p)
<1> DEFINE n == p - c.from
           L == Len(B)
           K == Len(c.before)
<1>1. /\ L \in Nat /\ K \in Nat /\ p \in 0 .. L /\ c.from \in 0 .. p /\ c.from \in Nat
      /\ c.whole \in Seq(Bytes) /\ c.before \in Seq(Bytes) /\ Len(c.whole) \in Nat
  BY LenProperties DEF WriteCalls
<1>2. /\ c.from <= K /\ n <= Len(c.whole)
      /\ L = IF K < p THEN p ELSE K
      /\ \A i \in 1 .. n : B[c.from + i] = c.whole[i]
      /\ \A i \in 1 .. c.from : B[i] = c.before[i]
      /\ \A i \in p + 1 .. L : B[i] = c.before[i]
      /\ \/ p = Capacity
         \/ Len(FlattenSeq(c.pieces)) = Len(c.whole) - n
  BY DEF WriteSound
<1>3. n < Len(c.whole) => p = Capacity
  <2>1. Len(FlattenSeq(c.pieces)) = 0
    BY FlattenEmpty, EmptySeq
  <2>2. n \in Nat
    BY <1>1
  <2> HIDE DEF n
  <2>3. QED BY <1>1, <1>2, <2>1, <2>2
<1>4. n \in 0 .. Len(c.whole) /\ 0 \in 0 .. n /\ n - 0 = n /\ p - c.from = n /\ 0 + 1 = 1
  BY <1>1, <1>2
<1>5. SubSeq(B, c.from + 1, p) = SubSeq(c.whole, 1, n)
  <2>1. \A i \in 1 .. n : B[c.from + i] = c.whole[0 + i]
    <3>1. \A i \in 1 .. n : 0 + i = i
      BY <1>4
    <3>2. QED BY <1>2, <3>1
  <2>2. Agree(B, c.from, p, c.whole, 0, n)
    BY <1>1, <1>4, <2>1 DEF Agree
  <2> HIDE DEF n
  <2>3. SameParts(B, c.from, p, c.whole, 0, n)
    BY <1>1, <2>2, PartsAgree
  <2>4. QED BY <1>4, <2>3 DEF SameParts
<1>6. SubSeq(B, 1, c.from) = SubSeq(c.before, 1, c.from)
  <2>1. c.from \in 0 .. L /\ c.from \in 0 .. K /\ 0 \in 0 .. c.from /\ c.from - 0 = c.from
    BY <1>1, <1>2
  <2>2. \A i \in 1 .. c.from : 0 + i = i
    BY <1>1
  <2>3. \A i \in 1 .. c.from : B[0 + i] = c.before[0 + i]
    BY <1>2, <2>2
  <2>4. Agree(B, 0, c.from, c.before, 0, c.from)
    BY <2>1, <2>3 DEF Agree
  <2>5. SameParts(B, 0, c.from, c.before, 0, c.from)
    BY <1>1, <2>4, PartsAgree
  <2>6. QED BY <1>4, <2>5 DEF SameParts
<1>7. SubSeq(B, p + 1, L) = SubSeq(c.before, p + 1, K)
  <2>1. CASE K < p
    <3>1. SubSeq(B, p + 1, L) = <<>>
      BY <1>1, <1>2, <2>1, SubSeqEmpty
    <3>2. SubSeq(c.before, p + 1, K) = <<>>
      BY <1>1, <2>1, SubSeqEmpty
    <3>3. QED BY <3>1, <3>2
  <2>2. CASE p <= K
    <3>1. L = K /\ p \in 0 .. K /\ K \in 0 .. K
      BY <1>1, <1>2, <2>2
    <3>2. ASSUME NEW i \in 1 .. L - p PROVE B[p + i] = c.before[p + i]
      <4>1. p + i \in p + 1 .. L
        BY <1>1
      <4>2. QED BY <1>2, <4>1
    <3>3. Agree(B, p, L, c.before, p, K)
      BY <1>1, <3>1, <3>2 DEF Agree
    <3> HIDE DEF L, K
    <3>4. SameParts(B, p, L, c.before, p, K)
      BY <1>1, <3>3, PartsAgree
    <3>5. QED BY <3>4 DEF SameParts
  <2>3. QED BY <1>1, <2>1, <2>2
<1>8. QED BY <1>3, <1>5, <1>6, <1>7 DEF WrittenRight

----------------------------------------------------------------------------
(* What is written.                                                         *)

LEMMA FamilyIsSeq ==
  ASSUME NEW S, NEW n \in Nat, NEW f \in [1 .. n -> S]
  PROVE  f \in Seq(S) /\ Len(f) = n
OBVIOUS

LEMMA TextsAre ==
  ASSUME NEW text \in Texts
  PROVE  /\ DOMAIN text = 1 .. Len(text) /\ Len(text) \in Nat
         /\ \A i \in 1 .. Len(text) : text[i] \in Seq(Bytes)
<1>1. text \in Seq(Seq(Bytes \ {"nul"}))
  BY TextAssumption
<1>2. DOMAIN text = 1 .. Len(text) /\ Len(text) \in Nat
  BY <1>1, LenProperties
<1>3. ASSUME NEW i \in 1 .. Len(text) PROVE text[i] \in Seq(Bytes)
  <2>1. text[i] \in Seq(Bytes \ {"nul"})
    BY <1>1, <1>3, ElementOfSeq
  <2>2. QED BY <2>1, SeqMonotonic
<1>4. QED BY <1>2, <1>3

LEMMA LinePieces ==
  ASSUME NEW text \in Texts, NEW sep \in {<<"nl">>, <<>>}
  PROVE  FlattenSeq([i \in DOMAIN text |-> <<text[i], sep>>]) \in Seq(Seq(Bytes))
<1> DEFINE P == [i \in DOMAIN text |-> <<text[i], sep>>]
<1>1. sep \in Seq(Bytes)
  <2>1. <<"nl">> \in Seq(Bytes) /\ <<>> \in Seq(Bytes)
    BY DEF Bytes
  <2>2. QED BY <2>1
<1>2. ASSUME NEW i \in 1 .. Len(text) PROVE <<text[i], sep>> \in Seq(Seq(Bytes))
  BY <1>1, <1>2, TextsAre
<1>3. P \in Seq(Seq(Seq(Bytes)))
  <2>1. PICK n \in Nat : n = Len(text)
    BY TextsAre
  <2>2. P = [i \in 1 .. n |-> <<text[i], sep>>]
    BY <2>1, TextsAre
  <2>3. P \in [1 .. n -> Seq(Seq(Bytes))]
    BY ONLY <1>2, <2>1, <2>2
  <2>4. QED BY ONLY <2>1, <2>3, FamilyIsSeq
<1> HIDE DEF P
<1>4. FlattenSeq(P) \in Seq(Seq(Bytes))
  BY <1>3, JoinIsSeq
<1>5. QED BY <1>4 DEF P

LEMMA StringPieces ==
  ASSUME NEW text \in Texts
  PROVE  LET P == [i \in DOMAIN text |-> Append(text[i], "nul")] IN
         P \in Seq(Seq(Bytes)) /\ \A i \in 1 .. Len(P) : P[i] # <<>>
<1> DEFINE P == [i \in DOMAIN text |-> Append(text[i], "nul")]
<1>1. ASSUME NEW i \in 1 .. Len(text)
      PROVE  Append(text[i], "nul") \in Seq(Bytes) /\ Append(text[i], "nul") # <<>>
  <2>1. text[i] \in Seq(Bytes) /\ "nul" \in Bytes
    BY TextsAre DEF Bytes
  <2>2. /\ Append(text[i], "nul") \in Seq(Bytes) /\ Append(text[i], "nul") # <<>>
    BY ONLY <2>1, AppendProperties
  <2>3. QED BY <2>2
<1>2. P \in Seq(Seq(Bytes)) /\ Len(P) = Len(text)
  <2>1. PICK n \in Nat : n = Len(text)
    BY TextsAre
  <2>2. P = [i \in 1 .. n |-> Append(text[i], "nul")]
    BY <2>1, TextsAre
  <2>3. P \in [1 .. n -> Seq(Bytes)]
    BY ONLY <1>1, <2>1, <2>2
  <2>4. QED BY ONLY <2>1, <2>3, FamilyIsSeq
<1>3. ASSUME NEW i \in 1 .. Len(P) PROVE P[i] # <<>>
  BY <1>1, <1>2, TextsAre
<1>4. QED BY <1>2, <1>3

LEMMA ItemIs ==
  ASSUME NEW size \in Nat \ {0}, NEW swap \in BOOLEAN
  PROVE  Item(size, swap) \in Seq(Bytes)
<1> DEFINE nuls == [i \in 1 .. size - 1 |-> "nul"]
           item == <<"x">> \o nuls
<1>1. nuls \in Seq(Bytes)
  <2>1. size - 1 \in Nat /\ "nul" \in Bytes
    BY DEF Bytes
  <2>2. QED BY <2>1
<1>2. <<"x">> \in Seq(Bytes)
  BY DEF Bytes
<1> HIDE DEF nuls
<1>3. item \in Seq(Bytes)
  BY <1>1, <1>2, ConcatProperties
<1>4. Item(size, swap) = IF swap THEN Reverse(item) ELSE item
  BY DEF Item, nuls
<1> HIDE DEF item
<1>5. Reverse(item) \in Seq(Bytes)
  <2>1. Len(item) \in Nat /\ \A i \in 1 .. Len(item) : item[i] \in Bytes
    BY <1>3, LenProperties, ElementOfSeq
  <2>2. \A i \in 1 .. Len(item) : (Len(item) - i) + 1 \in 1 .. Len(item)
    BY <2>1
  <2>3. QED BY <2>1, <2>2 DEF Reverse
<1>6. QED BY <1>3, <1>4, <1>5

LEMMA ItemPieces ==
  ASSUME NEW n \in Nat, NEW size \in Nat \ {0}, NEW swap \in BOOLEAN
  PROVE  <<FlattenSeq([i \in 1 .. n |-> Item(size, swap)])>> \in Seq(Seq(Bytes))
<1> DEFINE P == [i \in 1 .. n |-> Item(size, swap)]
<1>1. P \in Seq(Seq(Bytes))
  BY ItemIs
<1> HIDE DEF P
<1>2. FlattenSeq(P) \in Seq(Bytes)
  BY <1>1, JoinIsSeq
<1>3. QED BY <1>2 DEF P

----------------------------------------------------------------------------
(* The steps.                                                               *)

LEMMA DeliveredIs ==
  ASSUME bytes \in Seq(Bytes), pos \in 0 .. Len(bytes), NEW k \in Nat
  PROVE  /\ Reported(k) = IF Len(bytes) - pos < k THEN Len(bytes) - pos ELSE k
         /\ Reported(k) \in 0 .. k /\ Delivered(k) \in Seq(Bytes)
         /\ mode = "read" => Delivered(k) = SubSeq(bytes, pos + 1, pos + Reported(k))
         /\ Advanced(k) = IF mode = "read" THEN pos + Reported(k) ELSE pos
         /\ Advanced(k) \in pos .. Len(bytes)
<1> DEFINE s == Reported(k)
           part == SubSeq(bytes, pos + 1, pos + s)
<1>1. Len(bytes) \in Nat /\ pos \in Nat /\ pos <= Len(bytes)
  BY LenProperties
<1>2. s = IF Len(bytes) - pos < k THEN Len(bytes) - pos ELSE k
  BY DEF Reported
<1> HIDE DEF s
<1>3. s \in 0 .. k /\ pos + s \in 0 .. Len(bytes) /\ pos \in 0 .. pos + s /\ (pos + s) - pos = s
  <2>1. PICK L : L = Len(bytes)
    OBVIOUS
  <2>2. PICK p : p = pos
    OBVIOUS
  <2>3. L \in Nat /\ p \in Nat /\ p <= L /\ s = IF L - p < k THEN L - p ELSE k
    BY <1>1, <1>2, <2>1, <2>2
  <2>4. s \in 0 .. k /\ p + s \in 0 .. L /\ p \in 0 .. p + s /\ (p + s) - p = s
    BY ONLY <2>3, k \in Nat
  <2>5. QED BY ONLY <2>1, <2>2, <2>4
<1>4. part \in Seq(Bytes) /\ Len(part) = s
  <2> DEFINE b == pos + s
  <2>1. b \in 0 .. Len(bytes) /\ pos \in 0 .. b /\ b - pos = s
    BY <1>3
  <2> HIDE DEF b
  <2>2. SubSeq(bytes, pos + 1, b) \in Seq(Bytes) /\ Len(SubSeq(bytes, pos + 1, b)) = b - pos
    BY <2>1, PartIs
  <2>3. QED BY <2>1, <2>2 DEF b
<1>5. Delivered(k) = IF mode = "read" THEN part ELSE <<>>
  BY DEF Delivered, s
<1> HIDE DEF part
<1>6. Delivered(k) \in Seq(Bytes)
  BY <1>4, <1>5, EmptySeq
<1>7. Advanced(k) = IF mode = "read" THEN pos + s ELSE pos
  <2>1. Advanced(k) = pos + Len(Delivered(k))
    BY DEF Advanced
  <2>2. CASE mode = "read"
    BY <1>4, <1>5, <2>1, <2>2
  <2>3. CASE mode # "read"
    BY <1>1, <1>5, <2>1, <2>3, EmptySeq
  <2>4. QED BY <2>2, <2>3
<1>8. Advanced(k) \in pos .. Len(bytes)
  BY <1>1, <1>3, <1>7
<1>9. QED BY <1>2, <1>3, <1>5, <1>6, <1>7, <1>8 DEF part, s

LEMMA GetcIs ==
  ASSUME bytes \in Seq(Bytes), pos \in 0 .. Len(bytes)
  PROVE  /\ Reported(1) = IF pos = Len(bytes) THEN 0 ELSE 1
         /\ adf_getc = IF pos = Len(bytes) THEN "eof"
                       ELSE IF mode = "read" THEN bytes[pos + 1] ELSE "nul"
         /\ pos # Len(bytes) => bytes[pos + 1] \in Bytes /\ pos \in 0 .. Len(bytes) - 1
         /\ Advanced(1) = IF mode = "read" /\ pos # Len(bytes) THEN pos + 1 ELSE pos
         /\ Advanced(1) \in pos .. Len(bytes)
<1>1. Len(bytes) \in Nat /\ pos \in Nat /\ pos <= Len(bytes)
  BY LenProperties
<1>2. Reported(1) = IF pos = Len(bytes) THEN 0 ELSE 1
  BY <1>1 DEF Reported
<1>3. ASSUME pos # Len(bytes) PROVE bytes[pos + 1] \in Bytes /\ pos \in 0 .. Len(bytes) - 1
  <2>1. pos + 1 \in 1 .. Len(bytes) /\ pos \in 0 .. Len(bytes) - 1
    BY <1>1, <1>3
  <2>2. QED BY <2>1, ElementOfSeq
<1>4. adf_getc = IF pos = Len(bytes) THEN "eof"
                 ELSE IF mode = "read" THEN bytes[pos + 1] ELSE "nul"
  BY <1>2 DEF adf_getc
<1>5. /\ Advanced(1) = IF mode = "read" THEN pos + Reported(1) ELSE pos
      /\ Advanced(1) \in pos .. Len(bytes)
  BY DeliveredIs
<1>6. QED BY <1>1, <1>2, <1>3, <1>4, <1>5

\* The kind of a call is that of its op.
LEMMA CallKinds ==
  ASSUME NEW c \in TextCalls \cup {NoCall}
  PROVE  /\ c.op = "lines" <=> c \in LineCalls
         /\ c.op = "strings" <=> c \in StringCalls
         /\ c.op = "items" <=> c \in ItemCalls
         /\ "pieces" \in DOMAIN c <=> c \in WriteCalls
         /\ c \in WriteCalls => c.op \in {"writelines", "writestrings", "writeitems"}
         /\ c = NoCall <=> c.op = "none"
<1>1. ASSUME NEW d \in LineCalls PROVE d.op = "lines" /\ "pieces" \notin DOMAIN d
  BY <1>1 DEF LineCalls
<1>2. ASSUME NEW d \in StringCalls PROVE d.op = "strings" /\ "pieces" \notin DOMAIN d
  BY <1>2 DEF StringCalls
<1>3. ASSUME NEW d \in ItemCalls PROVE d.op = "items" /\ "pieces" \notin DOMAIN d
  BY <1>3 DEF ItemCalls
<1>4. ASSUME NEW d \in WriteCalls
      PROVE  d.op \in {"writelines", "writestrings", "writeitems"} /\ "pieces" \in DOMAIN d
  BY <1>4 DEF WriteCalls
<1>5. NoCall.op = "none" /\ "pieces" \notin DOMAIN NoCall
  BY DEF NoCall
<1>6. c \in LineCalls \/ c \in StringCalls \/ c \in ItemCalls \/ c \in WriteCalls \/ c = NoCall
  BY DEF TextCalls
<1>7. QED BY <1>1, <1>2, <1>3, <1>4, <1>5, <1>6

\* The calls under way, updated.
NewBuf(c, b) == [c EXCEPT !.buf = b]
NewResult(c, b, r) == [c EXCEPT !.buf = b, !.result = r]
NewGot(c, m, g) == [c EXCEPT !.m = m, !.got = g]
NewLeft(c, l) == [c EXCEPT !.left = l]
NewItem(c, m, l, g) == [c EXCEPT !.m = m, !.left = l, !.got = g]
NewPieces(c, p, w) == [c EXCEPT !.pieces = p, !.warned = w]

LEMMA LineUpdates ==
  ASSUME NEW c \in LineCalls, NEW b \in Seq(Bytes)
  PROVE  /\ LET d == NewBuf(c, b) IN
            /\ d \in LineCalls /\ d.buf = b /\ d.result = c.result
            /\ d.n = c.n /\ d.from = c.from /\ d.skipNul = c.skipNul /\ d.ok = c.ok
         /\ \A r \in Seq(Seq(Bytes)) :
            LET d == NewResult(c, b, r) IN
            /\ d \in LineCalls /\ d.buf = b /\ d.result = r
            /\ d.n = c.n /\ d.from = c.from /\ d.skipNul = c.skipNul /\ d.ok = c.ok
BY DEF LineCalls, NewBuf, NewResult

LEMMA StringUpdates ==
  ASSUME NEW c \in StringCalls, NEW b \in Seq(Bytes)
  PROVE  /\ LET d == NewBuf(c, b) IN
            d \in StringCalls /\ d.buf = b /\ d.result = c.result /\ d.n = c.n /\ d.from = c.from
         /\ \A r \in Seq(Seq(Bytes)) :
            LET d == NewResult(c, b, r) IN
            d \in StringCalls /\ d.buf = b /\ d.result = r /\ d.n = c.n /\ d.from = c.from
BY DEF StringCalls, NewBuf, NewResult

SameItems(d, c) ==
    /\ d \in ItemCalls
    /\ d.n = c.n /\ d.from = c.from /\ d.size = c.size /\ d.what = c.what /\ d.swap = c.swap

LEMMA GotUpdated ==
  ASSUME NEW c \in ItemCalls, NEW m \in Nat, NEW g \in Seq(Bytes)
  PROVE  LET d == NewGot(c, m, g) IN
         SameItems(d, c) /\ d.m = m /\ d.got = g /\ d.left = c.left
BY DEF ItemCalls, NewGot, SameItems

LEMMA LeftUpdated ==
  ASSUME NEW c \in ItemCalls, NEW l \in Nat
  PROVE  LET d == NewLeft(c, l) IN
         SameItems(d, c) /\ d.m = c.m /\ d.got = c.got /\ d.left = l
BY DEF ItemCalls, NewLeft, SameItems

LEMMA ItemUpdated ==
  ASSUME NEW c \in ItemCalls, NEW m \in Nat, NEW l \in Nat, NEW g \in Seq(Bytes)
  PROVE  LET d == NewItem(c, m, l, g) IN
         SameItems(d, c) /\ d.m = m /\ d.got = g /\ d.left = l
BY DEF ItemCalls, NewItem, SameItems

LEMMA WriteUpdates ==
  ASSUME NEW c \in WriteCalls, NEW p \in Seq(Seq(Bytes)), NEW w \in BOOLEAN
  PROVE  LET d == NewPieces(c, p, w) IN
         /\ d \in WriteCalls /\ d.pieces = p /\ d.op = c.op
         /\ d.from = c.from /\ d.before = c.before /\ d.whole = c.whole
BY DEF WriteCalls, NewPieces

LEMMA Quiet ==
  ASSUME last' \in {NoAnswer, Failed}
  PROVE  AnswerSound'
<1>1. last'.is \in {"none", "error"}
  BY DEF NoAnswer, Failed
<1>2. QED BY <1>1 DEF AnswerSound

\* A call goes on.
LEMMA Continued ==
  ASSUME TextTypes, bytes' = bytes, mode' = mode, last' = last, pos' \in 0 .. Len(bytes),
         call # NoCall, call' \in TextCalls, call' \in WriteCalls => mode = "write"
  PROVE  TextTypes' /\ AnswerSound'
<1>1. last = NoAnswer /\ mode # "closed"
  BY DEF TextTypes
<1>2. AnswerSound'
  BY <1>1, Quiet
<1>3. QED BY <1>1, <1>2 DEF TextTypes

\* A call ends.
LEMMA Answered ==
  ASSUME TextTypes, bytes' = bytes, mode' = mode, pos' \in 0 .. Len(bytes), call' = NoCall
  PROVE  TextTypes' /\ CallSound'
<1>1. NoCall \notin TextCalls
  BY DEF NoCall, TextCalls, LineCalls, StringCalls, ItemCalls, WriteCalls
<1>2. CallSound'
  BY <1>1 DEF CallSound, TextCalls
<1>3. TextTypes'
  BY <1>1 DEF TextTypes, TextCalls
<1>4. QED BY <1>2, <1>3

LEMMA LineByteKeeps ==
  ASSUME TextInv, LineByte
  PROVE  TextInv'
<1>1. /\ TextTypes /\ bytes \in Seq(Bytes) /\ pos \in 0 .. Len(bytes)
      /\ mode \in {"read", "write", "closed"} /\ call \in TextCalls \cup {NoCall}
  BY DEF TextInv, TextTypes
<1>2. call \in LineCalls /\ Len(call.result) < call.n
  BY <1>1, CallKinds DEF LineByte, InLine
<1>3. /\ call \notin StringCalls /\ call \notin ItemCalls /\ call \notin WriteCalls /\ call # NoCall
      /\ call \in TextCalls
  BY <1>1, <1>2, CallKinds
<1>4. mode \in {"read", "write"} /\ last = NoAnswer
  BY <1>1, <1>3 DEF TextTypes
<1>5. /\ call.from <= pos /\ Len(call.result) <= call.n
      /\ mode = "read" => LineSound(bytes, call, pos)
      /\ mode = "write" => LineIdle(bytes, call, pos)
  BY <1>2, <1>3 DEF TextInv, CallSound
<1>6. pos # Len(bytes) /\ adf_getc \in Bytes /\ adf_getc # "nl"
  <2>1. adf_getc \in Bytes \ {"nl"}
    BY DEF LineByte
  <2>2. "eof" \notin Bytes
    BY DEF Bytes
  <2>3. QED BY <1>1, <2>1, <2>2, GetcIs
<1>7. /\ pos \in 0 .. Len(bytes) - 1
      /\ mode = "read" => adf_getc = bytes[pos + 1] /\ pos' = pos + 1
      /\ mode = "write" => pos' = pos
      /\ pos' \in pos .. Len(bytes) /\ bytes' = bytes
  BY <1>1, <1>6, GetcIs DEF LineByte
<1>8. pos' \in 0 .. Len(bytes) /\ call.from <= pos' /\ call.from \in Nat /\ pos \in Nat
  BY <1>1, <1>2, <1>5, <1>7 DEF LineCalls
<1>9. LET d == NewBuf(call, Append(call.buf, adf_getc)) IN
      /\ d \in LineCalls /\ d.buf = Append(call.buf, adf_getc) /\ d.result = call.result
      /\ d.n = call.n /\ d.from = call.from /\ d.skipNul = call.skipNul
  <2>1. Append(call.buf, adf_getc) \in Seq(Bytes)
    BY <1>2, <1>6, AppendProperties DEF LineCalls
  <2>2. QED BY <1>2, <2>1, LineUpdates
<1>10. \/ call' = NoCall /\ last' = Failed /\ mode' = mode
       \/ /\ mode' = mode /\ last' = last
          /\ call' = IF call.skipNul /\ adf_getc = "nul" THEN call
                     ELSE NewBuf(call, Append(call.buf, adf_getc))
  BY DEF LineByte, Continues, Answers, NewBuf
<1>11. CASE call' = NoCall /\ last' = Failed /\ mode' = mode
  BY <1>1, <1>7, <1>8, <1>11, Answered, Quiet DEF TextInv
<1>12. CASE /\ mode' = mode /\ last' = last
            /\ call' = IF call.skipNul /\ adf_getc = "nul" THEN call
                       ELSE NewBuf(call, Append(call.buf, adf_getc))
  <2>1. mode' = mode /\ last' = last
    BY <1>12
  <2>2. /\ call' \in LineCalls /\ call'.result = call.result /\ call'.n = call.n
        /\ call'.from = call.from /\ call'.skipNul = call.skipNul
        /\ call'.buf = IF call.skipNul /\ adf_getc = "nul" THEN call.buf ELSE Append(call.buf, adf_getc)
    BY <1>2, <1>9, <1>12
  <2>3. /\ call' \notin StringCalls /\ call' \notin ItemCalls /\ call' \notin WriteCalls /\ call' # NoCall
        /\ call' \in TextCalls
    <3>1. call' \in TextCalls
      BY <2>2 DEF TextCalls
    <3>2. QED BY <2>2, <3>1, CallKinds
  <2>4. TextTypes' /\ AnswerSound'
    BY <1>1, <1>3, <1>7, <1>8, <2>1, <2>3, Continued
  <2>5. CASE mode = "read"
    <3>1. LineSound(bytes, call', pos + 1)
      BY <1>1, <1>2, <1>5, <1>6, <1>7, <2>2, <2>5, LineByteSound
    <3>2. LineSound(bytes, call, pos)'
      BY <1>7, <2>5, <3>1
    <3>3. CallSound'
      BY <1>5, <1>8, <2>1, <2>2, <2>3, <2>5, <3>2 DEF CallSound
    <3>4. QED BY <2>4, <3>3 DEF TextInv
  <2>6. CASE mode = "write"
    <3>1. LineIdle(bytes, call', pos)
      BY <1>5, <1>6, <2>2, <2>6 DEF LineIdle
    <3>2. LineIdle(bytes, call, pos)'
      BY <1>7, <2>6, <3>1
    <3>3. CallSound'
      BY <1>5, <1>8, <2>1, <2>2, <2>3, <2>6, <3>2 DEF CallSound
    <3>4. QED BY <2>4, <3>3 DEF TextInv
  <2>7. QED BY <1>4, <2>5, <2>6
<1>13. QED BY <1>10, <1>11, <1>12

LEMMA OneKind ==
  ASSUME NEW c
  PROVE  /\ c \in LineCalls => /\ c \in TextCalls /\ c # NoCall /\ c.from \in Nat
                               /\ c \notin StringCalls /\ c \notin ItemCalls /\ c \notin WriteCalls
         /\ c \in StringCalls => /\ c \in TextCalls /\ c # NoCall /\ c.from \in Nat
                                 /\ c \notin LineCalls /\ c \notin ItemCalls /\ c \notin WriteCalls
         /\ c \in ItemCalls => /\ c \in TextCalls /\ c # NoCall /\ c.from \in Nat
                               /\ c \notin LineCalls /\ c \notin StringCalls /\ c \notin WriteCalls
         /\ c \in WriteCalls => /\ c \in TextCalls /\ c # NoCall /\ c.from \in Nat
                                /\ c \notin LineCalls /\ c \notin StringCalls /\ c \notin ItemCalls
<1>1. c \in LineCalls => c \in TextCalls /\ c.op = "lines" /\ c.from \in Nat
  BY DEF LineCalls, TextCalls
<1>2. c \in StringCalls => c \in TextCalls /\ c.op = "strings" /\ c.from \in Nat
  BY DEF StringCalls, TextCalls
<1>3. c \in ItemCalls => c \in TextCalls /\ c.op = "items" /\ c.from \in Nat
  BY DEF ItemCalls, TextCalls
<1>4. /\ c \in WriteCalls => c \in TextCalls /\ c.from \in Nat
      /\ c \in WriteCalls => c.op \in {"writelines", "writestrings", "writeitems"}
  BY DEF WriteCalls, TextCalls
<1>5. NoCall.op = "none"
  BY DEF NoCall
<1>6. QED BY <1>1, <1>2, <1>3, <1>4, <1>5

\* Of a call under way.
LEMMA CallIs ==
  ASSUME TextInv, call # NoCall
  PROVE  /\ TextTypes /\ bytes \in Seq(Bytes) /\ pos \in 0 .. Len(bytes) /\ Len(bytes) \in Nat
         /\ mode \in {"read", "write"} /\ last = NoAnswer /\ call \in TextCalls
         /\ call.from \in Nat /\ call.from <= pos
<1>1. /\ TextTypes /\ bytes \in Seq(Bytes) /\ pos \in 0 .. Len(bytes) /\ call \in TextCalls
      /\ mode \in {"read", "write"} /\ last = NoAnswer
  BY DEF TextInv, TextTypes
<1>2. call.from \in Nat
  BY <1>1, OneKind DEF TextCalls
<1>3. call.from <= pos
  BY DEF TextInv, CallSound
<1>4. QED BY <1>1, <1>2, <1>3, LenProperties

LEMMA LineCallIs ==
  ASSUME TextInv, call.op = "lines"
  PROVE  /\ call \in LineCalls /\ call # NoCall /\ Len(call.result) <= call.n
         /\ mode = "read" => LineSound(bytes, call, pos)
         /\ mode = "write" => LineIdle(bytes, call, pos)
<1>1. call \in TextCalls \cup {NoCall}
  BY DEF TextInv, TextTypes
<1>2. call \in LineCalls
  BY <1>1, CallKinds
<1>3. call # NoCall
  BY <1>2, OneKind
<1>4. QED BY <1>2, <1>3 DEF TextInv, CallSound

LEMMA LineEndKeeps ==
  ASSUME TextInv, LineEnd
  PROVE  TextInv'
<1>1. call.op = "lines" /\ Len(call.result) < call.n /\ adf_getc = "nl"
  BY DEF LineEnd, InLine
<1>2. /\ call \in LineCalls /\ call # NoCall
      /\ mode = "read" => LineSound(bytes, call, pos)
  BY <1>1, LineCallIs
<1>3. /\ TextTypes /\ bytes \in Seq(Bytes) /\ pos \in 0 .. Len(bytes) /\ Len(bytes) \in Nat
      /\ mode \in {"read", "write"} /\ call.from \in Nat /\ call.from <= pos
  BY <1>2, CallIs
<1>4. /\ mode = "read" /\ pos \in 0 .. Len(bytes) - 1 /\ bytes[pos + 1] = "nl" /\ pos' = pos + 1
  BY <1>1, <1>3, GetcIs DEF LineEnd
<1> DEFINE r == Append(call.result, CString(call.buf))
<1>5. /\ bytes' = bytes /\ mode' = mode /\ last' = last /\ call' = NewResult(call, <<>>, r)
  BY DEF LineEnd, Continues, NewResult
<1>6. /\ call.buf \in Seq(Bytes) /\ call.result \in Seq(Seq(Bytes)) /\ call.n \in Nat
      /\ Len(call.result) \in Nat
  BY <1>2, LenProperties DEF LineCalls
<1>7. r \in Seq(Seq(Bytes)) /\ Len(r) = Len(call.result) + 1
  <2>1. CString(call.buf) \in Seq(Bytes)
    BY <1>6, CStringIs
  <2>2. QED BY <1>6, <2>1, AppendProperties
<1> HIDE DEF r
<1>8. /\ call' \in LineCalls /\ call'.buf = <<>> /\ call'.result = r /\ call'.n = call.n
      /\ call'.from = call.from /\ call'.skipNul = call.skipNul
  <2>1. <<>> \in Seq(Bytes)
    BY EmptySeq
  <2>2. QED BY <1>2, <1>5, <1>7, <2>1, LineUpdates
<1>9. LineSound(bytes, call', pos + 1)
  BY <1>1, <1>2, <1>3, <1>4, <1>8, LineEndSound DEF r
<1>10. LineSound(bytes, call, pos)'
  BY <1>4, <1>5, <1>9
<1>11. /\ call' \in TextCalls /\ call' # NoCall /\ call' \notin StringCalls
       /\ call' \notin ItemCalls /\ call' \notin WriteCalls
  BY <1>8, OneKind
<1>12. pos' \in 0 .. Len(bytes) /\ call'.from <= pos' /\ Len(call'.result) <= call'.n
  BY <1>1, <1>3, <1>4, <1>6, <1>7, <1>8
<1>13. CallSound'
  BY <1>4, <1>5, <1>10, <1>11, <1>12 DEF CallSound
<1>14. TextTypes' /\ AnswerSound'
  BY <1>2, <1>3, <1>5, <1>11, <1>12, Continued
<1>15. QED BY <1>13, <1>14 DEF TextInv

LEMMA NoMoreLinesKeeps ==
  ASSUME TextInv, NoMoreLines
  PROVE  TextInv'
<1>1. call.op = "lines" /\ Len(call.result) < call.n /\ adf_getc = "eof"
  BY DEF NoMoreLines, InLine
<1>2. /\ call \in LineCalls /\ call # NoCall /\ Len(call.result) <= call.n
      /\ mode = "read" => LineSound(bytes, call, pos)
      /\ mode = "write" => LineIdle(bytes, call, pos)
  BY <1>1, LineCallIs
<1>3. /\ TextTypes /\ bytes \in Seq(Bytes) /\ pos \in 0 .. Len(bytes) /\ Len(bytes) \in Nat
      /\ mode \in {"read", "write"} /\ call.from \in Nat /\ call.from <= pos
  BY <1>2, CallIs
<1>4. pos = Len(bytes)
  <2>1. "eof" \notin Bytes /\ "eof" # "nul"
    BY DEF Bytes
  <2>2. QED BY <1>1, <1>3, <2>1, GetcIs
<1>5. LineSound(bytes, call, pos)
  <2>1. CASE mode = "write"
    <3>1. call.result = <<>> /\ call.buf = <<>> /\ call.from = pos
      BY <1>2, <1>4, <2>1 DEF LineIdle
    <3>2. LineSound(bytes, call, call.from)
      BY <1>2, <1>3, <3>1, LineBegins
    <3>3. QED BY <3>1, <3>2
  <2>2. QED BY <1>2, <1>3, <2>1
<1> DEFINE a == Lines(Append(call.result, CString(call.buf)))
<1>6. /\ call' = NoCall /\ last' \in {Failed, a} /\ mode' = mode /\ bytes' = bytes /\ pos' = pos
  BY DEF NoMoreLines, Answers
<1>7. TextTypes' /\ CallSound'
  BY <1>3, <1>6, Answered
<1>8. AnswerSound'
  <2>1. CASE last' = Failed
    BY <2>1, Quiet
  <2>2. CASE last' = a
    <3>1. /\ a.is = "lines" /\ a.n = call.n /\ a.from = call.from /\ a.skipNul = call.skipNul
          /\ a.result = Append(call.result, CString(call.buf))
      BY DEF Lines
    <3> HIDE DEF a
    <3>2. LinesRight(bytes, a, pos)
      BY <1>1, <1>2, <1>3, <1>4, <1>5, <3>1, LastLine
    <3>3. a.result \in Seq(Seq(Bytes)) /\ a.skipNul \in BOOLEAN
      <4>1. call.buf \in Seq(Bytes) /\ call.result \in Seq(Seq(Bytes)) /\ call.skipNul \in BOOLEAN
        BY <1>2 DEF LineCalls
      <4>2. CString(call.buf) \in Seq(Bytes)
        BY <4>1, CStringIs
      <4>3. QED BY <3>1, <4>1, <4>2, AppendProperties
    <3>4. QED BY <1>3, <1>6, <2>2, <3>1, <3>2, <3>3 DEF AnswerSound
  <2>3. QED BY <1>6, <2>1, <2>2
<1>9. QED BY <1>7, <1>8 DEF TextInv

LEMMA LinesReadKeeps ==
  ASSUME TextInv, LinesRead
  PROVE  TextInv'
<1>1. call.op = "lines" /\ Len(call.result) = call.n
  BY DEF LinesRead
<1>2. /\ call \in LineCalls /\ call # NoCall
      /\ mode = "read" => LineSound(bytes, call, pos)
      /\ mode = "write" => LineIdle(bytes, call, pos)
  BY <1>1, LineCallIs
<1>3. /\ TextTypes /\ bytes \in Seq(Bytes) /\ pos \in 0 .. Len(bytes) /\ Len(bytes) \in Nat
      /\ mode \in {"read", "write"} /\ call.from \in Nat /\ call.from <= pos
  BY <1>2, CallIs
<1> DEFINE a == Lines(call.result)
<1>4. /\ call' = NoCall /\ last' = a /\ mode' = mode /\ bytes' = bytes /\ pos' = pos
  BY DEF LinesRead, Answers
<1>5. TextTypes' /\ CallSound'
  BY <1>3, <1>4, Answered
<1>6. /\ a.is = "lines" /\ a.n = call.n /\ a.from = call.from /\ a.skipNul = call.skipNul
      /\ a.result = call.result
  BY DEF Lines
<1> HIDE DEF a
<1>7. LinesRight(bytes, a, pos)
  <2>1. CASE mode = "read"
    BY <1>1, <1>2, <1>3, <1>6, <2>1, AllLines
  <2>2. CASE mode = "write"
    <3>1. call.result = <<>> /\ call.from = pos
      BY <1>2, <2>2 DEF LineIdle
    <3>2. a.n = 0
      BY <1>1, <1>6, <3>1, EmptySeq
    <3>3. LinesRight(bytes, a, a.from)
      BY <1>3, <1>6, <3>1, <3>2, NoLines
    <3>4. QED BY <1>6, <3>1, <3>3
  <2>3. QED BY <1>3, <2>1, <2>2
<1>8. a.result \in Seq(Seq(Bytes)) /\ a.skipNul \in BOOLEAN
  BY <1>2, <1>6 DEF LineCalls
<1>9. AnswerSound'
  BY <1>3, <1>4, <1>6, <1>7, <1>8 DEF AnswerSound
<1>10. QED BY <1>5, <1>9 DEF TextInv

LEMMA StringCallIs ==
  ASSUME TextInv, call.op = "strings"
  PROVE  /\ call \in StringCalls /\ call # NoCall /\ Len(call.result) <= call.n
         /\ mode = "read" => StringSound(bytes, call, pos)
<1>1. call \in TextCalls \cup {NoCall}
  BY DEF TextInv, TextTypes
<1>2. call \in StringCalls
  BY <1>1, CallKinds
<1>3. call # NoCall
  BY <1>2, OneKind
<1>4. QED BY <1>2, <1>3 DEF TextInv, CallSound

\* A string that is not terminated.
LEMMA StringLimitSound ==
  ASSUME NEW B, NEW p, NEW R \in Seq(Seq(Bytes)), NEW x \in Seq(Bytes), Len(x) >= Limit,
         NEW d, d.buf = <<>>, d.result = Append(R, x)
  PROVE  StringSound(B, d, p)
<1>1. /\ Append(R, x) \in Seq(Seq(Bytes)) /\ Len(Append(R, x)) = Len(R) + 1
      /\ Append(R, x)[Len(R) + 1] = x /\ Len(R) \in Nat
  BY AppendProperties, LenProperties
<1>2. Len(R) + 1 \in DOMAIN d.result /\ d.result[Len(R) + 1] = x
  BY <1>1, LenProperties
<1>3. Limit \in Nat /\ Len(x) \in Nat
  BY TextAssumption, LenProperties
<1>4. ~AllShort(d.result)
  BY <1>2, <1>3 DEF AllShort
<1>5. QED BY <1>4 DEF StringSound

LEMMA readOneStringKeeps ==
  ASSUME TextInv, readOneString
  PROVE  TextInv'
<1>1. call.op = "strings" /\ Len(call.result) < call.n /\ Reported(1) = 1 /\ bytes' = bytes
  BY DEF readOneString
<1>2. /\ call \in StringCalls /\ call # NoCall
      /\ mode = "read" => StringSound(bytes, call, pos)
  BY <1>1, StringCallIs
<1>3. /\ TextTypes /\ bytes \in Seq(Bytes) /\ pos \in 0 .. Len(bytes) /\ Len(bytes) \in Nat
      /\ mode \in {"read", "write"} /\ call.from \in Nat /\ call.from <= pos
  BY <1>2, CallIs
<1>4. /\ pos \in 0 .. Len(bytes) - 1 /\ bytes[pos + 1] \in Bytes
      /\ mode = "read" => pos' = pos + 1
      /\ pos' \in pos .. Len(bytes)
  <2>1. pos' = Advanced(1)
    BY DEF readOneString
  <2>2. pos # Len(bytes)
    BY <1>1, <1>3, GetcIs
  <2>3. QED BY <1>3, <2>1, <2>2, GetcIs
<1>5. /\ call.buf \in Seq(Bytes) /\ call.result \in Seq(Seq(Bytes)) /\ call.n \in Nat
      /\ Len(call.result) \in Nat
  BY <1>2, LenProperties DEF StringCalls
<1>6. PICK b \in IF mode = "read" THEN {bytes[pos + 1]} ELSE Uninitialised :
         LET buf == Append(call.buf, b) IN
         \/ b = "nul" /\ Continues(NewResult(call, <<>>, Append(call.result, call.buf)))
         \/ b # "nul" /\ Continues(NewBuf(call, buf))
         \/ /\ b # "nul" /\ Len(buf) = Limit
            /\ \E behind \in {<<>>} \cup {<<x>> : x \in Uninitialised \ {"nul"}} :
                  Continues(NewResult(call, <<>>, Append(call.result, buf \o behind)))
  BY DEF readOneString, NewBuf, NewResult
<1>7. b \in Bytes /\ (mode = "read" => b = bytes[pos + 1])
  BY <1>4, <1>6 DEF Uninitialised, Bytes
<1> DEFINE buf == Append(call.buf, b)
<1>8. buf \in Seq(Bytes) /\ <<>> \in Seq(Bytes)
  BY <1>5, <1>7, AppendProperties, EmptySeq
<1> HIDE DEF buf
<1>9. /\ mode' = mode /\ last' = last /\ call' \in StringCalls /\ call'.n = call.n /\ call'.from = call.from
      /\ Len(call'.result) <= call'.n
      /\ mode = "read" => StringSound(bytes, call', pos + 1)
  <2>1. CASE b = "nul" /\ Continues(NewResult(call, <<>>, Append(call.result, call.buf)))
    <3> DEFINE r == Append(call.result, call.buf)
    <3>1. r \in Seq(Seq(Bytes)) /\ Len(r) = Len(call.result) + 1
      BY <1>5, AppendProperties
    <3>2. call' = NewResult(call, <<>>, r) /\ mode' = mode /\ last' = last
      BY <2>1 DEF Continues
    <3> HIDE DEF r
    <3>3. /\ call' \in StringCalls /\ call'.buf = <<>> /\ call'.result = r /\ call'.n = call.n
          /\ call'.from = call.from
      BY <1>2, <1>8, <3>1, <3>2, StringUpdates
    <3>4. mode = "read" => StringSound(bytes, call', pos + 1)
      BY <1>2, <1>3, <1>4, <1>7, <2>1, <3>3, StringNulSound DEF r
    <3>5. QED BY <1>1, <1>5, <3>1, <3>2, <3>3, <3>4
  <2>2. CASE b # "nul" /\ Continues(NewBuf(call, buf))
    <3>1. call' = NewBuf(call, buf) /\ mode' = mode /\ last' = last
      BY <2>2 DEF Continues
    <3>2. /\ call' \in StringCalls /\ call'.buf = buf /\ call'.result = call.result /\ call'.n = call.n
          /\ call'.from = call.from
      BY <1>2, <1>8, <3>1, StringUpdates
    <3>3. mode = "read" => StringSound(bytes, call', pos + 1)
      BY <1>1, <1>2, <1>3, <1>4, <1>7, <2>2, <3>2, StringByteSound DEF buf
    <3>4. QED BY <1>1, <1>5, <3>1, <3>2, <3>3
  <2>3. CASE /\ b # "nul" /\ Len(buf) = Limit
             /\ \E behind \in {<<>>} \cup {<<x>> : x \in Uninitialised \ {"nul"}} :
                   Continues(NewResult(call, <<>>, Append(call.result, buf \o behind)))
    <3>1. PICK behind \in {<<>>} \cup {<<x>> : x \in Uninitialised \ {"nul"}} :
             Continues(NewResult(call, <<>>, Append(call.result, buf \o behind)))
      BY <2>3
    <3>2. behind \in Seq(Bytes)
      <4>1. CASE behind = <<>>
        BY <1>8, <4>1
      <4>2. CASE behind \in {<<x>> : x \in Uninitialised \ {"nul"}}
        <5>1. PICK x \in Bytes : behind = <<x>>
          BY <4>2 DEF Uninitialised, Bytes
        <5>2. QED BY <5>1
      <4>3. QED BY <3>1, <4>1, <4>2
    <3> DEFINE string == buf \o behind
               r == Append(call.result, string)
    <3>3. string \in Seq(Bytes) /\ Len(string) >= Limit
      <4>1. /\ string \in Seq(Bytes) /\ Len(string) = Len(buf) + Len(behind) /\ Len(behind) \in Nat
            /\ Limit \in Nat
        BY <1>8, <3>2, ConcatProperties, LenProperties, TextAssumption
      <4> HIDE DEF string
      <4>2. QED BY <2>3, <4>1
    <3>4. call' = NewResult(call, <<>>, r) /\ mode' = mode /\ last' = last
      BY <3>1 DEF Continues
    <3> HIDE DEF string
    <3>5. r \in Seq(Seq(Bytes)) /\ Len(r) = Len(call.result) + 1
      BY <1>5, <3>3, AppendProperties
    <3> HIDE DEF r
    <3>6. /\ call' \in StringCalls /\ call'.buf = <<>> /\ call'.result = r /\ call'.n = call.n
          /\ call'.from = call.from
      BY <1>2, <1>8, <3>4, <3>5, StringUpdates
    <3>7. StringSound(bytes, call', pos + 1)
      BY <1>5, <3>3, <3>6, StringLimitSound DEF r
    <3>8. QED BY <1>1, <1>5, <3>4, <3>5, <3>6, <3>7
  <2>4. QED BY <1>6, <2>1, <2>2, <2>3 DEF buf
<1>10. /\ call' \in TextCalls /\ call' # NoCall /\ call' \notin LineCalls
       /\ call' \notin ItemCalls /\ call' \notin WriteCalls
  BY <1>9, OneKind
<1>11. pos' \in 0 .. Len(bytes) /\ call'.from <= pos'
  BY <1>3, <1>4, <1>9
<1>12. CallSound'
  <2>1. mode = "read" => StringSound(bytes, call, pos)'
    BY <1>1, <1>4, <1>9
  <2>2. QED BY <1>9, <1>10, <1>11, <2>1 DEF CallSound
<1>13. TextTypes' /\ AnswerSound'
  BY <1>1, <1>2, <1>3, <1>9, <1>10, <1>11, Continued
<1>14. QED BY <1>12, <1>13 DEF TextInv

LEMMA StringsReadKeeps ==
  ASSUME TextInv, StringsRead
  PROVE  TextInv'
<1>1. call.op = "strings" /\ (Len(call.result) = call.n \/ Reported(1) = 0)
  BY DEF StringsRead
<1>2. /\ call \in StringCalls /\ call # NoCall /\ Len(call.result) <= call.n
      /\ mode = "read" => StringSound(bytes, call, pos)
  BY <1>1, StringCallIs
<1>3. /\ TextTypes /\ bytes \in Seq(Bytes) /\ pos \in 0 .. Len(bytes) /\ Len(bytes) \in Nat
      /\ mode \in {"read", "write"} /\ call.from \in Nat /\ call.from <= pos
  BY <1>2, CallIs
<1>4. Len(call.result) = call.n \/ pos = Len(bytes)
  BY <1>1, <1>3, GetcIs
<1> DEFINE a == Strings
<1>5. /\ call' = NoCall /\ last' = a /\ mode' = mode /\ bytes' = bytes /\ pos' = pos
  BY DEF StringsRead, Answers
<1>6. TextTypes' /\ CallSound'
  BY <1>3, <1>5, Answered
<1>7. a.is = "strings" /\ a.n = call.n /\ a.from = call.from /\ a.result = call.result
  BY DEF Strings
<1> HIDE DEF a
<1>8. mode = "read" /\ AllShort(a.result) => StringsRight(bytes, a, pos)
  BY <1>2, <1>3, <1>4, <1>7, StringsAreRight DEF AllShort
<1>9. AnswerSound'
  BY <1>5, <1>7, <1>8 DEF AnswerSound
<1>10. QED BY <1>6, <1>9 DEF TextInv

LEMMA ItemCallIs ==
  ASSUME TextInv, call.op = "items"
  PROVE  /\ call \in ItemCalls /\ call # NoCall
         /\ mode = "read" => ItemSound(bytes, call, pos)
<1>1. call \in TextCalls \cup {NoCall}
  BY DEF TextInv, TextTypes
<1>2. call \in ItemCalls
  BY <1>1, CallKinds
<1>3. call # NoCall
  BY <1>2, OneKind
<1>4. QED BY <1>2, <1>3 DEF TextInv, CallSound

\* A call for items goes on.
LEMMA ItemsGoOn ==
  ASSUME TextInv, call.op = "items", bytes' = bytes, mode' = mode, last' = last,
         pos' \in pos .. Len(bytes), call' \in ItemCalls, call'.from = call.from,
         mode = "read" => ItemSound(bytes, call', pos')
  PROVE  TextInv'
<1>1. call # NoCall
  BY ItemCallIs
<1>2. TextTypes /\ pos \in 0 .. Len(bytes) /\ Len(bytes) \in Nat /\ call.from \in Nat /\ call.from <= pos
  BY <1>1, CallIs
<1>3. pos' \in 0 .. Len(bytes) /\ call'.from <= pos'
  BY <1>2
<1>4. /\ call' \in TextCalls /\ call' # NoCall /\ call' \notin StringCalls
      /\ call' \notin LineCalls /\ call' \notin WriteCalls
  BY OneKind
<1>5. CallSound'
  BY <1>3, <1>4 DEF CallSound
<1>6. TextTypes' /\ AnswerSound'
  BY <1>1, <1>2, <1>3, <1>4, Continued
<1>7. QED BY <1>5, <1>6 DEF TextInv

\* A call for items answers what c says.
LEMMA ItemsEnd ==
  ASSUME TextInv, call.op = "items", bytes' = bytes, pos' \in pos .. Len(bytes),
         NEW c \in ItemCalls, Answers(Items(c)), c.from <= pos',
         mode = "read" => ItemSound(bytes, c, pos') /\ (c.left = 0 \/ pos' = Len(bytes))
  PROVE  TextInv'
<1>1. call # NoCall
  BY ItemCallIs
<1>2. /\ TextTypes /\ pos \in 0 .. Len(bytes) /\ Len(bytes) \in Nat /\ bytes \in Seq(Bytes)
  BY <1>1, CallIs
<1>3. pos' \in 0 .. Len(bytes)
  BY <1>2
<1> DEFINE a == Items(c)
<1>4. call' = NoCall /\ last' = a /\ mode' = mode
  BY DEF Answers
<1>5. TextTypes' /\ CallSound'
  BY <1>2, <1>3, <1>4, Answered
<1>6. a.is = "items"
  BY DEF Items
<1>7. mode = "read" => ItemsRight(bytes, a, pos')
  BY <1>2, <1>3, ItemsAreRight
<1> HIDE DEF a
<1>8. AnswerSound'
  BY <1>4, <1>6, <1>7 DEF AnswerSound
<1>9. QED BY <1>5, <1>8 DEF TextInv

LEMMA ReadBlockKeeps ==
  ASSUME TextInv, ReadBlock
  PROVE  TextInv'
<1>1. call.op = "items" /\ AsIs(call) /\ call.left > 0 /\ bytes' = bytes
  BY DEF ReadBlock
<1>2. /\ call \in ItemCalls /\ call # NoCall
      /\ mode = "read" => ItemSound(bytes, call, pos)
  BY <1>1, ItemCallIs
<1>3. /\ TextTypes /\ bytes \in Seq(Bytes) /\ pos \in 0 .. Len(bytes) /\ Len(bytes) \in Nat
      /\ mode \in {"read", "write"} /\ call.from \in Nat /\ call.from <= pos
  BY <1>2, CallIs
<1>4. /\ call.left \in Nat /\ call.size \in Nat \ {0} /\ call.m \in Nat /\ call.got \in Seq(Bytes)
      /\ Block \in Nat \ {0}
  BY <1>2, TextAssumption DEF ItemCalls
<1>5. PICK k : k = Asked
  OBVIOUS
<1>6. k \in 1 .. call.left /\ k \in Nat /\ k > 0
  BY <1>1, <1>4, <1>5 DEF Asked
<1>7. PICK z : z = call.size * k
  OBVIOUS
<1>8. z \in Nat /\ z >= k
  <2>1. PICK y : y = call.size
    OBVIOUS
  <2>2. y \in Nat /\ y > 0 /\ z = y * k /\ k \in Nat /\ k > 0
    BY <1>4, <1>6, <1>7, <2>1
  <2>3. z \in Nat /\ z >= k
    BY ONLY <2>2, Products
  <2>4. QED BY <2>3
<1>9. PICK s : s = Reported(z)
  OBVIOUS
<1>10. /\ s = IF Len(bytes) - pos < z THEN Len(bytes) - pos ELSE z
       /\ s \in 0 .. z /\ Delivered(z) \in Seq(Bytes)
       /\ mode = "read" => Delivered(z) = SubSeq(bytes, pos + 1, pos + s)
       /\ Advanced(z) = IF mode = "read" THEN pos + s ELSE pos
       /\ Advanced(z) \in pos .. Len(bytes)
  BY <1>3, <1>8, <1>9, DeliveredIs
<1> DEFINE g == call.got \o Delivered(z)
           m == call.m + s
           l == call.left - k
           c == NewGot(call, m, g)
           d == NewLeft(c, l)
<1>11. g \in Seq(Bytes) /\ m \in Nat /\ l \in Nat
  <2>1. g \in Seq(Bytes)
    BY ONLY <1>4, <1>10, ConcatProperties
  <2>2. PICK x : x = call.left
    OBVIOUS
  <2>3. PICK y : y = call.m
    OBVIOUS
  <2>4. x \in Nat /\ y \in Nat /\ s \in Nat /\ k \in 1 .. x
    BY <1>4, <1>6, <1>8, <1>10, <2>2, <2>3
  <2>5. y + s \in Nat /\ x - k \in Nat
    BY ONLY <2>4
  <2>6. QED BY ONLY <2>1, <2>2, <2>3, <2>5
<1> HIDE DEF g, m, l
<1>12. /\ c \in ItemCalls /\ c.m = m /\ c.got = g /\ c.left = call.left
       /\ c.n = call.n /\ c.from = call.from /\ c.size = call.size /\ c.what = call.what /\ c.swap = call.swap
  BY <1>2, <1>11, GotUpdated DEF SameItems
<1>13. Got(s) = c
  BY <1>5, <1>7 DEF Got, NewGot, g, m
<1> HIDE DEF c
<1>14. /\ d \in ItemCalls /\ d.m = m /\ d.got = g /\ d.left = l
       /\ d.n = call.n /\ d.from = call.from /\ d.size = call.size /\ d.what = call.what /\ d.swap = call.swap
  BY <1>11, <1>12, LeftUpdated DEF SameItems
<1>15. /\ pos' = Advanced(z)
       /\ \/ s < k /\ Answers(Items(c))
          \/ Continues(d)
  BY <1>5, <1>7, <1>9, <1>12, <1>13 DEF ReadBlock, Short, NewLeft, l
<1> HIDE DEF d
<1>16. pos' \in pos .. Len(bytes)
  BY <1>10, <1>15
<1>17. mode = "read" => ItemSound(bytes, d, pos') /\ pos' = pos + s
  <2>1. SUFFICES ASSUME mode = "read" PROVE ItemSound(bytes, d, pos') /\ pos' = pos + s
    OBVIOUS
  <2>2. pos' = pos + s /\ d.got = call.got \o SubSeq(bytes, pos + 1, pos + s)
    BY <1>10, <1>14, <1>15, <2>1 DEF g
  <2>3. s = IF Len(bytes) - pos < call.size * k THEN Len(bytes) - pos ELSE call.size * k
    BY <1>7, <1>10
  <2>4. ItemSound(bytes, d, pos + s)
    BY <1>1, <1>2, <1>3, <1>6, <1>14, <2>1, <2>2, <2>3, ItemsSound DEF m, l
  <2>5. QED BY <2>2, <2>4
<1>18. CASE s < k /\ Answers(Items(c))
  <2>1. Items(d) = Items(c)
    BY <1>12, <1>14 DEF Items
  <2>2. mode = "read" => pos' = Len(bytes)
    <3>1. s # z
      BY <1>6, <1>8, <1>10, <1>18
    <3>2. s = Len(bytes) - pos
      BY <1>10, <3>1
    <3>3. pos + s = Len(bytes)
      BY <1>3, <3>2
    <3>4. QED BY <1>17, <3>3
  <2>3. d.from <= pos'
    BY <1>3, <1>14, <1>16
  <2>4. Answers(Items(d))
    BY <1>18, <2>1
  <2>5. QED BY <1>1, <1>14, <1>16, <1>17, <2>2, <2>3, <2>4, ItemsEnd
<1>19. CASE Continues(d)
  <2>1. call' = d /\ mode' = mode /\ last' = last
    BY <1>19 DEF Continues
  <2>2. QED BY <1>1, <1>14, <1>16, <1>17, <2>1, ItemsGoOn
<1>20. QED BY <1>15, <1>18, <1>19

LEMMA ReadItemKeeps ==
  ASSUME TextInv, ReadItem
  PROVE  TextInv'
<1>1. call.op = "items" /\ ~AsIs(call) /\ call.left > 0 /\ bytes' = bytes
  BY DEF ReadItem
<1>2. /\ call \in ItemCalls /\ call # NoCall
      /\ mode = "read" => ItemSound(bytes, call, pos)
  BY <1>1, ItemCallIs
<1>3. /\ TextTypes /\ bytes \in Seq(Bytes) /\ pos \in 0 .. Len(bytes) /\ Len(bytes) \in Nat
      /\ mode \in {"read", "write"} /\ call.from \in Nat /\ call.from <= pos
  BY <1>2, CallIs
<1>4. /\ call.left \in Nat /\ call.size \in Nat \ {0} /\ call.m \in Nat /\ call.got \in Seq(Bytes)
  BY <1>2 DEF ItemCalls
<1>5. PICK z : z = call.size
  OBVIOUS
<1>6. z \in Nat /\ z > 0 /\ 1 \in 1 .. call.left /\ call.size * 1 = z
  BY <1>1, <1>4, <1>5
<1>7. PICK s : s = Reported(z)
  OBVIOUS
<1>8. /\ s = IF Len(bytes) - pos < z THEN Len(bytes) - pos ELSE z
      /\ s \in 0 .. z /\ Delivered(z) \in Seq(Bytes)
      /\ mode = "read" => Delivered(z) = SubSeq(bytes, pos + 1, pos + s)
      /\ Advanced(z) = IF mode = "read" THEN pos + s ELSE pos
      /\ Advanced(z) \in pos .. Len(bytes)
  BY <1>3, <1>6, <1>7, DeliveredIs
<1> DEFINE g == call.got \o Delivered(z)
           m == call.m + 1
           l == call.left - 1
           d == NewItem(call, m, l, g)
<1>9. g \in Seq(Bytes) /\ m \in Nat /\ l \in Nat
  BY <1>1, <1>4, <1>8, ConcatProperties
<1>10. /\ pos' = Advanced(z)
       /\ \/ s = 0 /\ Answers(Items(call))
          \/ s > 0 /\ Continues(d)
  BY <1>5, <1>7 DEF ReadItem, NewItem
<1> HIDE DEF g, m, l
<1>11. /\ d \in ItemCalls /\ d.m = m /\ d.got = g /\ d.left = l
       /\ d.n = call.n /\ d.from = call.from /\ d.size = call.size /\ d.what = call.what /\ d.swap = call.swap
  BY <1>2, <1>9, ItemUpdated DEF SameItems
<1> HIDE DEF d
<1>12. pos' \in pos .. Len(bytes)
  BY <1>8, <1>10
<1>13. CASE s = 0 /\ Answers(Items(call))
  <2>1. pos = Len(bytes)
    BY <1>3, <1>6, <1>8, <1>13
  <2>2. pos' = pos
    BY <1>3, <1>12, <2>1
  <2>3. QED BY <1>1, <1>2, <1>3, <1>12, <1>13, <2>1, <2>2, ItemsEnd
<1>14. CASE s > 0 /\ Continues(d)
  <2>1. call' = d /\ mode' = mode /\ last' = last
    BY <1>14 DEF Continues
  <2>2. mode = "read" => ItemSound(bytes, d, pos')
    <3>1. SUFFICES ASSUME mode = "read" PROVE ItemSound(bytes, d, pos')
      OBVIOUS
    <3>2. pos' = pos + s /\ d.got = call.got \o SubSeq(bytes, pos + 1, pos + s)
      BY <1>8, <1>10, <1>11, <3>1 DEF g
    <3>3. s = IF Len(bytes) - pos < call.size * 1 THEN Len(bytes) - pos ELSE call.size * 1
      BY <1>6, <1>8
    <3>4. ItemSound(bytes, d, pos + s)
      BY <1>1, <1>2, <1>3, <1>6, <1>11, <1>14, <3>1, <3>2, <3>3, ItemsSound DEF m, l
    <3>5. QED BY <3>2, <3>4
  <2>3. QED BY <1>1, <1>11, <1>12, <2>1, <2>2, ItemsGoOn
<1>15. QED BY <1>10, <1>13, <1>14

LEMMA ItemsReadKeeps ==
  ASSUME TextInv, ItemsRead
  PROVE  TextInv'
<1>1. /\ call.op = "items" /\ call.left = 0 /\ bytes' = bytes /\ pos' = pos /\ Answers(Items(call))
  BY DEF ItemsRead
<1>2. /\ call \in ItemCalls /\ call # NoCall
      /\ mode = "read" => ItemSound(bytes, call, pos)
  BY <1>1, ItemCallIs
<1>3. pos' \in pos .. Len(bytes) /\ call.from <= pos'
  BY <1>1, <1>2, CallIs
<1>4. QED BY <1>1, <1>2, <1>3, ItemsEnd

LEMMA WriteCallIs ==
  ASSUME TextInv, "pieces" \in DOMAIN call
  PROVE  call \in WriteCalls /\ call # NoCall /\ mode = "write" /\ WriteSound(bytes, call, pos)
<1>1. call \in TextCalls \cup {NoCall}
  BY DEF TextInv, TextTypes
<1>2. call \in WriteCalls
  BY <1>1, CallKinds
<1>3. call # NoCall
  BY <1>2, OneKind
<1>4. QED BY <1>2, <1>3 DEF TextInv, CallSound, TextTypes

LEMMA WritePieceKeeps ==
  ASSUME TextInv, WritePiece
  PROVE  TextInv'
<1>1. "pieces" \in DOMAIN call /\ call.pieces # <<>>
  BY DEF WritePiece
<1>2. call \in WriteCalls /\ call # NoCall /\ mode = "write" /\ WriteSound(bytes, call, pos)
  BY <1>1, WriteCallIs
<1>3. /\ TextTypes /\ bytes \in Seq(Bytes) /\ pos \in 0 .. Len(bytes) /\ Len(bytes) \in Nat
      /\ last = NoAnswer /\ call.from \in Nat /\ call.from <= pos
  BY <1>2, CallIs
<1>4. Len(bytes) <= Capacity
  BY <1>3 DEF TextTypes
<1>5. PICK f : f = Fit(Head(call.pieces))
  OBVIOUS
<1> DEFINE stop == call.op = "writestrings" /\ Len(f) = 0
           p == IF stop THEN <<>> ELSE Tail(call.pieces)
<1>6. PICK w \in BOOLEAN : call' = NewPieces(call, p, w)
  <2> DEFINE piece == Head(call.pieces)
             items == Cardinality({i \in DOMAIN piece : piece[i] = "x"})
             w == stop \/ (call.op = "writeitems" /\ Len(f) < items)
  <2>1. call' = NewPieces(call, p, w)
    BY <1>5 DEF WritePiece, Continues, NewPieces
  <2>2. w \in BOOLEAN
    OBVIOUS
  <2> HIDE DEF w
  <2>3. QED BY <2>1, <2>2
<1>7. bytes' = Written(f) /\ pos' = pos + Len(f) /\ mode' = mode /\ last' = last
  BY <1>5 DEF WritePiece, Continues
<1>8. call.pieces \in Seq(Seq(Bytes))
  BY <1>2 DEF WriteCalls
<1>9. p \in Seq(Seq(Bytes))
  <2>1. Tail(call.pieces) \in Seq(Seq(Bytes))
    BY <1>1, <1>8, HeadTailProperties
  <2>2. <<>> \in Seq(Seq(Bytes))
    BY EmptySeq
  <2>3. QED BY <2>1, <2>2
<1> HIDE DEF p
<1>10. /\ call' \in WriteCalls /\ call'.pieces = p /\ call'.op = call.op
       /\ call'.from = call.from /\ call'.before = call.before /\ call'.whole = call.whole
  BY <1>2, <1>6, <1>9, WriteUpdates
<1>11. call'.pieces = IF call.op = "writestrings" /\ Len(f) = 0 THEN <<>> ELSE Tail(call.pieces)
  BY <1>10 DEF p
<1>12. /\ WriteSound(Written(f), call', pos + Len(f))
       /\ Written(f) \in Seq(Bytes) /\ Len(Written(f)) <= Capacity
       /\ pos + Len(f) \in 0 .. Len(Written(f)) /\ call.from <= pos + Len(f)
  BY <1>1, <1>2, <1>3, <1>4, <1>5, <1>10, <1>11, PieceSound
<1>13. WriteSound(bytes, call, pos)'
  BY <1>7, <1>12
<1>14. /\ call' \in TextCalls /\ call' # NoCall /\ call' \notin StringCalls
       /\ call' \notin LineCalls /\ call' \notin ItemCalls
  BY <1>10, OneKind
<1>15. CallSound'
  BY <1>7, <1>10, <1>12, <1>13, <1>14 DEF CallSound
<1>16. TextTypes'
  BY <1>2, <1>3, <1>7, <1>12, <1>14 DEF TextTypes
<1>17. AnswerSound'
  BY <1>3, <1>7, Quiet
<1>18. QED BY <1>15, <1>16, <1>17 DEF TextInv

LEMMA WriteDoneKeeps ==
  ASSUME TextInv, WriteDone
  PROVE  TextInv'
<1>1. "pieces" \in DOMAIN call /\ call.pieces = <<>>
  BY DEF WriteDone
<1>2. call \in WriteCalls /\ call # NoCall /\ mode = "write" /\ WriteSound(bytes, call, pos)
  BY <1>1, WriteCallIs
<1>3. /\ TextTypes /\ bytes \in Seq(Bytes) /\ pos \in 0 .. Len(bytes) /\ call.from <= pos
  BY <1>2, CallIs
<1> DEFINE a == [is |-> "written", from |-> call.from, whole |-> call.whole,
                 before |-> call.before, warned |-> call.warned]
<1>4. /\ call' = NoCall /\ last' = a /\ mode' = mode /\ bytes' = bytes /\ pos' = pos
  BY DEF WriteDone, Answers
<1>5. TextTypes' /\ CallSound'
  BY <1>3, <1>4, Answered
<1>6. a.is = "written" /\ a.from = call.from /\ a.whole = call.whole /\ a.before = call.before
  OBVIOUS
<1> HIDE DEF a
<1>7. WrittenRight(bytes, a, pos)
  BY <1>1, <1>2, <1>3, <1>6, WriteAnswer
<1>8. AnswerSound'
  BY <1>4, <1>6, <1>7 DEF AnswerSound
<1>9. QED BY <1>5, <1>8 DEF TextInv

\* No call is under way, nor begins.
LEMMA Rests ==
  ASSUME TextTypes, call = NoCall, call' = NoCall, bytes' = bytes, pos' \in 0 .. Len(bytes),
         mode' \in {"read", "write", "closed"}, last' \in {NoAnswer, Failed}
  PROVE  TextInv'
<1>1. NoCall \notin TextCalls
  BY DEF NoCall, TextCalls, LineCalls, StringCalls, ItemCalls, WriteCalls
<1>2. CallSound'
  BY <1>1 DEF CallSound, TextCalls
<1>3. TextTypes'
  BY <1>1 DEF TextTypes, TextCalls
<1>4. QED BY <1>2, <1>3, Quiet DEF TextInv

\* A call begins.
LEMMA Begun ==
  ASSUME TextInv, NEW c \in TextCalls, Begins(c), c.from = pos,
         c \in LineCalls => /\ Len(c.result) <= c.n
                            /\ LineSound(bytes, c, pos) /\ LineIdle(bytes, c, pos),
         c \in StringCalls => Len(c.result) <= c.n /\ StringSound(bytes, c, pos),
         c \in ItemCalls => ItemSound(bytes, c, pos),
         c \in WriteCalls => mode = "write" /\ WriteSound(bytes, c, pos)
  PROVE  TextInv'
<1>1. /\ call' = c /\ last' = NoAnswer /\ bytes' = bytes /\ pos' = pos /\ mode' = mode
      /\ mode # "closed"
  BY DEF Begins, Idle
<1>2. TextTypes /\ pos \in Nat
  BY LenProperties DEF TextInv, TextTypes
<1>3. c # NoCall
  BY OneKind DEF TextCalls
<1>4. CallSound'
  BY <1>1, <1>2 DEF CallSound
<1>5. TextTypes'
  BY <1>1, <1>2 DEF TextTypes
<1>6. AnswerSound'
  BY <1>1, Quiet
<1>7. QED BY <1>4, <1>5, <1>6 DEF TextInv

LEMMA LinesBegin ==
  ASSUME TextInv, NEW n \in Counts \cup {All}, NEW ok \in BOOLEAN, NEW skipNul \in BOOLEAN,
         adf_readlines(n, ok, skipNul)
  PROVE  TextInv'
<1> DEFINE c == [op |-> "lines", n |-> n, ok |-> ok, skipNul |-> skipNul,
                 from |-> pos, buf |-> <<>>, result |-> <<>>]
<1>1. Begins(c)
  BY DEF adf_readlines
<1>2. bytes \in Seq(Bytes) /\ pos \in 0 .. Len(bytes) /\ pos \in Nat
  BY LenProperties DEF TextInv, TextTypes
<1>3. n \in Nat
  BY TextAssumption DEF All
<1>4. c \in LineCalls
  <2>1. <<>> \in Seq(Bytes) /\ <<>> \in Seq(Seq(Bytes))
    BY EmptySeq
  <2>2. QED BY <1>2, <1>3, <2>1 DEF LineCalls
<1>5. c.n = n /\ c.from = pos /\ c.buf = <<>> /\ c.result = <<>>
  OBVIOUS
<1> HIDE DEF c
<1>6. LineSound(bytes, c, pos)
  BY <1>2, <1>4, <1>5, LineBegins
<1>7. LineIdle(bytes, c, pos)
  BY <1>5 DEF LineIdle
<1>8. Len(c.result) <= c.n
  <2>1. Len(<<>>) = 0
    BY EmptySeq
  <2>2. QED BY <1>3, <1>5, <2>1
<1>9. QED BY <1>1, <1>4, <1>5, <1>6, <1>7, <1>8, OneKind, Begun

LEMMA StringsBegin ==
  ASSUME TextInv, NEW n \in Counts, adf_readbin_character(n)
  PROVE  TextInv'
<1> DEFINE c == [op |-> "strings", n |-> n, from |-> pos, buf |-> <<>>, result |-> <<>>]
<1>1. Begins(c)
  BY DEF adf_readbin_character
<1>2. bytes \in Seq(Bytes) /\ pos \in 0 .. Len(bytes) /\ pos \in Nat
  BY LenProperties DEF TextInv, TextTypes
<1>3. n \in Nat
  BY TextAssumption
<1>4. c \in StringCalls
  <2>1. <<>> \in Seq(Bytes) /\ <<>> \in Seq(Seq(Bytes))
    BY EmptySeq
  <2>2. QED BY <1>2, <1>3, <2>1 DEF StringCalls
<1>5. c.n = n /\ c.from = pos /\ c.buf = <<>> /\ c.result = <<>>
  OBVIOUS
<1> HIDE DEF c
<1>6. StringSound(bytes, c, pos)
  BY <1>2, <1>4, <1>5, StringBegins
<1>7. Len(c.result) <= c.n
  <2>1. Len(<<>>) = 0
    BY EmptySeq
  <2>2. QED BY <1>3, <1>5, <2>1
<1>8. QED BY <1>1, <1>4, <1>5, <1>6, <1>7, OneKind, Begun

LEMMA ItemsBegin ==
  ASSUME TextInv, NEW what \in Whats, NEW n \in Counts, NEW swap \in BOOLEAN, NEW size \in Sizes[what],
         adf_readbin(what, n, size, swap)
  PROVE  TextInv'
<1> DEFINE c == [op |-> "items", what |-> what, n |-> n, size |-> size, swap |-> swap,
                 from |-> pos, left |-> n, m |-> 0, got |-> <<>>]
<1>1. Begins(c)
  BY DEF adf_readbin
<1>2. bytes \in Seq(Bytes) /\ pos \in 0 .. Len(bytes) /\ pos \in Nat
  BY LenProperties DEF TextInv, TextTypes
<1>3. n \in Nat /\ size \in Nat \ {0}
  BY TextAssumption
<1>4. c \in ItemCalls
  <2>1. <<>> \in Seq(Bytes)
    BY EmptySeq
  <2>2. QED BY <1>2, <1>3, <2>1 DEF ItemCalls
<1>5. /\ c.from = pos /\ c.left = c.n /\ c.m = 0 /\ c.got = <<>> /\ c.size \in Sizes[c.what]
  OBVIOUS
<1> HIDE DEF c
<1>6. ItemSound(bytes, c, pos)
  BY <1>2, <1>4, <1>5, ItemBegins
<1>7. QED BY <1>1, <1>4, <1>5, <1>6, OneKind, Begun

LEMMA WritesBegin ==
  ASSUME TextInv, NEW op \in {"writelines", "writestrings", "writeitems"},
         NEW pieces \in Seq(Seq(Bytes)), Writing(op, pieces),
         op = "writestrings" => \A i \in 1 .. Len(pieces) : pieces[i] # <<>>
  PROVE  TextInv'
<1> DEFINE c == [op |-> op, pieces |-> pieces, whole |-> FlattenSeq(pieces),
                 from |-> pos, before |-> bytes, warned |-> FALSE]
<1>1. Begins(c) /\ mode = "write"
  BY DEF Writing
<1>2. bytes \in Seq(Bytes) /\ pos \in 0 .. Len(bytes) /\ pos \in Nat
  BY LenProperties DEF TextInv, TextTypes
<1>3. FlattenSeq(pieces) \in Seq(Bytes)
  BY JoinIsSeq
<1>4. c \in WriteCalls
  BY <1>2, <1>3 DEF WriteCalls
<1>5. /\ c.from = pos /\ c.before = bytes /\ c.whole = FlattenSeq(c.pieces) /\ c.op = op
      /\ c.pieces = pieces
  OBVIOUS
<1> HIDE DEF c
<1>6. WriteSound(bytes, c, pos)
  BY <1>2, <1>4, <1>5, WriteBegins
<1>7. QED BY <1>1, <1>4, <1>5, <1>6, OneKind, Begun

LEMMA RequestKeeps ==
  ASSUME TextInv, Request
  PROVE  TextInv'
<1>1. /\ TextTypes /\ bytes \in Seq(Bytes) /\ pos \in 0 .. Len(bytes) /\ 0 \in 0 .. Len(bytes)
      /\ mode \in {"read", "write", "closed"} /\ (mode = "closed" => call = NoCall)
  <2>1. TextTypes
    BY DEF TextInv
  <2>2. QED BY <2>1, LenProperties DEF TextTypes
<1>2. CASE Open
  BY <1>1, <1>2, Rests DEF Open
<1>3. CASE Close
  BY <1>1, <1>3, Rests DEF Close, Idle
<1>4. CASE Seek
  BY <1>1, <1>4, Rests DEF Seek, Idle
<1>5. CASE CannotWrite
  BY <1>1, <1>5, Rests DEF CannotWrite
<1>6. CASE adf_readbin_invalid
  BY <1>1, <1>6, Rests DEF adf_readbin_invalid, Idle
<1>7. CASE \E n \in Counts \cup {All}, ok, skipNul \in BOOLEAN : adf_readlines(n, ok, skipNul)
  BY <1>7, LinesBegin
<1>8. CASE \E n \in Counts : adf_readbin_character(n)
  BY <1>8, StringsBegin
<1>9. CASE \E what \in Whats, n \in Counts, swap \in BOOLEAN :
              \E size \in Sizes[what] : adf_readbin(what, n, size, swap)
  BY <1>9, ItemsBegin
<1>10. CASE \E text \in Texts, sep \in {<<"nl">>, <<>>} : adf_writelines(text, sep)
  <2>1. PICK text \in Texts, sep \in {<<"nl">>, <<>>} : adf_writelines(text, sep)
    BY <1>10
  <2> DEFINE P == FlattenSeq([i \in DOMAIN text |-> <<text[i], sep>>])
  <2>2. P \in Seq(Seq(Bytes))
    BY LinePieces
  <2>3. Writing("writelines", P)
    BY <2>1 DEF adf_writelines
  <2> HIDE DEF P
  <2>4. QED BY <2>2, <2>3, WritesBegin
<1>11. CASE \E text \in Texts : adf_writebin_character(text)
  <2>1. PICK text \in Texts : adf_writebin_character(text)
    BY <1>11
  <2> DEFINE P == [i \in DOMAIN text |-> Append(text[i], "nul")]
  <2>2. P \in Seq(Seq(Bytes)) /\ \A i \in 1 .. Len(P) : P[i] # <<>>
    BY StringPieces
  <2>3. Writing("writestrings", P)
    BY <2>1 DEF adf_writebin_character
  <2> HIDE DEF P
  <2>4. QED BY <2>2, <2>3, WritesBegin
<1>12. CASE \E n \in Counts, what \in Whats, swap \in BOOLEAN :
               \E size \in Sizes[what] : adf_writebin(n, size, swap)
  <2>1. PICK n \in Counts, what \in Whats, swap \in BOOLEAN :
           \E size \in Sizes[what] : adf_writebin(n, size, swap)
    BY <1>12
  <2>2. PICK size \in Sizes[what] : adf_writebin(n, size, swap)
    BY <2>1
  <2>3. n \in Nat /\ size \in Nat \ {0}
    BY <2>1, <2>2, TextAssumption
  <2> DEFINE P == <<FlattenSeq([i \in 1 .. n |-> Item(size, swap)])>>
  <2>4. P \in Seq(Seq(Bytes))
    BY <2>3, ItemPieces
  <2>5. Writing("writeitems", P)
    BY <2>2 DEF adf_writebin
  <2> HIDE DEF P
  <2>6. QED BY <2>4, <2>5, WritesBegin
<1>13. QED BY <1>2, <1>3, <1>4, <1>5, <1>6, <1>7, <1>8, <1>9, <1>10, <1>11, <1>12 DEF Request

LEMMA InitText ==
  ASSUME Init
  PROVE  TextInv
<1>1. bytes \in Seq(Bytes) /\ Len(bytes) <= Capacity /\ pos = 0 /\ mode = "closed" /\ call = NoCall
      /\ last = NoAnswer
  BY TextAssumption DEF Init
<1>2. NoCall \notin TextCalls
  BY DEF NoCall, TextCalls, LineCalls, StringCalls, ItemCalls, WriteCalls
<1>3. TextTypes
  BY <1>1, <1>2, LenProperties DEF TextTypes, TextCalls
<1>4. CallSound
  BY <1>1, <1>2 DEF CallSound, TextCalls
<1>5. AnswerSound
  BY <1>1 DEF AnswerSound, NoAnswer
<1>6. QED BY <1>3, <1>4, <1>5 DEF TextInv

LEMMA NextText ==
  ASSUME TextInv, [Next]_vars
  PROVE  TextInv'
<1>1. CASE Turn
  BY <1>1, LineByteKeeps, LineEndKeeps, NoMoreLinesKeeps, LinesReadKeeps, readOneStringKeeps,
     StringsReadKeeps, ReadBlockKeeps, ReadItemKeeps, ItemsReadKeeps, WritePieceKeeps, WriteDoneKeeps
     DEF Turn
<1>2. CASE Request
  BY <1>2, RequestKeeps
<1>3. CASE UNCHANGED vars
  <2>1. bytes' = bytes /\ pos' = pos /\ mode' = mode /\ call' = call /\ last' = last
    BY <1>3 DEF vars
  <2>2. TextTypes'
    BY <2>1 DEF TextInv, TextTypes
  <2>3. CallSound'
    BY <2>1 DEF TextInv, CallSound
  <2>4. AnswerSound'
    BY <2>1 DEF TextInv, AnswerSound
  <2>5. QED BY <2>2, <2>3, <2>4 DEF TextInv
<1>4. QED BY <1>1, <1>2, <1>3 DEF Next

----------------------------------------------------------------------------
(* The theorems.                                                            *)

\* What a call under way has read or written so far is what it should be, and
\* the answer of the last call is right.
THEOREM TextInvariance == Spec => []TextInv
<1>1. Init => TextInv
  BY InitText
<1>2. TextInv /\ [Next]_vars => TextInv'
  BY NextText
<1>3. QED BY <1>1, <1>2, PTL DEF Spec

\* Lines, strings and items are those of the file from where the read began:
\* for files, volumes and counts of any size, items of any number of bytes,
\* blocks of any number of items, and whatever a connection for writing, which
\* reads nothing, pretends to have read.
THEOREM ReadsAreRight == Spec => []ReadsWhatIsThere
<1>1. TextInv => ReadsWhatIsThere
  <2>1. SUFFICES ASSUME TextInv PROVE ReadsWhatIsThere
    OBVIOUS
  <2>2. AnswerSound /\ bytes \in Seq(Bytes)
    BY <2>1 DEF TextInv, TextTypes
  <2>3. last.is = "lines" => LinesAreThere
    BY <2>2, LinesAreRight DEF AnswerSound
  <2>4. last.is = "strings" /\ mode = "read" /\ (\A k \in DOMAIN last.result :
           Len(last.result[k]) < Limit) => StringsAreThere
    BY <2>2 DEF AnswerSound, AllShort, StringsRight, StringsAreThere
  <2>5. last.is = "items" /\ mode = "read" => ItemsAreThere
    BY <2>2 DEF AnswerSound, ItemsRight, ItemsAreThere
  <2>6. QED BY <2>3, <2>4, <2>5 DEF ReadsWhatIsThere
<1>2. QED BY <1>1, TextInvariance, PTL

\* A write puts its pieces one behind the other from where it began, drops none
\* unless the volume is full, and leaves the rest of the file alone: texts of
\* any length, on volumes of any size.
THEOREM WritesAreRight == Spec => []WritesItsText
<1>1. TextInv => WritesItsText
  BY DEF TextInv, AnswerSound, WrittenRight, WritesItsText
<1>2. QED BY <1>1, TextInvariance, PTL
=============================================================================
