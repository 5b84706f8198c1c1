-------------------------- MODULE AdfSessionProofs --------------------------
(***************************************************************************)
(* Theorems about AdfSession: paths of any length, any number of open      *)
(* connections, and every sound volume that the session starts from.       *)
(***************************************************************************)
EXTENDS AdfSession, AdfDirProofs, SequenceTheorems

----------------------------------------------------------------------------
(* Paths.                                                                   *)

\* Where a path can lead when it starts in S, and S holds every linked block:
\* an entry that is there is a linked one, in the directory before it.
Reached(S, L) ==
    {e \in Places :
       /\ e.sector \in S \cup {NoBlock} /\ e.parent \in S \cup {NoBlock} /\ e.entry \in S
       /\ e.sector # NoBlock /\ e.parent # NoBlock =>
            e.entry = e.sector /\ e.sector \in L /\ disk[e.sector].parent = e.parent}

\* One part of a path, looked up in what the parts before it have led to.
LEMMA StepLeads ==
  ASSUME disk \in [Blocks -> Headers], NEW T, NEW L, NEW B, NEW Q, NEW P,
         Threaded(disk, T, L, B, Q, P), NEW S, L \subseteq S, S \subseteq T,
         NEW n \in Names, NEW e \in Reached(S, L)
  PROVE  PathStep(n)[e] \in Reached(S, L)
<1>0. /\ T \subseteq Blocks /\ L \subseteq T /\ Hash[n] \in Buckets /\ e \in Places
      /\ EmptyName \in Names /\ NoBlock \notin Blocks
  BY ConstantsAssumption, SessionAssumption DEF Threaded, WitnessTypes, Reached
<1>1. CASE ~Exists(e)
  BY <1>0, <1>1 DEF PathStep
<1>2. CASE Exists(e)
  <2> DEFINE d == e.sector
             b == adfNameToEntryBlk(disk, d, n)
             read == LastRead(d, n)
             to == [sector |-> b, parent |-> d, entry |-> read,
                    remainder |-> IF b = NoBlock THEN n ELSE EmptyName]
  <2>1. d \in S /\ d \in T
    BY <1>2 DEF Exists, Reached
  <2>2. b \in L \cup {NoBlock} /\ (b # NoBlock => disk[b].parent = d)
    BY <1>0, <2>1, LookupFinds
  <2>3. read = IF b # NoBlock THEN b
               ELSE IF disk[d].ht[Hash[n]] = NoBlock THEN d ELSE ChainEnd(disk, d, Hash[n])
    BY DEF LastRead
  <2>4. disk[d].ht[Hash[n]] # NoBlock => ChainEnd(disk, d, Hash[n]) \in L
    BY <1>0, <2>1, ChainHasEnd
  <2>5. PathStep(n)[e] = to
    BY <1>0, <1>2 DEF PathStep
  <2> HIDE DEF b, read, d
  <2>6. read \in S /\ (b # NoBlock => read = b)
    BY <2>1, <2>2, <2>3, <2>4
  <2>7. to \in Places
    BY <1>0, <2>1, <2>2, <2>6 DEF Places, Pointers
  <2>8. QED BY <2>1, <2>2, <2>5, <2>6, <2>7 DEF Reached
<1>3. QED
  BY <1>1, <1>2

\* All of them, for a path of any length.
LEMMA PathLeads ==
  ASSUME disk \in [Blocks -> Headers], NEW T, NEW L, NEW B, NEW Q, NEW P,
         Threaded(disk, T, L, B, Q, P), NEW S, L \subseteq S, S \subseteq T,
         RootBlock \in S, curDirPtr \in S, NEW path \in Paths
  PROVE  adf_path_to_entry(path) \in Reached(S, L)
<1> DEFINE start == IF path.abs THEN RootBlock ELSE curDirPtr
           len == Len(path.chunks)
           from == [sector |-> start, parent |-> NoBlock, entry |-> start, remainder |-> EmptyName]
           F == [i \in 1 .. len |-> PathStep(path.chunks[i])]
           R == Reached(S, L)
<1>1. path.chunks \in Seq(Names) /\ len \in Nat /\ S \subseteq Blocks /\ EmptyName \in Names
      /\ NoBlock \notin Blocks
  BY ConstantsAssumption, SessionAssumption DEF Threaded, WitnessTypes
<1>2. from \in R
  <2>1. start \in S /\ start \in Blocks
    BY <1>1
  <2> HIDE DEF start
  <2>2. from \in Places
    BY <1>1, <2>1 DEF Places, Pointers
  <2>3. QED BY <2>1, <2>2 DEF Reached
<1>3. \A i \in 1 .. len, x \in R : F[i][x] \in R
  BY <1>1, StepLeads
<1>4. adf_path_to_entry(path) = Along(F, from, len)[len]
  BY DEF adf_path_to_entry
<1> HIDE DEF from, F, R, len
<1>5. Along(F, from, len) \in [0 .. len -> R]
  BY <1>1, <1>2, <1>3, AlongDef
<1>6. QED
  BY <1>1, <1>4, <1>5 DEF R

----------------------------------------------------------------------------
(* The calls of AdfDir, seen from a session: what they do to the free blocks, *)
(* and what is found where an entry has been made.                            *)

\* A creation that is not cut short makes its entry, or changes nothing.
LEMMA CreateOutcome ==
  ASSUME ~MayBeCut, NEW type, NEW d, NEW n, Create(type, d, n)
  PROVE  \/ /\ ~CanCreate(d, n) /\ last'.rc = "error"
            /\ disk' = disk /\ free' = free /\ diskFree' = diskFree
         \/ /\ CanCreate(d, n) /\ last'.rc = "ok"
            /\ disk' = WithEntry(type, d, n, adfGet1FreeBlock)
            /\ free' = free \ {adfGet1FreeBlock}
<1>1. CASE ~CanCreate(d, n)
  BY <1>1 DEF Create, Refused, Returned
<1>2. CASE CanCreate(d, n)
  <2> DEFINE new == adfGet1FreeBlock
             linked == Linked(d, n, new)
             written == [linked EXCEPT ![new] = Header(type, Cut[n], d)]
             imgs == <<disk, linked, written>>
             mem == <<free, free \ {new}, free \ {new}>>
             call == Returned("create", d, n, "ok")
  <2>1. Perform(imgs, mem, TRUE, call)
    BY <1>2 DEF Create
  <2>2. Len(imgs) = 3 /\ imgs[3] = written /\ mem[3] = free \ {new} /\ call.rc = "ok"
    BY DEF Returned
  <2>3. written = WithEntry(type, d, n, new)
    BY DEF WithEntry
  <2> HIDE DEF imgs, mem, call, written, new
  <2>4. disk' = imgs[Len(imgs)] /\ free' = mem[Len(imgs)] /\ last' = call
    BY <2>1 DEF Perform
  <2>5. QED BY <1>2, <2>2, <2>3, <2>4 DEF new
<1>3. QED
  BY <1>1, <1>2

\* A removal frees the block of the entry it has found, and no other.
LEMMA RemoveFrees ==
  ASSUME free = diskFree, NEW d, NEW n, adfRemoveEntry(d, n)
  PROVE  free' \subseteq free \cup {adfNameToEntryBlk(disk, d, n)}
<1> DEFINE b == adfNameToEntryBlk(disk, d, n)
           unlinked == Unlinked(disk, d, Hash[n], UpdSect(disk, d, n), disk[b].next)
<1>1. ASSUME NEW call, Refused(call) PROVE free' = free
  BY <1>1 DEF Refused
<1>2. ASSUME NEW mem, mem[1] = free, mem[2] \in {free, free \cup {b}}, NEW sync, NEW call,
             Perform(<<disk, unlinked>>, mem, sync, call)
      PROVE  free' \subseteq free \cup {b}
  <2> HIDE DEF b, unlinked
  <2>1. PICK k \in 1 .. 2 : diskFree' \in {mem[k], diskFree} /\ free' \in {mem[k], diskFree'}
    BY <1>2 DEF Perform
  <2>2. mem[k] \in {free, free \cup {b}}
    BY <1>2, <2>1
  <2>3. QED BY <2>1, <2>2
<1>3. CASE b = NoBlock \/ (disk[b].type = "dir" /\ ~isDirEmpty(b))
  BY <1>1, <1>3 DEF adfRemoveEntry
<1>4. CASE ~(b = NoBlock \/ (disk[b].type = "dir" /\ ~isDirEmpty(b)))
  <2>1. \/ Perform(<<disk, unlinked>>, <<free, free \cup {b}>>, TRUE, Returned("remove", d, n, "ok"))
        \/ Perform(<<disk, unlinked>>, <<free, free>>, FALSE, Returned("remove", d, n, "error"))
    BY <1>4 DEF adfRemoveEntry
  <2> HIDE DEF b, unlinked
  <2>2. /\ <<free, free \cup {b}>>[1] = free /\ <<free, free \cup {b}>>[2] = free \cup {b}
        /\ <<free, free>>[1] = free /\ <<free, free>>[2] = free
    OBVIOUS
  <2>3. QED BY <1>2, <2>1, <2>2 DEF b
<1>5. QED
  BY <1>3, <1>4

\* A rename frees nothing.
LEMMA RenameFrees ==
  ASSUME free = diskFree, NEW p, NEW old, NEW np, NEW new, adfRenameEntry(p, old, np, new)
  PROVE  free' = free
<1>1. ASSUME NEW call, Refused(call) PROVE free' = free
  BY <1>1 DEF Refused
<1>2. ASSUME NEW imgs, NEW call, Perform(imgs, [i \in DOMAIN imgs |-> free], FALSE, call),
             DOMAIN imgs = 1 .. Len(imgs)
      PROVE  free' = free
  BY <1>2 DEF Perform
<1> DEFINE imgs == RenameImages(p, old, np, new)
<1>3. DOMAIN imgs = 1 .. Len(imgs)
  <2>1. \E w, x, y, z : imgs = <<w, x, y>> \/ imgs = <<w, x, y, z>>
    BY Zenon DEF RenameImages
  <2> HIDE DEF imgs
  <2>2. QED BY <2>1
<1>4. QED
  BY <1>1, <1>2, <1>3 DEF adfRenameEntry

\* Where an entry has been made, a lookup of its name finds no other; it finds the
\* entry unless that has taken the block of its own directory or follows a link.
LEMMA OnlyTheNewIsFound ==
  ASSUME TypeOK, NamesFit, NEW T, NEW L, NEW B, NEW Q, NEW P,
         Threaded(disk, T, L, B, Q, P), OwnBuckets(disk, L, B),
         (L \cup {RootBlock}) \cap free = {},
         NEW d \in T, NEW n \in Names, NEW type \in {"file", "dir"}, CanCreate(d, n),
         NEW new, new = adfGet1FreeBlock, NEW W, W = WithEntry(type, d, n, new)
  PROVE  /\ adfNameToEntryBlk(W, d, n) \in {new, NoBlock}
         /\ d # new /\ TakesSuccessor(d, n) => adfNameToEntryBlk(W, d, n) = new
<1>0. /\ disk \in [Blocks -> Headers] /\ free \in SUBSET Blocks /\ d \in Blocks
      /\ Hash[n] \in Buckets /\ L \subseteq Blocks
  BY ConstantsAssumption DEF TypeOK, Threaded, WitnessTypes
<1>1. new \in free /\ new \in Blocks /\ new \notin L \cup {RootBlock}
  <2>1. new \in free
    BY <1>0, FirstFreeIsFree DEF adfGet1FreeBlock, CanCreate
  <2>2. QED BY <1>0, <2>1
<1>2. W \in [Blocks -> Headers]
  BY <1>0, <1>1, LinkedTypes DEF WithEntry
<1>3. PICK L2, B2, Q2, P2 :
          /\ Threaded(W, With(T, new), L2, B2, Q2, P2)
          /\ L2 \subseteq With(L, new)
          /\ OwnBuckets(disk, L, B) /\ Hash[Cut[n]] = Hash[n] => OwnBuckets(W, L2, B2)
          /\ d # new /\ TakesSuccessor(d, n) => new \in L2 /\ B2[new] = Hash[n]
  BY <1>0, <1>1, <1>2, CreateThreads
<1>4. \A x \in Blocks \ {new} : W[x].name = disk[x].name /\ W[x].parent = disk[x].parent
  BY <1>0, <1>1, CreationRenamesNothing
<1>5. OwnBuckets(W, L2, B2)
  BY <1>3 DEF NamesFit
<1> DEFINE b == adfNameToEntryBlk(W, d, n)
<1>6. ASSUME b # NoBlock, b # new PROVE FALSE
  <2>1. d \in With(T, new)
    BY DEF With
  <2>2. b \in L2 /\ W[b].parent = d /\ B2[b] = Hash[n] /\ Match(W, b, n)
    BY <1>0, <1>2, <1>3, <1>6, <2>1, LookupFinds
  <2> HIDE DEF b
  <2>3. b \in L /\ disk[b].parent = d /\ disk[b].name = W[b].name
    BY <1>0, <1>3, <1>4, <1>6, <2>2 DEF With
  <2>4. B[b] = Hash[n]
    BY <1>5, <2>2, <2>3 DEF OwnBuckets
  <2>5. Fold[disk[b].name] # Fold[n]
    BY <1>0, <2>3, <2>4, LookupMisses DEF CanCreate
  <2>6. QED BY <2>2, <2>3, <2>5 DEF Match
<1>7. ASSUME d # new, TakesSuccessor(d, n), b = NoBlock PROVE FALSE
  <2>1. new \in L2 /\ B2[new] = Hash[n]
    BY <1>3, <1>7
  <2>2. W[new].parent = d /\ W[new].name = Cut[n]
    <3>1. W[new] = Header(type, Cut[n], d)
      BY <1>0, <1>1, CreationRenamesNothing
    <3>2. QED BY <3>1 DEF Header
  <2>3. d \in With(T, new)
    BY DEF With
  <2>4. Fold[W[new].name] # Fold[n]
    BY <1>0, <1>2, <1>3, <1>7, <2>1, <2>2, <2>3, LookupMisses
  <2>5. QED BY <2>2, <2>4, ConstantsAssumption
<1>8. QED
  BY <1>6, <1>7

----------------------------------------------------------------------------
(* The invariant of a session.                                              *)

Connections == [key : Blocks, hdr : Headers, write : BOOLEAN]

\* The session is in T: its current directory, and the directories in the
\* headers that it holds.
OpenIn(T) ==
    /\ curDirPtr \in T
    /\ \A i \in DOMAIN openfiles : openfiles[i].hdr.parent \in T /\ openfiles[i].hdr.name \in Names

\* The links are those that the volume started with.
OldLinks(D) == \A b \in Blocks : D[b].type = "link" => InitDisk[b].type = "link"

\* Until a header is overtaken the volume is threaded, and the session is in it.
SessionInv ==
    /\ TypeOK /\ ~cut /\ free = diskFree /\ overtaken \in BOOLEAN
    /\ openfiles \in Seq(Connections)
    /\ OpenFilesKeepTheirBlocks
    /\ ~overtaken => OldLinks(disk) /\ \E T : Holds(disk, T, free) /\ OpenIn(T)

\* What is left of a sequence when one of its elements is taken out.
Without(s, i) == SubSeq(s, 1, i - 1) \o SubSeq(s, i + 1, Len(s))

LEMMA WithoutOne ==
  ASSUME NEW S, NEW s \in Seq(S), NEW i \in DOMAIN s
  PROVE  /\ Without(s, i) \in Seq(S)
         /\ DOMAIN Without(s, i) = 1 .. Len(s) - 1
         /\ \A j \in DOMAIN Without(s, i) :
              /\ Without(s, i)[j] = s[IF j < i THEN j ELSE j + 1]
              /\ (IF j < i THEN j ELSE j + 1) \in DOMAIN s
<1> DEFINE t == Without(s, i)
           a == SubSeq(s, 1, i - 1)
           b == SubSeq(s, i + 1, Len(s))
           from(j) == IF j < i THEN j ELSE j + 1
<1>1. i \in 1 .. Len(s) /\ DOMAIN s = 1 .. Len(s) /\ Len(s) \in Nat /\ \A k \in 1 .. Len(s) : s[k] \in S
  BY LenProperties
<1>2. a \in Seq(S) /\ Len(a) = i - 1 /\ \A j \in 1 .. i - 1 : a[j] = s[j]
  <2>1. 1 \in Int /\ i - 1 \in Int /\ \A k \in 1 .. i - 1 : s[k] \in S
    BY <1>1
  <2>2. /\ a \in Seq(S) /\ Len(a) = IF 1 <= i - 1 THEN (i - 1) - 1 + 1 ELSE 0
        /\ \A k \in 1 .. (i - 1) - 1 + 1 : a[k] = s[1 + k - 1]
    BY <2>1, SubSeqProperties
  <2> HIDE DEF a
  <2>3. Len(a) = i - 1 /\ (i - 1) - 1 + 1 = i - 1
    BY <1>1, <2>2
  <2>4. ASSUME NEW j \in 1 .. i - 1 PROVE a[j] = s[j]
    <3>1. a[j] = s[1 + j - 1] /\ 1 + j - 1 = j
      BY <2>2, <2>3
    <3>2. QED BY <3>1
  <2>5. QED BY <2>2, <2>3, <2>4
<1>3. b \in Seq(S) /\ Len(b) = Len(s) - i /\ \A j \in 1 .. Len(s) - i : b[j] = s[i + j]
  <2>1. i + 1 \in Int /\ Len(s) \in Int /\ \A k \in i + 1 .. Len(s) : s[k] \in S
    BY <1>1
  <2>2. /\ b \in Seq(S) /\ Len(b) = IF i + 1 <= Len(s) THEN Len(s) - (i + 1) + 1 ELSE 0
        /\ \A k \in 1 .. Len(s) - (i + 1) + 1 : b[k] = s[(i + 1) + k - 1]
    BY <2>1, SubSeqProperties
  <2> HIDE DEF b
  <2>3. Len(b) = Len(s) - i /\ Len(s) - (i + 1) + 1 = Len(s) - i
    BY <1>1, <2>2
  <2>4. ASSUME NEW j \in 1 .. Len(s) - i PROVE b[j] = s[i + j]
    <3>1. b[j] = s[(i + 1) + j - 1] /\ (i + 1) + j - 1 = i + j
      BY <1>1, <2>2, <2>3
    <3>2. QED BY <3>1
  <2>5. QED BY <2>2, <2>3, <2>4
<1> HIDE DEF a, b
<1>4. /\ t \in Seq(S) /\ Len(t) = Len(s) - 1
      /\ \A j \in 1 .. Len(s) - 1 : t[j] = IF j <= i - 1 THEN a[j] ELSE b[j - (i - 1)]
  <2>1. t = a \o b
    BY DEF a, b, Without
  <2> HIDE DEF t
  <2>2. Len(a) + Len(b) = Len(s) - 1 /\ Len(a) = i - 1
    BY <1>1, <1>2, <1>3
  <2>3. /\ t \in Seq(S) /\ Len(t) = Len(a) + Len(b)
        /\ \A j \in 1 .. Len(a) + Len(b) : t[j] = IF j <= Len(a) THEN a[j] ELSE b[j - Len(a)]
    <3>1. a \in Seq(S) /\ b \in Seq(S)
      BY <1>2, <1>3
    <3>2. /\ a \o b \in Seq(S) /\ Len(a \o b) = Len(a) + Len(b)
          /\ \A j \in 1 .. Len(a) + Len(b) : (a \o b)[j] = IF j <= Len(a) THEN a[j] ELSE b[j - Len(a)]
      BY Zenon, <3>1, ConcatProperties
    <3>3. QED BY Zenon, <2>1, <3>2
  <2>4. QED BY <2>2, <2>3
<1> HIDE DEF t
<1>5. DOMAIN t = 1 .. Len(s) - 1
  BY <1>4, LenProperties
<1>6. ASSUME NEW j \in DOMAIN t PROVE t[j] = s[from(j)] /\ from(j) \in DOMAIN s
  <2>1. j \in 1 .. Len(s) - 1 /\ j \in Int
    BY <1>1, <1>5
  <2>2. CASE j < i
    <3>1. j \in 1 .. i - 1 /\ j <= i - 1
      BY <1>1, <2>1, <2>2
    <3>2. t[j] = a[j] /\ a[j] = s[j] /\ from(j) = j
      BY <1>2, <1>4, <2>1, <2>2, <3>1
    <3>3. j \in 1 .. Len(s)
      BY <1>1, <2>1
    <3>4. QED BY <1>1, <3>2, <3>3
  <2>3. CASE ~(j < i)
    <3>1. j - (i - 1) \in 1 .. Len(s) - i /\ i + (j - (i - 1)) = j + 1 /\ ~(j <= i - 1)
      BY <1>1, <2>1, <2>3
    <3>2. t[j] = b[j - (i - 1)]
      BY <1>4, <2>1, <3>1
    <3>3. b[j - (i - 1)] = s[j + 1] /\ from(j) = j + 1
      BY <1>3, <2>3, <3>1
    <3>4. j + 1 \in DOMAIN s
      BY <1>1, <2>1
    <3>5. QED BY <3>2, <3>3, <3>4
  <2>4. QED BY <2>2, <2>3
<1>7. QED
  BY <1>4, <1>5, <1>6 DEF t

\* A call of AdfDir on behalf of a session: it may change the current directory,
\* and frees the block of no open file.
LEMMA CallInSession ==
  ASSUME SessionInv, ~overtaken, ~MayBeCut, NEW T, OpenIn(T), Keeps(T),
         openfiles' = openfiles, overtaken' = overtaken, curDirPtr' \in T,
         \A i \in DOMAIN openfiles : openfiles[i].key \notin free'
  PROVE  SessionInv'
<1>1. TypeOK' /\ ~cut' /\ free' = diskFree'
  BY DEF Keeps, TypeOK
<1>2. PICK T2 : T \subseteq T2 /\ Holds(disk', T2, free')
  BY <1>1 DEF Keeps
<1>3. OpenIn(T2)'
  BY <1>2 DEF OpenIn
<1>4. OpenFilesKeepTheirBlocks'
  BY DEF SessionInv, OpenFilesKeepTheirBlocks
<1>5. openfiles' \in Seq(Connections) /\ overtaken' \in BOOLEAN
  BY DEF SessionInv
<1>6. OldLinks(disk')
  BY <1>1 DEF SessionInv, Keeps, NoNewLinks, OldLinks
<1>7. QED
  BY <1>1, <1>2, <1>3, <1>4, <1>5, <1>6 DEF SessionInv

\* Nothing of the volume changes.
LEMMA NothingInSession ==
  ASSUME SessionInv, ~overtaken, NEW T, Holds(disk, T, free), OpenIn(T),
         UNCHANGED <<vars, openfiles, overtaken>>, curDirPtr' \in T
  PROVE  SessionInv'
<1>1. /\ disk' = disk /\ free' = free /\ diskFree' = diskFree /\ cut' = cut /\ last' = last
      /\ openfiles' = openfiles /\ overtaken' = overtaken
  BY DEF vars
<1>2. TypeOK' /\ OpenFilesKeepTheirBlocks'
  BY <1>1 DEF SessionInv, TypeOK, OpenFilesKeepTheirBlocks
<1>3. OpenIn(T)'
  BY <1>1 DEF OpenIn
<1>4. QED
  BY <1>1, <1>2, <1>3 DEF SessionInv

\* What a path leads to, for the calls that it is passed to.
LEMMA EntryOfPath ==
  ASSUME disk \in [Blocks -> Headers], NEW T, NEW L, NEW B, NEW Q, NEW P,
         Threaded(disk, T, L, B, Q, P), Named(disk, T), OwnBuckets(disk, L, B),
         curDirPtr \in T, NEW path \in Paths, NEW e, e = adf_path_to_entry(path)
  PROVE  /\ e.sector \in T \cup {NoBlock} /\ e.parent \in T \cup {NoBlock}
         /\ e.entry \in T /\ e.remainder \in Names
         /\ TypeAt(e) # "root" => NameAt(e) \in Names
         /\ Exists(e) /\ e.parent # NoBlock =>
              /\ e.sector \in L /\ disk[e.sector].parent = e.parent /\ e.entry = e.sector
              /\ adfNameToEntryBlk(disk, e.parent, NameAt(e)) = e.sector
<1>0. L \subseteq T /\ RootBlock \in T /\ T \subseteq Blocks
  BY DEF Threaded, WitnessTypes
<1>1. e \in Reached(T, L)
  BY <1>0, PathLeads
<1>2. /\ e.sector \in T \cup {NoBlock} /\ e.parent \in T \cup {NoBlock}
      /\ e.entry \in T /\ e.remainder \in Names
      /\ Exists(e) /\ e.parent # NoBlock =>
            e.entry = e.sector /\ e.sector \in L /\ disk[e.sector].parent = e.parent
  BY <1>1 DEF Reached, Places, Exists
<1>3. TypeAt(e) # "root" => NameAt(e) \in Names
  BY <1>2 DEF TypeAt, NameAt, Named, Threaded, EntryHeaders
<1>4. ASSUME Exists(e), e.parent # NoBlock
      PROVE  adfNameToEntryBlk(disk, e.parent, NameAt(e)) = e.sector
  <2> DEFINE b == e.sector
             d == e.parent
  <2>1. b \in L /\ d \in T /\ disk[b].parent = d /\ NameAt(e) = disk[b].name
    BY <1>2, <1>4 DEF NameAt
  <2>2. Hash[disk[b].name] = B[b]
    BY <2>1 DEF OwnBuckets
  <2> HIDE DEF b, d
  <2>3. adfNameToEntryBlk(disk, d, disk[b].name) = b
    BY <2>1, <2>2, LookupOfEntry
  <2>4. QED BY <2>1, <2>3 DEF b, d
<1>5. QED
  BY <1>2, <1>3, <1>4

\* The threads of a session, with a name for each.
LEMMA ThreadsOfSession ==
  ASSUME SessionInv, ~overtaken, NamesFit
  PROVE  /\ disk \in [Blocks -> Headers] /\ TypeOK /\ ~cut /\ free = diskFree
         /\ \E T, L, B, Q, P :
              /\ Threaded(disk, T, L, B, Q, P) /\ Named(disk, T) /\ OwnBuckets(disk, L, B)
              /\ (L \cup {RootBlock}) \cap free = {}
              /\ Holds(disk, T, free) /\ OpenIn(T)
<1>1. PICK T : Holds(disk, T, free) /\ OpenIn(T)
  BY DEF SessionInv
<1>2. QED
  BY <1>1 DEF SessionInv, TypeOK, Holds

----------------------------------------------------------------------------
(* Every call keeps the invariant.                                          *)

LEMMA ChangeDirKeeps ==
  ASSUME SessionInv, ~overtaken, NamesFit, NEW path \in Paths, adf_change_dir(path)
  PROVE  SessionInv'
<1> DEFINE e == adf_path_to_entry(path)
<1>1. PICK T, L, B, Q, P :
          /\ Threaded(disk, T, L, B, Q, P) /\ Named(disk, T) /\ OwnBuckets(disk, L, B)
          /\ Holds(disk, T, free) /\ OpenIn(T)
  BY ThreadsOfSession
<1>2. e.sector \in T \cup {NoBlock}
  BY <1>1, EntryOfPath, ThreadsOfSession DEF OpenIn
<1>3. /\ UNCHANGED <<vars, openfiles, overtaken>>
      /\ curDirPtr' = curDirPtr \/ (Exists(e) /\ curDirPtr' = e.sector)
  BY DEF adf_change_dir, Fails
<1>4. curDirPtr' \in T
  BY <1>1, <1>2, <1>3 DEF OpenIn, Exists
<1>5. QED
  BY <1>1, <1>3, <1>4, NothingInSession

LEMMA FailsKeeps ==
  ASSUME SessionInv, ~overtaken, NamesFit, NEW op, Fails(op)
  PROVE  SessionInv'
<1>1. PICK T : Holds(disk, T, free) /\ OpenIn(T)
  BY ThreadsOfSession
<1>2. QED
  BY <1>1, NothingInSession DEF Fails, OpenIn

\* Making an entry frees nothing.
LEMMA CreateInSession ==
  ASSUME SessionInv, ~overtaken, ~MayBeCut, NamesFit, NEW T, Holds(disk, T, free), OpenIn(T),
         NEW d \in T, NEW n \in Names, NEW type \in {"file", "dir"}, Create(type, d, n)
  PROVE  /\ Keeps(T)
         /\ \A i \in DOMAIN openfiles : openfiles[i].key \notin free'
<1>1. Keeps(T)
  BY CreateKeeps DEF SessionInv
<1>2. free' \subseteq free
  BY CreateOutcome
<1>3. QED
  BY <1>1, <1>2 DEF SessionInv, OpenFilesKeepTheirBlocks

LEMMA MkdirKeeps ==
  ASSUME SessionInv, ~overtaken, ~MayBeCut, NamesFit, NEW path \in Paths, adf_mkdir(path)
  PROVE  SessionInv'
<1> DEFINE e == adf_path_to_entry(path)
<1>1. PICK T, L, B, Q, P :
          /\ Threaded(disk, T, L, B, Q, P) /\ Named(disk, T) /\ OwnBuckets(disk, L, B)
          /\ Holds(disk, T, free) /\ OpenIn(T)
  BY ThreadsOfSession
<1>2. e.parent \in T \cup {NoBlock} /\ e.remainder \in Names
  BY <1>1, EntryOfPath, ThreadsOfSession DEF OpenIn
<1>3. CASE TypeAt(e) \notin DirTypes \/ e.parent = NoBlock
  BY <1>3, FailsKeeps DEF adf_mkdir
<1>4. CASE ~(TypeAt(e) \notin DirTypes \/ e.parent = NoBlock)
  <2>1. /\ Create("dir", e.parent, e.remainder)
        /\ openfiles' = openfiles /\ curDirPtr' = curDirPtr /\ overtaken' = overtaken
    BY <1>4 DEF adf_mkdir, adfCreateDir
  <2>2. e.parent \in T
    BY <1>2, <1>4
  <2> HIDE DEF e
  <2>3. Keeps(T) /\ \A i \in DOMAIN openfiles : openfiles[i].key \notin free'
    BY <1>1, <1>2, <2>1, <2>2, CreateInSession
  <2>4. QED BY <1>1, <2>1, <2>3, CallInSession DEF OpenIn
<1>5. QED
  BY <1>3, <1>4

\* What is removed is the entry that was asked about: no connection is open to it.
LEMMA RemoveEntryKeeps ==
  ASSUME SessionInv, ~overtaken, ~MayBeCut, NamesFit, NEW path \in Paths, adf_remove_entry(path)
  PROVE  SessionInv'
<1> DEFINE e == adf_path_to_entry(path)
<1>1. PICK T, L, B, Q, P :
          /\ Threaded(disk, T, L, B, Q, P) /\ Named(disk, T) /\ OwnBuckets(disk, L, B)
          /\ Holds(disk, T, free) /\ OpenIn(T)
  BY ThreadsOfSession
<1>2. /\ e.parent \in T \cup {NoBlock}
      /\ TypeAt(e) # "root" => NameAt(e) \in Names
      /\ Exists(e) /\ e.parent # NoBlock =>
            adfNameToEntryBlk(disk, e.parent, NameAt(e)) = e.sector
  BY <1>1, EntryOfPath, ThreadsOfSession DEF OpenIn
<1>3. CASE \/ ~Exists(e) \/ TypeAt(e) = "root" \/ e.parent = NoBlock
           \/ adf_check_file_state(e.sector)
  BY <1>3, FailsKeeps DEF adf_remove_entry
<1>4. CASE ~(\/ ~Exists(e) \/ TypeAt(e) = "root" \/ e.parent = NoBlock
             \/ adf_check_file_state(e.sector))
  <2>1. /\ adfRemoveEntry(e.parent, NameAt(e))
        /\ openfiles' = openfiles /\ curDirPtr' = curDirPtr /\ overtaken' = overtaken
    BY <1>4 DEF adf_remove_entry
  <2>2. e.parent \in T /\ NameAt(e) \in Names
    BY <1>2, <1>4
  <2>3. adfNameToEntryBlk(disk, e.parent, NameAt(e)) = e.sector
    BY <1>2, <1>4
  <2>4. \A i \in DOMAIN openfiles : openfiles[i].key # e.sector
    BY <1>4 DEF adf_check_file_state
  <2> HIDE DEF e
  <2>5. Keeps(T)
    BY <1>1, <2>1, <2>2, RemoveKeeps DEF SessionInv
  <2>6. free' \subseteq free \cup {e.sector}
    BY <2>1, <2>3, RemoveFrees DEF SessionInv
  <2>7. \A i \in DOMAIN openfiles : openfiles[i].key \notin free'
    BY <2>4, <2>6 DEF SessionInv, OpenFilesKeepTheirBlocks
  <2>8. QED BY <1>1, <2>1, <2>5, <2>7, CallInSession DEF OpenIn
<1>5. QED
  BY <1>3, <1>4

\* A call of AdfDir that changes the connections as well.
LEMMA CallWithConnections ==
  ASSUME SessionInv, ~overtaken, ~MayBeCut, NEW T, Keeps(T), overtaken' = overtaken,
         openfiles' \in Seq(Connections), OpenFilesKeepTheirBlocks', OpenIn(T)'
  PROVE  SessionInv'
<1>1. TypeOK' /\ ~cut' /\ free' = diskFree'
  BY DEF Keeps, TypeOK
<1>2. PICK T2 : T \subseteq T2 /\ Holds(disk', T2, free')
  BY <1>1 DEF Keeps
<1>3. OpenIn(T2)'
  BY <1>2 DEF OpenIn
<1>4. overtaken' \in BOOLEAN
  BY DEF SessionInv
<1>5. OldLinks(disk')
  BY <1>1 DEF SessionInv, Keeps, NoNewLinks, OldLinks
<1>6. QED
  BY <1>1, <1>2, <1>3, <1>4, <1>5 DEF SessionInv

\* Renaming inside a directory.
LEMMA RenameInSession ==
  ASSUME SessionInv, ~overtaken, ~MayBeCut, NamesFit, NEW T, Holds(disk, T, free), OpenIn(T),
         NEW d \in T, NEW old \in Names, NEW new \in Replacements, adfRenameEntry(d, old, d, new)
  PROVE  /\ Keeps(T)
         /\ free' = free
<1>1. PICK L, B, Q, P : Threaded(disk, T, L, B, Q, P)
  BY DEF Holds
<1>2. new \in Names /\ Hash[old] \in Buckets /\ disk \in [Blocks -> Headers]
  BY ConstantsAssumption, SessionAssumption DEF Range, SessionInv, TypeOK
<1>3. d # NoBlock
  BY <1>1, ConstantsAssumption DEF Threaded, WitnessTypes
<1>4. adfNameToEntryBlk(disk, d, old) # d
  <2> SUFFICES ASSUME adfNameToEntryBlk(disk, d, old) = d PROVE FALSE
    OBVIOUS
  <2>1. d \in L /\ disk[d].parent = d
    BY <1>1, <1>2, <1>3, LookupFinds
  <2>2. QED BY <1>1, <2>1 DEF Threaded, EntryHeaders
<1>5. Keeps(T)
  BY <1>2, <1>4, RenameKeeps DEF SessionInv
<1>6. QED
  BY <1>5, RenameFrees DEF SessionInv

\* The name of the volume is nobody's entry.
LEMMA NamingTheVolume ==
  ASSUME disk \in [Blocks -> Headers], NEW T, NEW F, Holds(disk, T, F), NEW new \in Names,
         NEW E, E = [disk EXCEPT ![RootBlock].name = new]
  PROVE  E \in [Blocks -> Headers] /\ Holds(E, T, F) /\ NoNewLinks(E)
<1>1. PICK L, B, Q, P : /\ Threaded(disk, T, L, B, Q, P) /\ Named(disk, T)
                        /\ (L \cup {RootBlock}) \cap F = {}
                        /\ NamesFit => OwnBuckets(disk, L, B)
  BY DEF Holds
<1> DEFINE R == [disk[RootBlock] EXCEPT !.name = new]
<1>2. RootBlock \in Blocks /\ RootBlock \notin L /\ T \subseteq Blocks /\ L \subseteq T
  BY <1>1, ConstantsAssumption DEF Threaded, WitnessTypes
<1>3. /\ R \in Headers /\ R.type = disk[RootBlock].type /\ R.next = disk[RootBlock].next
      /\ R.ht = disk[RootBlock].ht /\ R.parent = disk[RootBlock].parent
  <2>1. disk[RootBlock] \in Headers
    BY <1>2
  <2>2. QED BY <2>1 DEF Headers
<1> HIDE DEF R
<1>4. E \in [Blocks -> Headers] /\ E[RootBlock] = R /\ \A x \in Blocks \ {RootBlock} : E[x] = disk[x]
  BY <1>2, <1>3 DEF R
<1>5. /\ \A x \in L : E[x] = disk[x]
      /\ \A x \in T : E[x].ht = disk[x].ht
      /\ E[RootBlock].type = disk[RootBlock].type /\ E[RootBlock].next = disk[RootBlock].next
  BY <1>2, <1>3, <1>4
<1>6. TablesLead(E, T, L, B, P)
  BY <1>1, <1>5 DEF Threaded, TablesLead
<1>7. ChainsLead(E, L, B, Q, P)
  BY <1>1, <1>5 DEF Threaded, ChainsLead
<1>8. AllComeFrom(E, T, L, B, P)
  BY <1>1, <1>5 DEF Threaded, AllComeFrom, ComesFrom
<1>9. EntryHeaders(E, L) /\ NoTwins(E, L, B)
  BY <1>1, <1>5 DEF Threaded, EntryHeaders, NoTwins
<1>10. Named(E, T) /\ (NamesFit => OwnBuckets(E, L, B))
  BY <1>1, <1>2, <1>4, <1>5 DEF Named, OwnBuckets
<1>11. Threaded(E, T, L, B, Q, P)
  BY <1>1, <1>6, <1>7, <1>8, <1>9 DEF Threaded
<1>12. NoNewLinks(E)
  BY <1>3, <1>4 DEF NoNewLinks
<1>13. QED
  BY <1>1, <1>4, <1>10, <1>11, <1>12 DEF Holds

LEMMA SetEntryNameKeeps ==
  ASSUME SessionInv, ~overtaken, ~MayBeCut, NamesFit, NEW path \in Paths, NEW new \in Replacements,
         SetEntryName(path, new)
  PROVE  SessionInv'
<1> DEFINE e == adf_path_to_entry(path)
<1>1. PICK T, L, B, Q, P :
          /\ Threaded(disk, T, L, B, Q, P) /\ Named(disk, T) /\ OwnBuckets(disk, L, B)
          /\ Holds(disk, T, free) /\ OpenIn(T)
  BY ThreadsOfSession
<1>2. /\ e.parent \in T \cup {NoBlock} /\ e.entry \in T
      /\ TypeAt(e) # "root" => NameAt(e) \in Names
  BY <1>1, EntryOfPath, ThreadsOfSession DEF OpenIn
<1>3. CASE TypeAt(e) = "root"
  <2>1. /\ disk' = [disk EXCEPT ![RootBlock].name = new]
        /\ last' = Returned("rename", RootBlock, NameAt(e), "ok")
        /\ free' = free /\ diskFree' = diskFree /\ cut' = cut
        /\ openfiles' = openfiles /\ curDirPtr' = curDirPtr /\ overtaken' = overtaken
    BY <1>3 DEF SetEntryName
  <2>2. new \in Names /\ disk \in [Blocks -> Headers] /\ RootBlock \in Blocks
    BY ConstantsAssumption, SessionAssumption DEF Range, SessionInv, TypeOK
  <2>3. NameAt(e) \in Names \cup {"-"}
    <3>1. disk[e.entry] \in Headers
      BY <1>1, <1>2, <2>2 DEF Threaded, WitnessTypes
    <3>2. QED BY <3>1 DEF NameAt, Headers
  <2> HIDE DEF e
  <2>4. last' \in Calls
    BY <2>1, <2>2, <2>3 DEF Returned, Calls
  <2>5. disk' \in [Blocks -> Headers] /\ Holds(disk', T, free) /\ NoNewLinks(disk')
    BY <1>1, <2>1, <2>2, NamingTheVolume
  <2>6. Keeps(T)
    BY <2>1, <2>4, <2>5 DEF Keeps, TypeOK, SessionInv
  <2>7. \A i \in DOMAIN openfiles : openfiles[i].key \notin free'
    BY <2>1 DEF SessionInv, OpenFilesKeepTheirBlocks
  <2>8. QED BY <1>1, <2>1, <2>6, <2>7, CallInSession DEF OpenIn
<1>4. CASE TypeAt(e) # "root" /\ e.parent = NoBlock
  BY <1>4, FailsKeeps DEF SetEntryName
<1>5. CASE TypeAt(e) # "root" /\ e.parent # NoBlock
  <2>1. /\ adfRenameEntry(e.parent, NameAt(e), e.parent, new)
        /\ openfiles' = openfiles /\ curDirPtr' = curDirPtr /\ overtaken' = overtaken
    BY <1>5 DEF SetEntryName
  <2>2. e.parent \in T /\ NameAt(e) \in Names
    BY <1>2, <1>5
  <2> HIDE DEF e
  <2>3. Keeps(T) /\ free' = free
    BY <1>1, <2>1, <2>2, RenameInSession
  <2>4. \A i \in DOMAIN openfiles : openfiles[i].key \notin free'
    BY <2>3 DEF SessionInv, OpenFilesKeepTheirBlocks
  <2>5. QED BY <1>1, <2>1, <2>3, <2>4, CallInSession DEF OpenIn
<1>6. QED
  BY <1>3, <1>4, <1>5

LEMMA SetConnectionNameKeeps ==
  ASSUME SessionInv, ~overtaken, ~MayBeCut, NamesFit, NEW i \in DOMAIN openfiles,
         NEW new \in Replacements, SetConnectionName(i, new)
  PROVE  SessionInv'
<1> DEFINE h == openfiles[i].hdr
           R == [openfiles[i] EXCEPT !.hdr.name = new]
<1>1. PICK T : Holds(disk, T, free) /\ OpenIn(T)
  BY ThreadsOfSession
<1>2. h.parent \in T /\ h.name \in Names /\ new \in Names
  BY <1>1, SessionAssumption, ConstantsAssumption DEF OpenIn, Range
<1>3. /\ adfRenameEntry(h.parent, h.name, h.parent, new)
      /\ openfiles' = IF last'.rc = "ok" THEN [openfiles EXCEPT ![i].hdr.name = new] ELSE openfiles
      /\ curDirPtr' = curDirPtr /\ overtaken' = overtaken
  BY DEF SetConnectionName
<1>4. openfiles \in Seq(Connections) /\ DOMAIN openfiles = 1 .. Len(openfiles)
      /\ i \in 1 .. Len(openfiles)
  BY DEF SessionInv
<1>5. /\ R \in Connections /\ R.key = openfiles[i].key /\ R.hdr.parent = openfiles[i].hdr.parent
      /\ R.hdr.name = new
  <2>1. openfiles[i] \in Connections
    BY <1>4
  <2>2. QED BY <1>2, <2>1 DEF Connections, Headers
<1> DEFINE O == [openfiles EXCEPT ![i] = R]
<1>6. [openfiles EXCEPT ![i].hdr.name = new] = O
  OBVIOUS
<1> HIDE DEF R
<1>7. /\ O \in Seq(Connections) /\ DOMAIN O = DOMAIN openfiles
      /\ \A k \in DOMAIN openfiles : O[k] = IF k = i THEN R ELSE openfiles[k]
  <2>1. O \in Seq(Connections) /\ Len(O) = Len(openfiles)
    BY <1>4, <1>5, ExceptSeq
  <2>2. QED BY <1>4, <2>1
<1> HIDE DEF O
<1>8. /\ openfiles' \in Seq(Connections) /\ DOMAIN openfiles' = DOMAIN openfiles
      /\ \A k \in DOMAIN openfiles :
            /\ openfiles'[k].key = openfiles[k].key
            /\ openfiles'[k].hdr.parent = openfiles[k].hdr.parent
            /\ openfiles'[k].hdr.name \in {openfiles[k].hdr.name, new}
  BY <1>3, <1>4, <1>5, <1>6, <1>7
<1>9. Keeps(T) /\ free' = free
  <2> HIDE DEF h
  <2> QED BY <1>1, <1>2, <1>3, RenameInSession
<1>10. OpenFilesKeepTheirBlocks'
  BY <1>8, <1>9 DEF SessionInv, OpenFilesKeepTheirBlocks
<1>11. OpenIn(T)'
  BY <1>1, <1>2, <1>3, <1>8 DEF OpenIn
<1>12. QED
  BY <1>3, <1>8, <1>9, <1>10, <1>11, CallWithConnections

\* A connection is added behind those that are open.
LEMMA Joins ==
  ASSUME openfiles \in Seq(Connections), OpenFilesKeepTheirBlocks,
         NEW c \in Connections, openfiles' = openfiles \o <<c>>,
         \A i \in DOMAIN openfiles : openfiles[i].key # c.key /\ openfiles[i].key \notin free',
         c.key \notin free'
  PROVE  /\ openfiles' \in Seq(Connections) /\ OpenFilesKeepTheirBlocks'
         /\ \A i \in DOMAIN openfiles' : openfiles'[i] = c \/ \E j \in DOMAIN openfiles : openfiles'[i] = openfiles[j]
<1> DEFINE n == Len(openfiles)
<1>1. n \in Nat /\ DOMAIN openfiles = 1 .. n
  BY LenProperties
<1>2. <<c>> \in Seq(Connections) /\ Len(<<c>>) = 1 /\ <<c>>[1] = c
  OBVIOUS
<1>3. /\ openfiles \o <<c>> \in Seq(Connections) /\ Len(openfiles \o <<c>>) = n + 1
      /\ \A i \in 1 .. n + 1 : (openfiles \o <<c>>)[i] = IF i <= n THEN openfiles[i] ELSE <<c>>[i - n]
  BY <1>2, ConcatProperties
<1>4. /\ openfiles' \in Seq(Connections) /\ Len(openfiles') = n + 1
      /\ \A i \in 1 .. n + 1 : openfiles'[i] = IF i <= n THEN openfiles[i] ELSE <<c>>[i - n]
  BY Zenon, <1>3
<1>5. DOMAIN openfiles' = 1 .. n + 1
  BY <1>4, LenProperties
<1> HIDE DEF n
<1>6. \A i \in 1 .. n + 1 : \/ i = n + 1 /\ openfiles'[i] = c
                            \/ i \in 1 .. n /\ openfiles'[i] = openfiles[i]
  <2> SUFFICES ASSUME NEW i \in 1 .. n + 1
               PROVE  \/ i = n + 1 /\ openfiles'[i] = c
                      \/ i \in 1 .. n /\ openfiles'[i] = openfiles[i]
    OBVIOUS
  <2>1. CASE i = n + 1
    <3>1. ~(i <= n) /\ i - n = 1
      BY <1>1, <2>1
    <3>2. QED BY <1>2, <1>4, <2>1, <3>1
  <2>2. CASE i # n + 1
    <3>1. i <= n /\ i \in 1 .. n
      BY <1>1, <2>2
    <3>2. QED BY <1>4, <3>1
  <2>3. QED BY <2>1, <2>2
<1>7. OpenFilesKeepTheirBlocks'
  BY <1>1, <1>5, <1>6 DEF OpenFilesKeepTheirBlocks
<1>8. QED
  BY <1>1, <1>4, <1>5, <1>6, <1>7

\* What adfFileOpen returns is a connection to the entry that it finds.
LEMMA OpenedIs ==
  ASSUME NEW D \in [Blocks -> Headers], NEW T, NEW F, Holds(D, T, F), NEW d \in T, NEW n \in Names,
         NEW writable \in BOOLEAN, NEW b, b = adfNameToEntryBlk(D, d, n),
         NEW opened, opened = adfFileOpen(D, d, n, writable)
  PROVE  \/ opened = <<>>
         \/ /\ b # NoBlock /\ b \notin F
            /\ \E c \in Connections : /\ opened = <<c>> /\ c.key = b
                                      /\ c.hdr.parent = d /\ c.hdr.name \in Names
<1>1. PICK L, B, Q, P : Threaded(D, T, L, B, Q, P) /\ (L \cup {RootBlock}) \cap F = {}
  BY DEF Holds
<1>2. Hash[n] \in Buckets /\ L \subseteq Blocks
  BY <1>1, ConstantsAssumption DEF Threaded, WitnessTypes
<1>3. CASE ~(b # NoBlock /\ D[b].type = "file")
  BY <1>3 DEF adfFileOpen
<1>4. CASE b # NoBlock /\ D[b].type = "file"
  <2> DEFINE c == [key |-> b, hdr |-> D[b], write |-> writable]
  <2>1. b \in L /\ b \notin F /\ D[b].parent = d
    BY <1>1, <1>2, <1>4, LookupFinds
  <2>2. D[b].name \in Names /\ D[b] \in Headers
    BY <1>1, <1>2, <2>1 DEF Threaded, EntryHeaders
  <2>3. opened = <<c>>
    BY <1>4 DEF adfFileOpen
  <2>4. c \in Connections /\ c.key = b /\ c.hdr = D[b]
    BY <1>2, <2>1, <2>2 DEF Connections
  <2> HIDE DEF c
  <2>5. QED BY <1>4, <2>1, <2>2, <2>3, <2>4
<1>5. QED
  BY <1>3, <1>4

\* A connection is opened to a file that no other is open to: to the entry that
\* was asked about, or to the one that was made.
LEMMA FileConKeeps ==
  ASSUME SessionInv, ~overtaken, ~MayBeCut, NamesFit, NEW path \in Paths,
         NEW writable \in BOOLEAN, adf_file_con_(path, writable)
  PROVE  SessionInv'
<1> DEFINE e == adf_path_to_entry(path)
           name == IF Exists(e) THEN NameAt(e) ELSE e.remainder
           opened == adfFileOpen(disk', e.parent, name, writable)
<1>1. PICK T, L, B, Q, P :
          /\ Threaded(disk, T, L, B, Q, P) /\ Named(disk, T) /\ OwnBuckets(disk, L, B)
          /\ (L \cup {RootBlock}) \cap free = {}
          /\ Holds(disk, T, free) /\ OpenIn(T)
  BY ThreadsOfSession
<1>2. /\ e.parent \in T \cup {NoBlock} /\ e.remainder \in Names
      /\ TypeAt(e) # "root" => NameAt(e) \in Names
      /\ Exists(e) /\ e.parent # NoBlock =>
            /\ e.sector \in L /\ e.entry = e.sector
            /\ adfNameToEntryBlk(disk, e.parent, NameAt(e)) = e.sector
  BY <1>1, EntryOfPath, ThreadsOfSession DEF OpenIn
<1>3. CASE \/ ~writable /\ (~Exists(e) \/ TypeAt(e) # "file")
           \/ Exists(e) /\ adf_check_file_state(e.sector)
           \/ e.parent = NoBlock
  BY <1>3, FailsKeeps DEF adf_file_con_
<1>4. ASSUME ~(\/ ~writable /\ (~Exists(e) \/ TypeAt(e) # "file")
               \/ Exists(e) /\ adf_check_file_state(e.sector)
               \/ e.parent = NoBlock)
      PROVE  SessionInv'
  <2>1. /\ IF Exists(e) THEN UNCHANGED vars ELSE adfCreateFile(e.parent, e.remainder)
        /\ IF ~Exists(e) /\ last'.rc # "ok"
             THEN curDirPtr' = e.parent /\ openfiles' = openfiles
             ELSE openfiles' = openfiles \o opened /\ curDirPtr' = curDirPtr
        /\ overtaken' = overtaken
    BY <1>4 DEF adf_file_con_, DirToOpen
  <2>2. e.parent \in T /\ openfiles \in Seq(Connections) /\ OpenFilesKeepTheirBlocks
    BY <1>2, <1>4 DEF SessionInv
  <2>3. OpenIn(T) /\ openfiles \o <<>> = openfiles
    BY <1>1, <2>2, ConcatEmptySeq
  \* What keeps the invariant, whatever the call has done before.
  <2>4. ASSUME Keeps(T), \A i \in DOMAIN openfiles : openfiles[i].key \notin free',
               openfiles' = openfiles, curDirPtr' \in T
        PROVE  SessionInv'
    BY <2>1, <2>3, <2>4, CallInSession
  <2>5. ASSUME Keeps(T), NEW c \in Connections, openfiles' = openfiles \o <<c>>, curDirPtr' = curDirPtr,
               \A i \in DOMAIN openfiles : openfiles[i].key # c.key /\ openfiles[i].key \notin free',
               c.key \notin free', c.hdr.parent \in T, c.hdr.name \in Names
        PROVE  SessionInv'
    <3>1. /\ openfiles' \in Seq(Connections) /\ OpenFilesKeepTheirBlocks'
          /\ \A i \in DOMAIN openfiles' : openfiles'[i] = c \/ \E j \in DOMAIN openfiles : openfiles'[i] = openfiles[j]
      BY <2>2, <2>5, Joins
    <3>2. OpenIn(T)'
      BY <2>3, <2>5, <3>1 DEF OpenIn
    <3>3. QED BY <2>1, <2>5, <3>1, <3>2, CallWithConnections
  <2>6. CASE Exists(e)
    <3>1. /\ disk' = disk /\ free' = free /\ diskFree' = diskFree /\ cut' = cut /\ last' = last
          /\ openfiles' = openfiles \o opened /\ curDirPtr' = curDirPtr
      BY <2>1, <2>6 DEF vars
    <3>2. Keeps(T) /\ \A i \in DOMAIN openfiles : openfiles[i].key \notin free'
      BY <1>1, <2>2, <3>1 DEF Keeps, SessionInv, TypeOK, OpenFilesKeepTheirBlocks, NoNewLinks
    <3>3. e.sector \in L /\ e.entry = e.sector /\ name = NameAt(e)
          /\ adfNameToEntryBlk(disk, e.parent, NameAt(e)) = e.sector
      BY <1>2, <1>4, <2>6
    <3>4. name \in Names
      BY <1>1, <3>3 DEF NameAt, Threaded, EntryHeaders
    <3>5. \A i \in DOMAIN openfiles : openfiles[i].key # e.sector
      BY <1>4, <2>6 DEF adf_check_file_state
    <3>6. opened = adfFileOpen(disk, e.parent, name, writable)
      BY <3>1
    <3>7. adfNameToEntryBlk(disk, e.parent, name) = e.sector
      BY <3>3
    <3> HIDE DEF e, opened, name
    <3>8. \/ opened = <<>>
          \/ /\ e.sector \notin free
             /\ \E c \in Connections : /\ opened = <<c>> /\ c.key = e.sector
                                       /\ c.hdr.parent = e.parent /\ c.hdr.name \in Names
      BY <1>1, <2>2, <3>4, <3>6, <3>7, OpenedIs DEF SessionInv, TypeOK
    <3>9. CASE opened = <<>>
      BY <2>3, <2>4, <3>1, <3>2, <3>9 DEF OpenIn
    <3>10. CASE opened # <<>>
      <4>1. PICK c \in Connections : /\ opened = <<c>> /\ c.key = e.sector
                                     /\ c.hdr.parent \in T /\ c.hdr.name \in Names
        BY <2>2, <3>8, <3>10
      <4>2. c.key \notin free'
        BY <3>1, <3>8, <3>10, <4>1
      <4>3. QED BY <2>5, <3>1, <3>2, <3>5, <4>1, <4>2
    <3>11. QED BY <3>9, <3>10
  <2>7. CASE ~Exists(e)
    <3> DEFINE new == adfGet1FreeBlock
               W == WithEntry("file", e.parent, e.remainder, new)
    <3>1. Create("file", e.parent, e.remainder) /\ name = e.remainder
      BY <2>1, <2>7 DEF adfCreateFile
    <3> HIDE DEF e
    <3>2. Keeps(T) /\ \A i \in DOMAIN openfiles : openfiles[i].key \notin free'
      BY <1>1, <1>2, <2>2, <3>1, CreateInSession
    <3>3. \/ last'.rc = "error"
          \/ /\ CanCreate(e.parent, e.remainder) /\ last'.rc = "ok"
             /\ disk' = W /\ free' = free \ {new}
      BY <3>1, CreateOutcome
    <3>4. CASE last'.rc = "error"
      BY <2>1, <2>2, <2>4, <2>7, <3>2, <3>4
    <3>5. CASE last'.rc # "error"
      <4>1. /\ CanCreate(e.parent, e.remainder) /\ disk' = W /\ free' = free \ {new}
            /\ openfiles' = openfiles \o opened /\ curDirPtr' = curDirPtr
        BY <2>1, <2>7, <3>3, <3>5
      <4>2. opened = adfFileOpen(W, e.parent, e.remainder, writable)
        BY <3>1, <4>1
      <4>3. new \in free
        <5>1. free \in SUBSET Blocks
          BY DEF SessionInv, TypeOK
        <5>2. QED BY <4>1, <5>1, FirstFreeIsFree DEF CanCreate, adfGet1FreeBlock
      <4> DEFINE nw == new
                 X == W
      <4>4. nw = adfGet1FreeBlock /\ X = WithEntry("file", e.parent, e.remainder, nw)
        OBVIOUS
      <4> HIDE DEF new, W, opened, name
      <4>5. nw = new /\ X = W
        OBVIOUS
      <4> HIDE DEF nw, X
      <4>6. /\ X \in [Blocks -> Headers]
            /\ Holds(X, T \cup {nw}, free \ {nw})
        BY <1>1, <1>2, <2>2, <4>1, <4>4, CreationHolds DEF SessionInv
      <4>7. adfNameToEntryBlk(X, e.parent, e.remainder) \in {nw, NoBlock}
        BY <1>1, <1>2, <2>2, <4>1, <4>4, OnlyTheNewIsFound DEF SessionInv
      <4>8. /\ opened = adfFileOpen(X, e.parent, e.remainder, writable)
            /\ e.parent \in T \cup {nw} /\ free' = free \ {nw} /\ nw \in free
        BY <2>2, <4>1, <4>2, <4>3, <4>5
      <4>9. \/ opened = <<>>
            \/ \E c \in Connections : /\ opened = <<c>> /\ c.key = nw
                                      /\ c.hdr.parent = e.parent /\ c.hdr.name \in Names
        <5> DEFINE b == adfNameToEntryBlk(X, e.parent, e.remainder)
                   TT == T \cup {nw}
                   FF == free \ {nw}
        <5>0. Holds(X, TT, FF) /\ e.parent \in TT
          BY <4>6, <4>8
        <5> HIDE DEF TT, FF
        <5>1. \/ opened = <<>>
              \/ /\ b # NoBlock
                 /\ \E c \in Connections : /\ opened = <<c>> /\ c.key = b
                                           /\ c.hdr.parent = e.parent /\ c.hdr.name \in Names
          BY <1>2, <4>6, <4>8, <5>0, OpenedIs
        <5> HIDE DEF b
        <5>2. b \in {nw, NoBlock}
          BY <4>7 DEF b
        <5>3. QED BY <5>1, <5>2
      <4>10. CASE opened = <<>>
        BY <2>3, <2>4, <3>2, <4>1, <4>10 DEF OpenIn
      <4>11. CASE opened # <<>>
        <5>1. PICK c \in Connections : /\ opened = <<c>> /\ c.key = nw
                                       /\ c.hdr.parent \in T /\ c.hdr.name \in Names
          BY <2>2, <4>9, <4>11
        <5>2. c.key \notin free' /\ \A i \in DOMAIN openfiles : openfiles[i].key # c.key
          BY <2>2, <4>8, <5>1 DEF OpenFilesKeepTheirBlocks
        <5>3. QED BY <2>5, <3>2, <4>1, <5>1, <5>2
      <4>12. QED BY <4>10, <4>11
    <3>6. QED BY <3>4, <3>5
  <2>8. QED BY <2>6, <2>7
<1>5. QED
  BY <1>3, <1>4

----------------------------------------------------------------------------
(* Writing headers back.                                                    *)

\* One header.
LEMMA FlushedIs ==
  ASSUME NEW D \in [Blocks -> Headers], NEW c \in Connections
  PROVE  /\ Flushed(D, c) \in [Blocks -> Headers]
         /\ c.write => Flushed(D, c)[c.key] = c.hdr
         /\ \A b \in Blocks \ {c.key} : Flushed(D, c)[b] = D[b]
         /\ ~c.write \/ D[c.key] = c.hdr => Flushed(D, c) = D
<1>1. c.key \in Blocks /\ c.hdr \in Headers
  BY DEF Connections
<1>2. CASE c.write
  <2>1. Flushed(D, c) = [D EXCEPT ![c.key] = c.hdr]
    BY <1>2 DEF Flushed
  <2>2. QED BY <1>1, <1>2, <2>1
<1>3. CASE ~c.write
  BY <1>3 DEF Flushed
<1>4. QED
  BY <1>2, <1>3

\* The bitmap that is saved with it is the one that is on the disk already.
LEMMA SavedIs ==
  ASSUME free = diskFree, NEW cs
  PROVE  BitmapSaved(cs) = free
  BY DEF BitmapSaved

\* The steps of close_adf, of which the last leaves the disk as it is.
FlushSteps(cs) ==
    [j \in 1 .. Len(cs) |-> [E \in [Blocks -> Headers] |-> Flushed(E, cs[Len(cs) + 1 - j])]]

LEMMA FlushStepsAre ==
  ASSUME NEW D \in [Blocks -> Headers], NEW cs \in Seq(Connections)
  PROVE  /\ AllFlushed(D, cs) = Along(FlushSteps(cs), D, Len(cs))[Len(cs)]
         /\ Len(cs) \in Nat
         /\ \A j \in 1 .. Len(cs) : cs[Len(cs) + 1 - j] \in Connections
         /\ \A j \in 1 .. Len(cs), E \in [Blocks -> Headers] :
              /\ FlushSteps(cs)[j][E] = Flushed(E, cs[Len(cs) + 1 - j])
              /\ FlushSteps(cs)[j][E] \in [Blocks -> Headers]
<1>1. Len(cs) \in Nat /\ \A i \in 1 .. Len(cs) : cs[i] \in Connections
  BY LenProperties
<1>2. \A j \in 1 .. Len(cs) : Len(cs) + 1 - j \in 1 .. Len(cs)
  BY <1>1
<1>3. \A j \in 1 .. Len(cs) : cs[Len(cs) + 1 - j] \in Connections
  BY <1>1, <1>2
<1>4. ASSUME NEW j \in 1 .. Len(cs), NEW E \in [Blocks -> Headers]
      PROVE  /\ FlushSteps(cs)[j][E] = Flushed(E, cs[Len(cs) + 1 - j])
             /\ FlushSteps(cs)[j][E] \in [Blocks -> Headers]
  <2>1. FlushSteps(cs)[j][E] = Flushed(E, cs[Len(cs) + 1 - j])
    BY DEF FlushSteps
  <2>2. cs[Len(cs) + 1 - j] \in Connections
    BY <1>3
  <2>3. Flushed(E, cs[Len(cs) + 1 - j]) \in [Blocks -> Headers]
    BY <2>2, FlushedIs
  <2>4. QED BY <2>1, <2>3
<1>5. AllFlushed(D, cs) = Along(FlushSteps(cs), D, Len(cs))[Len(cs)]
  BY DEF AllFlushed, FlushSteps
<1>6. QED
  BY <1>1, <1>3, <1>4, <1>5

\* All of them; when none is newer on the disk, it stays as it is.
LEMMA AllFlushedIs ==
  ASSUME NEW D \in [Blocks -> Headers], NEW cs \in Seq(Connections)
  PROVE  /\ AllFlushed(D, cs) \in [Blocks -> Headers]
         /\ (\A i \in DOMAIN cs : ~cs[i].write \/ D[cs[i].key] = cs[i].hdr) => AllFlushed(D, cs) = D
<1> DEFINE n == Len(cs)
           F == FlushSteps(cs)
           S == [Blocks -> Headers]
<1>1. /\ AllFlushed(D, cs) = Along(F, D, n)[n] /\ n \in Nat
      /\ \A j \in 1 .. n : cs[n + 1 - j] \in Connections
      /\ \A j \in 1 .. n, E \in S : F[j][E] = Flushed(E, cs[n + 1 - j]) /\ F[j][E] \in S
  BY FlushStepsAre
<1>2. \A j \in 1 .. n : n + 1 - j \in DOMAIN cs
  BY LenProperties
<1> HIDE DEF F, S, n
<1>3. D \in S
  BY DEF S
<1>4. Along(F, D, n) \in [0 .. n -> S]
  BY <1>1, <1>3, AlongDef
<1>5. AllFlushed(D, cs) \in S
  BY <1>1, <1>4
<1>6. ASSUME \A i \in DOMAIN cs : ~cs[i].write \/ D[cs[i].key] = cs[i].hdr
      PROVE  AllFlushed(D, cs) = D
  <2> DEFINE R == {D}
  <2>1. \A j \in 1 .. n : F[j][D] = D
    <3> SUFFICES ASSUME NEW j \in 1 .. n PROVE F[j][D] = D
      OBVIOUS
    <3> DEFINE c == cs[n + 1 - j]
    <3>1. c \in Connections /\ (~c.write \/ D[c.key] = c.hdr)
      BY <1>1, <1>2, <1>6
    <3>2. F[j][D] = Flushed(D, c)
      BY <1>1, <1>3
    <3> HIDE DEF c
    <3>3. QED BY <3>1, <3>2, FlushedIs
  <2>2. R \in SUBSET S /\ D \in R /\ \A j \in 1 .. n, x \in R : F[j][x] \in R
    BY <1>3, <2>1
  <2> HIDE DEF R
  <2>3. \A j \in 0 .. n : Along(F, D, n)[j] \in R
    BY <1>1, <1>3, <2>2, AlongStays
  <2>4. QED BY <1>1, <2>3 DEF R
<1>7. QED
  BY <1>5, <1>6 DEF S

\* Of connections to different files every writable one has its header on the
\* disk in the end.
LEMMA AllFlushedSaves ==
  ASSUME NEW D \in [Blocks -> Headers], NEW cs \in Seq(Connections),
         \A i, j \in DOMAIN cs : cs[i].key = cs[j].key => i = j,
         NEW i \in DOMAIN cs, cs[i].write
  PROVE  AllFlushed(D, cs)[cs[i].key] = cs[i].hdr
<1> DEFINE n == Len(cs)
           F == FlushSteps(cs)
           S == [Blocks -> Headers]
           w == Along(F, D, n)
           c == cs[i]
           U == {j \in 0 .. n : w[j][c.key] = c.hdr}
           m == n + 1 - i
<1>1. /\ AllFlushed(D, cs) = w[n] /\ n \in Nat
      /\ \A j \in 1 .. n : cs[n + 1 - j] \in Connections
      /\ \A j \in 1 .. n, E \in S : F[j][E] = Flushed(E, cs[n + 1 - j]) /\ F[j][E] \in S
  BY FlushStepsAre
<1>2. DOMAIN cs = 1 .. n /\ i \in 1 .. n /\ m \in 1 .. n /\ n + 1 - m = i
  BY <1>1, LenProperties
<1>3. c \in Connections /\ c.key \in Blocks
  <2>1. c \in Connections
    BY <1>2, LenProperties
  <2> HIDE DEF c
  <2>2. QED BY <2>1 DEF Connections
<1> HIDE DEF F, n
<1>4. w \in [0 .. n -> S] /\ \A j \in 1 .. n : w[j] = F[j][w[j - 1]]
  <2> HIDE DEF w, S
  <2>1. D \in S
    BY DEF S
  <2>2. w \in [0 .. n -> S] /\ IsAlong(w, F, D, n)
    BY <1>1, <2>1, AlongDef DEF w
  <2>3. QED BY <2>2 DEF IsAlong
<1> HIDE DEF w, c, S
<1>5. \A j \in 1 .. n : w[j - 1] \in S /\ w[j] = Flushed(w[j - 1], cs[n + 1 - j])
  <2>1. \A j \in 1 .. n : j - 1 \in 0 .. n
    BY <1>1
  <2>2. QED BY <1>1, <1>4, <2>1
<1>6. m \in U
  <2>1. w[m - 1] \in S /\ w[m] = Flushed(w[m - 1], c)
    BY <1>2, <1>5 DEF c
  <2>2. w[m][c.key] = c.hdr
    BY <1>3, <2>1, FlushedIs DEF S, c
  <2>3. QED BY <1>1, <1>2, <2>2
<1>7. \A j \in m .. n - 1 : j \in U => j + 1 \in U
  <2> SUFFICES ASSUME NEW j \in m .. n - 1, j \in U PROVE j + 1 \in U
    OBVIOUS
  <2> DEFINE k == n + 1 - (j + 1)
  <2>1. j + 1 \in 1 .. n /\ k \in 1 .. n /\ k # i /\ (j + 1) - 1 = j
    BY <1>1, <1>2
  <2>2. w[j] \in S /\ w[j + 1] = Flushed(w[j], cs[k]) /\ cs[k] \in Connections
    BY <1>1, <1>5, <2>1
  <2>3. cs[k].key # c.key
    BY <1>2, <2>1 DEF c
  <2> HIDE DEF k
  <2>4. w[j + 1][c.key] = w[j][c.key]
    <3>1. c.key \in Blocks \ {cs[k].key}
      BY <1>3, <2>3
    <3>2. w[j] \in [Blocks -> Headers] /\ cs[k] \in Connections
      BY <2>2 DEF S
    <3>3. \A b \in Blocks \ {cs[k].key} : Flushed(w[j], cs[k])[b] = w[j][b]
      BY <3>2, FlushedIs
    <3>4. QED BY <2>2, <3>1, <3>3
  <2>5. QED BY <1>1, <2>1, <2>4
<1>8. n \in U
  <2>1. m \in Nat
    BY <1>1, <1>2
  <2> DEFINE from == m
             V == U
  <2>2. from \in V /\ \A j \in from .. n - 1 : j \in V => j + 1 \in V
    BY <1>6, <1>7
  <2>3. from \in Nat /\ from = m /\ V = U
    BY <2>1
  <2> HIDE DEF V, from
  <2>4. from .. n \subseteq V
    BY <1>1, <2>2, <2>3, RangeInd
  <2> HIDE DEF U, m
  <2>5. m .. n \subseteq U
    BY <2>3, <2>4
  <2>6. n \in m .. n
    BY <1>1, <1>2, <2>1
  <2>7. QED BY <2>5, <2>6
<1>9. QED
  BY <1>1, <1>8 DEF c

----------------------------------------------------------------------------
(* The invariant, and what follows from it.                                 *)

\* Headers are written back, and connections closed: unless one of them was
\* newer on the disk nothing changes there.
LEMMA WritingBackKeeps ==
  ASSUME SessionInv, ~overtaken, NamesFit,
         disk' \in [Blocks -> Headers], last' \in Calls, ~overtaken' => disk' = disk,
         diskFree' = free, free' = free, cut' = cut, overtaken' \in BOOLEAN,
         openfiles' \in Seq(Connections), OpenFilesKeepTheirBlocks',
         \A i \in DOMAIN openfiles' : \E j \in DOMAIN openfiles : openfiles'[i] = openfiles[j],
         curDirPtr' \in {curDirPtr, RootBlock}
  PROVE  SessionInv'
<1>1. PICK T : Holds(disk, T, free) /\ OpenIn(T)
  BY ThreadsOfSession
<1>2. RootBlock \in T
  BY <1>1 DEF Holds, Threaded, WitnessTypes
<1>3. TypeOK'
  BY DEF SessionInv, TypeOK
<1>4. ~overtaken' => Holds(disk', T, free') /\ OldLinks(disk')
  BY <1>1 DEF SessionInv
<1>5. OpenIn(T)'
  BY <1>1, <1>2 DEF OpenIn
<1>6. QED
  BY <1>3, <1>4, <1>5 DEF SessionInv

LEMMA CloseKeeps ==
  ASSUME SessionInv, ~overtaken, NamesFit, NEW i \in DOMAIN openfiles, adf_close_file_con(i)
  PROVE  SessionInv'
<1> DEFINE c == openfiles[i]
<1>1. /\ disk' = Flushed(disk, c) /\ diskFree' = BitmapSaved(<<c>>)
      /\ openfiles' = SubSeq(openfiles, 1, i - 1) \o SubSeq(openfiles, i + 1, Len(openfiles))
      /\ overtaken' = (overtaken \/ Overtakes(c))
      /\ free' = free /\ last' = last /\ cut' = cut /\ curDirPtr' = curDirPtr
  BY DEF adf_close_file_con
<1>2. openfiles \in Seq(Connections) /\ disk \in [Blocks -> Headers] /\ last \in Calls /\ free = diskFree
      /\ overtaken \in BOOLEAN
  BY DEF SessionInv, TypeOK
<1>3. c \in Connections
  BY <1>2
<1>4. /\ openfiles' \in Seq(Connections)
      /\ DOMAIN openfiles' = 1 .. Len(openfiles) - 1
      /\ \A j \in DOMAIN openfiles' : openfiles'[j] = openfiles[IF j < i THEN j ELSE j + 1]
      /\ \A j \in DOMAIN openfiles' : (IF j < i THEN j ELSE j + 1) \in DOMAIN openfiles
  <2>1. openfiles' = Without(openfiles, i)
    BY <1>1 DEF Without
  <2>2. /\ Without(openfiles, i) \in Seq(Connections)
        /\ DOMAIN Without(openfiles, i) = 1 .. Len(openfiles) - 1
        /\ \A j \in DOMAIN Without(openfiles, i) :
             /\ Without(openfiles, i)[j] = openfiles[IF j < i THEN j ELSE j + 1]
             /\ (IF j < i THEN j ELSE j + 1) \in DOMAIN openfiles
    BY <1>2, WithoutOne
  <2>3. QED BY <2>1, <2>2
<1> HIDE DEF c
<1>5. disk' \in [Blocks -> Headers] /\ (~overtaken' => disk' = disk)
  BY <1>1, <1>2, <1>3, FlushedIs DEF Overtakes
<1>6. diskFree' = free
  BY <1>1, <1>2, SavedIs
<1>7. \A j \in DOMAIN openfiles' : \E k \in DOMAIN openfiles : openfiles'[j] = openfiles[k]
  BY <1>4
<1>8. OpenFilesKeepTheirBlocks'
  <2>1. ASSUME NEW j \in DOMAIN openfiles', NEW k \in DOMAIN openfiles', openfiles'[j].key = openfiles'[k].key
        PROVE  j = k
    <3> DEFINE from(x) == IF x < i THEN x ELSE x + 1
    <3>1. /\ openfiles'[j] = openfiles[from(j)] /\ from(j) \in DOMAIN openfiles
          /\ openfiles'[k] = openfiles[from(k)] /\ from(k) \in DOMAIN openfiles
      BY <1>4
    <3>2. from(j) = from(k)
      BY <2>1, <3>1 DEF SessionInv, OpenFilesKeepTheirBlocks
    <3>3. j \in Int /\ k \in Int /\ i \in Int
      BY <1>2, <1>4, LenProperties
    <3>4. QED BY <3>2, <3>3
  <2>2. \A j \in DOMAIN openfiles' : openfiles'[j].key \notin free'
    BY <1>1, <1>7 DEF SessionInv, OpenFilesKeepTheirBlocks
  <2>3. QED BY <2>1, <2>2 DEF OpenFilesKeepTheirBlocks
<1>9. overtaken' \in BOOLEAN
  BY <1>1, <1>2 DEF Overtakes
<1>10. QED
  BY <1>1, <1>2, <1>4, <1>5, <1>6, <1>7, <1>8, <1>9, WritingBackKeeps

LEMMA SeekKeeps ==
  ASSUME SessionInv, ~overtaken, NamesFit, NEW i \in DOMAIN openfiles, seek_adf(i)
  PROVE  SessionInv'
<1> DEFINE c == openfiles[i]
<1>1. /\ disk' = Flushed(disk, c) /\ diskFree' = BitmapSaved(<<c>>)
      /\ overtaken' = (overtaken \/ Overtakes(c)) /\ openfiles' = openfiles
      /\ free' = free /\ last' = last /\ cut' = cut /\ curDirPtr' = curDirPtr
  BY DEF seek_adf
<1>2. openfiles \in Seq(Connections) /\ disk \in [Blocks -> Headers] /\ last \in Calls /\ free = diskFree
      /\ overtaken \in BOOLEAN /\ OpenFilesKeepTheirBlocks
  BY DEF SessionInv, TypeOK
<1>3. c \in Connections
  BY <1>2
<1> HIDE DEF c
<1>4. disk' \in [Blocks -> Headers] /\ (~overtaken' => disk' = disk)
  BY <1>1, <1>2, <1>3, FlushedIs DEF Overtakes
<1>5. diskFree' = free
  BY <1>1, <1>2, SavedIs
<1>6. OpenFilesKeepTheirBlocks' /\ overtaken' \in BOOLEAN
  BY <1>1, <1>2 DEF OpenFilesKeepTheirBlocks, Overtakes
<1>7. \A j \in DOMAIN openfiles' : \E k \in DOMAIN openfiles : openfiles'[j] = openfiles[k]
  BY <1>1
<1>8. QED
  BY <1>1, <1>2, <1>4, <1>5, <1>6, <1>7, WritingBackKeeps

LEMMA CloseDeviceKeeps ==
  ASSUME SessionInv, ~overtaken, NamesFit, close_adf
  PROVE  SessionInv'
<1>1. /\ disk' = AllFlushed(disk, openfiles) /\ diskFree' = BitmapSaved(openfiles) /\ free' = diskFree'
      /\ openfiles' = <<>> /\ curDirPtr' = RootBlock /\ last' = Mounted /\ cut' = cut
      /\ overtaken' = (overtaken \/ \E i \in DOMAIN openfiles : Overtakes(openfiles[i]))
  BY DEF close_adf
<1>2. openfiles \in Seq(Connections) /\ disk \in [Blocks -> Headers] /\ free = diskFree /\ overtaken \in BOOLEAN
  BY DEF SessionInv, TypeOK
<1>3. disk' \in [Blocks -> Headers] /\ (~overtaken' => disk' = disk)
  BY <1>1, <1>2, AllFlushedIs DEF Overtakes
<1>4. diskFree' = free /\ free' = free
  BY <1>1, <1>2, SavedIs
<1>5. openfiles' \in Seq(Connections) /\ DOMAIN openfiles' = {} /\ overtaken' \in BOOLEAN
  BY <1>1, <1>2
<1>6. OpenFilesKeepTheirBlocks'
  BY <1>5 DEF OpenFilesKeepTheirBlocks
<1>7. last' \in Calls
  BY <1>1, ConstantsAssumption DEF Mounted, Calls
<1>8. QED
  BY <1>1, <1>3, <1>4, <1>5, <1>6, <1>7, WritingBackKeeps

\* The volume is mounted again without anything having been written.
LEMMA VanishKeeps ==
  ASSUME SessionInv, Vanish
  PROVE  SessionInv'
<1>1. /\ free' = diskFree /\ last' = Mounted /\ disk' = disk /\ diskFree' = diskFree /\ cut' = cut
      /\ openfiles' = <<>> /\ curDirPtr' = RootBlock /\ overtaken' = overtaken
  BY DEF Vanish, Reconnect
<1>2. openfiles' \in Seq(Connections) /\ DOMAIN openfiles' = {}
  BY <1>1
<1>3. OpenFilesKeepTheirBlocks'
  BY <1>2 DEF OpenFilesKeepTheirBlocks
<1>4. TypeOK'
  BY <1>1, ConstantsAssumption DEF SessionInv, TypeOK, Mounted, Calls
<1>5. ASSUME ~overtaken PROVE OldLinks(disk') /\ \E T : Holds(disk', T, free') /\ OpenIn(T)'
  <2>1. PICK T : Holds(disk, T, free)
    BY <1>5 DEF SessionInv
  <2>2. RootBlock \in T
    BY <2>1 DEF Holds, Threaded, WitnessTypes
  <2>3. Holds(disk', T, free') /\ OpenIn(T)'
    BY <1>1, <1>2, <2>1, <2>2 DEF SessionInv, OpenIn
  <2>4. OldLinks(disk')
    BY <1>1, <1>5 DEF SessionInv
  <2>5. QED BY <2>3, <2>4
<1>6. QED
  BY <1>1, <1>2, <1>3, <1>4, <1>5 DEF SessionInv

LEMMA SessionInitInv ==
  ASSUME SoundVolume(InitDisk), SessionInit
  PROVE  SessionInv
<1>1. Inv /\ ~cut /\ free = diskFree
  BY InitInv DEF SessionInit, Init
<1>2. PICK T : Holds(disk, T, free)
  BY <1>1 DEF Inv
<1>3. RootBlock \in T
  BY <1>2 DEF Holds, Threaded, WitnessTypes
<1>4. openfiles \in Seq(Connections) /\ DOMAIN openfiles = {} /\ curDirPtr = RootBlock /\ overtaken = FALSE
  BY DEF SessionInit
<1>5. OpenIn(T) /\ OpenFilesKeepTheirBlocks
  BY <1>3, <1>4 DEF OpenIn, OpenFilesKeepTheirBlocks
<1>6. OldLinks(disk)
  BY DEF SessionInit, Init, OldLinks
<1>7. QED
  BY <1>1, <1>2, <1>4, <1>5, <1>6 DEF SessionInv, Inv

LEMMA SessionNextInv ==
  ASSUME SessionInv, NamesFit, ~MayBeCut, [SessionNext]_allVars
  PROVE  SessionInv'
<1>1. ASSUME ~overtaken, NEW path \in Paths,
             \/ adf_change_dir(path) \/ adf_mkdir(path) \/ adf_remove_entry(path)
             \/ \E new \in Replacements : SetEntryName(path, new)
             \/ \E writable \in BOOLEAN : Len(openfiles) < MaxOpen /\ adf_file_con_(path, writable)
      PROVE  SessionInv'
  BY <1>1, ChangeDirKeeps, MkdirKeeps, RemoveEntryKeeps, SetEntryNameKeeps, FileConKeeps
<1>2. ASSUME ~overtaken, NEW i \in DOMAIN openfiles,
             \/ adf_close_file_con(i) \/ seek_adf(i)
             \/ \E new \in Replacements : SetConnectionName(i, new)
      PROVE  SessionInv'
  BY <1>2, CloseKeeps, SeekKeeps, SetConnectionNameKeeps
<1>3. ASSUME ~overtaken, close_adf PROVE SessionInv'
  BY <1>3, CloseDeviceKeeps
<1>4. CASE ~overtaken /\ SessionCall
  BY <1>1, <1>2, <1>3, <1>4 DEF SessionCall
<1>5. CASE Vanish
  BY <1>5, VanishKeeps
<1>6. CASE UNCHANGED allVars
  <2>1. /\ disk' = disk /\ free' = free /\ diskFree' = diskFree /\ cut' = cut /\ last' = last
        /\ openfiles' = openfiles /\ overtaken' = overtaken /\ curDirPtr' = curDirPtr
    BY <1>6 DEF allVars, sessionVars, vars
  <2>2. TypeOK' /\ OpenFilesKeepTheirBlocks'
    BY <2>1 DEF SessionInv, TypeOK, OpenFilesKeepTheirBlocks
  <2>3. \A T : OpenIn(T) => OpenIn(T)'
    BY <2>1 DEF OpenIn
  <2>4. QED BY <2>1, <2>2, <2>3 DEF SessionInv
<1>7. QED
  BY <1>4, <1>5, <1>6 DEF SessionNext

----------------------------------------------------------------------------
(* The theorems.                                                            *)

\* The invariant holds in every state of every session.
THEOREM SessionInvariance ==
  SoundVolume(InitDisk) /\ NamesFit /\ ~MayBeCut => (SessionSpec => []SessionInv)
<1> SUFFICES ASSUME SoundVolume(InitDisk), NamesFit, ~MayBeCut PROVE SessionSpec => []SessionInv
  OBVIOUS
<1>1. SessionInit => SessionInv
  BY SessionInitInv
<1>2. SessionInv /\ [SessionNext]_allVars => SessionInv'
  BY SessionNextInv
<1>3. QED
  BY <1>1, <1>2, PTL DEF SessionSpec

\* Whatever is opened, renamed, made and removed through paths that lead through
\* files, missing entries and removed directories: until a connection has written
\* its header back over a newer one the tree is sound, every entry is found and
\* no block of the tree is free.
THEOREM SessionsAreSound ==
  SoundVolume(InitDisk) /\ NamesFit /\ ~MayBeCut => (SessionSpec => []SoundUntilOvertaken)
<1> SUFFICES ASSUME SoundVolume(InitDisk), NamesFit, ~MayBeCut PROVE SessionSpec => []SoundUntilOvertaken
  OBVIOUS
<1>1. SessionInv => SoundUntilOvertaken
  <2> SUFFICES ASSUME SessionInv, ~overtaken PROVE TreeSound /\ ListedEntriesAreFound /\ TreeIsMarkedUsed
    BY DEF SoundUntilOvertaken
  <2>1. PICK T, L, B, Q, P :
          /\ Threaded(disk, T, L, B, Q, P) /\ OwnBuckets(disk, L, B)
          /\ (L \cup {RootBlock}) \cap free = {}
    BY ThreadsOfSession
  <2>2. disk \in [Blocks -> Headers] /\ free = diskFree
    BY DEF SessionInv, TypeOK
  <2>3. TreeSound /\ ListedEntriesAreFound
    BY <2>1, <2>2, ThreadedIsSound, ThreadedIsComplete
  <2>4. TreeIsMarkedUsed
    BY <2>1, <2>2, TreeIsLinked DEF TreeIsMarkedUsed
  <2>5. QED BY <2>3, <2>4
<1>2. QED
  BY <1>1, SessionInvariance, PTL

\* No two connections are open to one file, and no open file's header is free for
\* another entry to take: not even after a header has been overtaken.
THEOREM OpenFilesAreKept ==
  SoundVolume(InitDisk) /\ NamesFit /\ ~MayBeCut => (SessionSpec => []OpenFilesKeepTheirBlocks)
<1> SUFFICES ASSUME SoundVolume(InitDisk), NamesFit, ~MayBeCut PROVE SessionSpec => []OpenFilesKeepTheirBlocks
  OBVIOUS
<1>1. SessionInv => OpenFilesKeepTheirBlocks
  BY DEF SessionInv
<1>2. QED
  BY <1>1, SessionInvariance, PTL

\* Closing the device saves every connection that is open, in whatever order and
\* however many: because no two are open to one file, none undoes another.
THEOREM ClosingSavesAll ==
  SoundVolume(InitDisk) /\ NamesFit /\ ~MayBeCut => (SessionSpec => AllConnectionsSaved)
<1> SUFFICES ASSUME SoundVolume(InitDisk), NamesFit, ~MayBeCut PROVE SessionSpec => AllConnectionsSaved
  OBVIOUS
<1>1. SessionInv /\ [SessionNext]_allVars =>
        [did'.op = "close_adf" =>
           /\ openfiles' = <<>>
           /\ \A i \in DOMAIN openfiles :
                openfiles[i].write => disk'[openfiles[i].key] = openfiles[i].hdr]_allVars
  <2> SUFFICES ASSUME SessionInv, SessionNext, did'.op = "close_adf"
               PROVE  /\ openfiles' = <<>>
                      /\ \A i \in DOMAIN openfiles :
                           openfiles[i].write => disk'[openfiles[i].key] = openfiles[i].hdr
    OBVIOUS
  <2>1. close_adf
    <3>1. did'.op # "mount"
      OBVIOUS
    <3>2. ~Vanish
      BY <3>1 DEF Vanish, Reports
    <3>3. \A op, rc : Reports(op, rc) => op = "close_adf"
      BY DEF Reports
    <3>4. ASSUME NEW path \in Paths
          PROVE  /\ ~adf_change_dir(path) /\ ~adf_mkdir(path) /\ ~adf_remove_entry(path)
                 /\ \A new \in Replacements : ~SetEntryName(path, new)
                 /\ \A writable \in BOOLEAN : ~adf_file_con_(path, writable)
      BY <3>3 DEF adf_change_dir, adf_mkdir, adf_remove_entry, SetEntryName, adf_file_con_, Fails, Ended
    <3>5. ASSUME NEW i \in DOMAIN openfiles
          PROVE  /\ ~adf_close_file_con(i) /\ ~seek_adf(i)
                 /\ \A new \in Replacements : ~SetConnectionName(i, new)
      BY <3>3 DEF adf_close_file_con, seek_adf, SetConnectionName, Ended
    <3>6. QED BY <3>2, <3>4, <3>5 DEF SessionNext, SessionCall
  <2>2. /\ disk \in [Blocks -> Headers] /\ openfiles \in Seq(Connections)
        /\ \A i, j \in DOMAIN openfiles : openfiles[i].key = openfiles[j].key => i = j
    BY DEF SessionInv, TypeOK, OpenFilesKeepTheirBlocks
  <2>3. disk' = AllFlushed(disk, openfiles) /\ openfiles' = <<>>
    BY <2>1 DEF close_adf
  <2>4. QED BY <2>2, <2>3, AllFlushedSaves
<1>2. QED
  BY <1>1, SessionInvariance, PTL DEF SessionSpec, AllConnectionsSaved

\* A connection that is refused has neither made an entry nor taken a block, as
\* long as the current directory is one of the tree's: on a volume without links,
\* which the program does not make.
THEOREM RefusalChangesNothing ==
  /\ SoundVolume(InitDisk) /\ NamesFit /\ ~MayBeCut
  /\ \A b \in Blocks : InitDisk[b].type # "link"
  => (SessionSpec => RefusedOpenChangesNothing)
<1> SUFFICES ASSUME SoundVolume(InitDisk), NamesFit, ~MayBeCut,
                    \A b \in Blocks : InitDisk[b].type # "link"
             PROVE  SessionSpec => RefusedOpenChangesNothing
  OBVIOUS
<1>1. SessionInv /\ [SessionNext]_allVars =>
        [did' = [op |-> "adf_file_con", rc |-> "error"] /\ curDirPtr \in Dirs(disk)
           => UNCHANGED <<disk, free, diskFree>>]_allVars
  <2> SUFFICES ASSUME SessionInv, SessionNext, did' = [op |-> "adf_file_con", rc |-> "error"],
                      curDirPtr \in Dirs(disk)
               PROVE  disk' = disk /\ free' = free /\ diskFree' = diskFree
    OBVIOUS
  <2>1. ~overtaken /\ \E path \in Paths, writable \in BOOLEAN : adf_file_con_(path, writable)
    <3>1. did'.op = "adf_file_con"
      OBVIOUS
    <3>2. \A op, rc : Reports(op, rc) => op = "adf_file_con"
      BY <3>1 DEF Reports
    <3>3. ~Vanish /\ ~close_adf
      BY <3>2 DEF Vanish, close_adf
    <3>4. ASSUME NEW path \in Paths
          PROVE  /\ ~adf_change_dir(path) /\ ~adf_mkdir(path) /\ ~adf_remove_entry(path)
                 /\ \A new \in Replacements : ~SetEntryName(path, new)
      BY <3>2 DEF adf_change_dir, adf_mkdir, adf_remove_entry, SetEntryName, Fails, Ended
    <3>5. ASSUME NEW i \in DOMAIN openfiles
          PROVE  /\ ~adf_close_file_con(i) /\ ~seek_adf(i)
                 /\ \A new \in Replacements : ~SetConnectionName(i, new)
      BY <3>2 DEF adf_close_file_con, seek_adf, SetConnectionName, Ended
    <3>6. QED BY <3>3, <3>4, <3>5 DEF SessionNext, SessionCall
  <2>2. PICK path \in Paths, writable \in BOOLEAN : adf_file_con_(path, writable)
    BY <2>1
  <2>3. PICK T, L, B, Q, P :
          /\ Threaded(disk, T, L, B, Q, P) /\ Named(disk, T) /\ OwnBuckets(disk, L, B)
          /\ (L \cup {RootBlock}) \cap free = {}
          /\ Holds(disk, T, free) /\ OpenIn(T)
    BY <2>1, ThreadsOfSession
  <2>4. TypeOK /\ disk \in [Blocks -> Headers] /\ free \in SUBSET Blocks
        /\ \A b \in Blocks : disk[b].type # "link"
    BY <2>1 DEF SessionInv, TypeOK, OldLinks
  <2> DEFINE e == adf_path_to_entry(path)
             name == IF Exists(e) THEN NameAt(e) ELSE e.remainder
             opened == adfFileOpen(disk', e.parent, name, writable)
  \* Nothing that the path has led to is free.
  <2>5. e.parent # NoBlock => e.parent \in T /\ e.parent \notin free
    <3> DEFINE S == L \cup {RootBlock}
    <3>1. L \subseteq S /\ S \subseteq T /\ RootBlock \in S /\ curDirPtr \in S
      BY <2>3, <2>4, DirsAreFollowed DEF Threaded, WitnessTypes
    <3> HIDE DEF S
    <3>2. e \in Reached(S, L)
      BY <2>3, <2>4, <3>1, PathLeads
    <3>3. e.parent \in S \cup {NoBlock}
      BY <3>2 DEF Reached
    <3>4. QED BY <2>3, <3>1, <3>3 DEF S
  <2>6. e.remainder \in Names
    BY <2>3, <2>4, EntryOfPath DEF OpenIn
  <2>7. ASSUME ~(disk' = disk /\ free' = free /\ diskFree' = diskFree) PROVE FALSE
    <3>1. /\ ~Exists(e) /\ e.parent # NoBlock /\ Create("file", e.parent, e.remainder)
          /\ last'.rc = "ok" => did' = [op |-> "adf_file_con", rc |-> IF opened = <<>> THEN "error" ELSE "ok"]
      <4>1. ~(\/ ~writable /\ (~Exists(e) \/ TypeAt(e) # "file")
              \/ Exists(e) /\ adf_check_file_state(e.sector)
              \/ e.parent = NoBlock)
        BY <2>2, <2>7 DEF adf_file_con_, Fails, vars
      <4>2. /\ IF Exists(e) THEN UNCHANGED vars ELSE adfCreateFile(e.parent, e.remainder)
            /\ ~(~Exists(e) /\ last'.rc # "ok") =>
                  Reports("adf_file_con", IF opened = <<>> THEN "error" ELSE "ok")
        BY <2>2, <4>1 DEF adf_file_con_, DirToOpen
      <4>3. ~Exists(e)
        BY <2>7, <4>2 DEF vars
      <4>4. QED BY <4>1, <4>2, <4>3 DEF Reports, adfCreateFile
    <3> DEFINE new == adfGet1FreeBlock
               W == WithEntry("file", e.parent, e.remainder, new)
    <3>2. /\ CanCreate(e.parent, e.remainder) /\ last'.rc = "ok" /\ disk' = W
      BY <2>7, <3>1, CreateOutcome
    <3>3. new \in free
      BY <2>4, <3>2, FirstFreeIsFree DEF CanCreate, adfGet1FreeBlock
    <3>4. opened = adfFileOpen(W, e.parent, e.remainder, writable)
      BY <3>1, <3>2
    <3>5. opened = <<>>
      BY <3>1, <3>2
    <3> DEFINE nw == new
               X == W
    <3>6. nw = adfGet1FreeBlock /\ X = WithEntry("file", e.parent, e.remainder, nw)
          /\ nw \in free /\ opened = adfFileOpen(X, e.parent, e.remainder, writable)
      BY <3>3, <3>4
    <3> HIDE DEF nw, X, new, W, opened, name, e
    <3>7. e.parent \in T /\ e.parent # nw /\ e.parent \in Blocks
      BY <2>3, <2>5, <3>1, <3>6 DEF Threaded, WitnessTypes
    <3>8. TakesSuccessor(e.parent, e.remainder)
      <4>1. Hash[e.remainder] \in Buckets
        BY <2>6, ConstantsAssumption
      <4>2. ASSUME disk[e.parent].ht[Hash[e.remainder]] # NoBlock
            PROVE  disk[ChainEnd(disk, e.parent, Hash[e.remainder])].type \in {"dir", "file"}
        <5>1. ChainEnd(disk, e.parent, Hash[e.remainder]) \in L
          BY <2>3, <2>4, <3>7, <4>1, <4>2, ChainHasEnd
        <5>2. QED BY <2>3, <2>4, <5>1 DEF Threaded, EntryHeaders, WitnessTypes
      <4>3. QED BY <4>2 DEF TakesSuccessor
    <3>9. adfNameToEntryBlk(X, e.parent, e.remainder) = nw
      BY <2>3, <2>4, <2>6, <3>2, <3>6, <3>7, <3>8, OnlyTheNewIsFound
    <3>10. X[nw].type = "file" /\ nw # NoBlock
      <4>1. nw \in Blocks /\ nw # NoBlock
        BY <2>4, <3>6, ConstantsAssumption
      <4>2. X[nw] = Header("file", Cut[e.remainder], e.parent)
        BY <2>3, <2>4, <2>6, <3>6, <3>7, <4>1, CreationRenamesNothing
      <4>3. QED BY <4>1, <4>2 DEF Header
    <3>11. opened # <<>>
      BY <3>6, <3>9, <3>10 DEF adfFileOpen
    <3>12. QED BY <3>5, <3>11
  <2>8. QED BY <2>7
<1>2. QED
  BY <1>1, SessionInvariance, PTL DEF SessionSpec, RefusedOpenChangesNothing
=============================================================================
