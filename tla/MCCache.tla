------------------------------ MODULE MCCache ------------------------------
(***************************************************************************)
(* Values for AdfCache.  A cache block has room for a record of any length *)
(* together with a short one, and not for two long ones, as with names of  *)
(* different lengths in the code.  Three volumes to start from: an empty   *)
(* one, and two that come from AmigaOS, where a directory has two cache    *)
(* blocks and where the root has three.                                    *)
(***************************************************************************)
EXTENDS AdfCache, AdfDirThreads

MCBlocks == 3 .. 9
MCNames == {"a", "b", "c"}
MCFold == [n \in MCNames |-> n]
MCHash == [n \in MCNames |-> IF n = "c" THEN 2 ELSE 1]
MCCut == [n \in MCNames |-> n]
MCBuckets == {1, 2}
MCRecordLen == [n \in MCNames |-> IF n = "a" THEN 2 ELSE 3]
MCSizes == {0, 1}

MCRoot == Header("root", "-", NoBlock)
Empty == [b \in MCBlocks |-> IF b = 4 THEN MCRoot ELSE Garbage]
DirOfOne == [Empty EXCEPT ![4].ht[1] = 7, ![7] = [Header("dir", "a", 4) EXCEPT !.ht[1] = 9],
                          ![9] = Header("file", "b", 7)]
TwoFiles == [Empty EXCEPT ![4].ht = [h \in MCBuckets |-> 6 + h],
                          ![7] = Header("file", "a", 4), ![8] = Header("file", "c", 4)]

\* What the theorems about the directories ask of the names and of the volumes.
ASSUME StartsSound == NamesFit /\ \A D \in {Empty, DirOfOne, TwoFiles} : TreeThreaded(D)

NoCaches == [b \in MCBlocks |-> NoCache]
RootCache == [[b \in MCBlocks |-> NoBlock] EXCEPT ![4] = 6]
MCRecord(D, b) == RecordOf(b, D[b], 0)

MCInitVolumes == {
    [disk |-> Empty, ext |-> RootCache,
     cache |-> [NoCaches EXCEPT ![6] = CacheBlock(<<>>, NoBlock)]],
    [disk |-> DirOfOne, ext |-> [RootCache EXCEPT ![7] = 8],
     cache |-> [NoCaches EXCEPT ![6] = CacheBlock(<<MCRecord(DirOfOne, 7)>>, NoBlock),
                                ![8] = CacheBlock(<<>>, 3),
                                ![3] = CacheBlock(<<MCRecord(DirOfOne, 9)>>, NoBlock)]],
    [disk |-> TwoFiles, ext |-> RootCache,
     cache |-> [NoCaches EXCEPT ![6] = CacheBlock(<<>>, 9),
                                ![9] = CacheBlock(<<MCRecord(TwoFiles, 7)>>, 3),
                                ![3] = CacheBlock(<<MCRecord(TwoFiles, 8)>>, NoBlock)]]}

\* Headers outside the tree are read only after a creation that failed, from
\* which on nothing is read any more.
MCView ==
    LET caches == UNION {CacheBlocks(d) : d \in Dirs(disk)} IN
    <<[b \in Tree(disk) |-> <<disk[b], ext[b], size[b]>>], [b \in caches |-> cache[b]],
      free, diskFree, harm = {}, "unsaved" \in harm>>
====
