---------------------------- MODULE MCDirFaults ----------------------------
(***************************************************************************)
(* Values for AdfDir with calls that are cut short.  All names are in one  *)
(* bucket, so that chains have several entries; "a" and "A" are the same   *)
(* name in upper case.  Renames stay in their directory.                   *)
(***************************************************************************)
EXTENDS AdfDirThreads

MCBlocks == 2 .. 6
MCNames == {"a", "A", "b"}
MCBuckets == {1}
MCFold == [n \in MCNames |-> IF n = "a" THEN "A" ELSE n]
MCHash == [n \in MCNames |-> 1]
MCCut == [n \in MCNames |-> n]
MCInitDisk == [b \in MCBlocks |-> IF b = 4 THEN Header("root", "-", NoBlock)
                                           ELSE Garbage]

\* What the theorems of AdfDirProofs ask of the names and of the volume.
ASSUME StartsSound == NamesFit /\ TreeThreaded(MCInitDisk)

\* What a block outside the tree holds is not told apart: a new entry goes to the
\* end of its chain, so that the properties of this run do not depend on it.
MCView == <<[b \in Tree(disk) |-> disk[b]], free, diskFree, cut>>
============================================================================
