------------------------------- MODULE MCDir -------------------------------
(***************************************************************************)
(* Values for AdfDir.  "a" and "b" fall into one bucket, "c" into another  *)
(* one.  Three blocks can be allocated, below and above the root.          *)
(***************************************************************************)
EXTENDS AdfDirThreads

MCBlocks == 2 .. 6
MCNames == {"a", "b", "c"}
MCBuckets == {1, 2}
MCFold == [n \in MCNames |-> n]
MCHash == [n \in MCNames |-> IF n = "c" THEN 2 ELSE 1]
MCCut == [n \in MCNames |-> n]
MCInitDisk == [b \in MCBlocks |-> IF b = 4 THEN Header("root", "-", NoBlock)
                                           ELSE Garbage]

\* What the theorems of AdfDirProofs ask of the names and of the volume.
ASSUME StartsSound == NamesFit /\ TreeThreaded(MCInitDisk)

\* Without cut calls nothing reads a block outside the tree before it is written
\* anew, and nothing reads last.
MCView == <<[b \in Tree(disk) |-> disk[b]], free, diskFree>>
============================================================================
