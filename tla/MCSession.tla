----------------------------- MODULE MCSession -----------------------------
(***************************************************************************)
(* Values for AdfSession: "a" and "b" share a bucket, the empty name has   *)
(* another one.  Two blocks can be allocated.                              *)
(***************************************************************************)
EXTENDS AdfSession, AdfDirThreads

MCBlocks == 3 .. 6
MCNames == {"a", "b", ""}
MCBuckets == {1, 2}
MCFold == [n \in MCNames |-> n]
MCHash == [n \in MCNames |-> IF n = "" THEN 2 ELSE 1]
MCCut == [n \in MCNames |-> n]
MCInitDisk == [b \in MCBlocks |-> IF b = 4 THEN Header("root", "-", NoBlock)
                                           ELSE Garbage]

\* What the theorems about the directories ask of the names and of the volume.
ASSUME StartsSound == NamesFit /\ TreeThreaded(MCInitDisk)
MCPaths == [abs : {TRUE}, chunks : {<<>>, <<"a">>, <<"b">>, <<"a", "b">>}]
           \cup [abs : {FALSE}, chunks : {<<>>, <<"a">>}]
MCReplacements == {"a", "b"}

\* What can be read: what the root, the current directory, the open files and
\* their directories lead to.  No action reads the last results or the name of
\* the volume, and none follows a header that was overtaken.
MCRead ==
    LET leads(S) == S \cup (UNION {Range(disk[b].ht) \cup {disk[b].next} : b \in S} \ {NoBlock})
        from[i \in 0 .. Fuel] ==
          IF i = 0 THEN ({RootBlock, curDirPtr} \ {NoBlock})
                        \cup UNION {{openfiles[k].key, openfiles[k].hdr.parent} : k \in DOMAIN openfiles}
          ELSE leads(from[i - 1])
    IN  from[Fuel]
MCView ==
    IF overtaken THEN <<free, openfiles>>
    ELSE <<free, openfiles, diskFree, curDirPtr,
           [b \in MCRead |-> IF b = RootBlock THEN disk[b].ht ELSE disk[b]]>>
============================================================================
