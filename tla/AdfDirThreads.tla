--------------------------- MODULE AdfDirThreads ---------------------------
(***************************************************************************)
(* What makes the tables and chains of a volume sound, stated without      *)
(* following them: the inductive invariant of the calls of AdfDir.  Every  *)
(* part of it speaks of one table or of one pointer, so that a call, which *)
(* changes three or four of them, is seen to keep it.                      *)
(***************************************************************************)
EXTENDS AdfDir

----------------------------------------------------------------------------
(* The inductive invariant.  A volume is threaded when there are            *)
(*   T   the blocks whose hash table may be followed,                       *)
(*   L   those of them that are linked: in a bucket of the directory that   *)
(*       their header names as their parent,                                *)
(*   B   the bucket of each of them,                                        *)
(*   Q   its rank, growing along a chain,                                   *)
(*   P   the one before it in the chain, NoBlock for the first,             *)
(* such that the tables and the successors on the disk say just that.  T is *)
(* not the tree under the root: it keeps the directories that have been     *)
(* removed and the entries that a rename has lost.                          *)

WitnessTypes(T, L, B, Q, P) ==
    /\ T \subseteq Blocks /\ RootBlock \in T /\ L \subseteq T \ {RootBlock}
    /\ B \in [Blocks -> Buckets] /\ Q \in [Blocks -> Nat] /\ P \in [Blocks -> Pointers]

\* A table leads to linked entries that are first in their bucket.
TablesLead(D, T, L, B, P) ==
    \A d \in T, h \in Buckets :
        D[d].ht[h] # NoBlock =>
            LET c == D[d].ht[h] IN c \in L /\ P[c] = NoBlock /\ D[c].parent = d /\ B[c] = h

\* A successor is an entry of the same bucket, of a higher rank.
ChainsLead(D, L, B, Q, P) ==
    \A b \in L :
        D[b].next # NoBlock =>
            LET c == D[b].next IN
            c \in L /\ P[c] = b /\ D[c].parent = D[b].parent /\ B[c] = B[b] /\ Q[b] < Q[c]

\* Every linked entry is led to.
ComesFrom(D, L, B, P, c) ==
    IF P[c] = NoBlock THEN D[D[c].parent].ht[B[c]] = c
                      ELSE P[c] \in L /\ D[P[c]].next = c
AllComeFrom(D, T, L, B, P) == \A c \in L : D[c].parent \in T /\ ComesFrom(D, L, B, P, c)

EntryHeaders(D, L) ==
    /\ D[RootBlock].type = "root" /\ D[RootBlock].next = NoBlock /\ D[RootBlock].parent = NoBlock
    /\ \A b \in L : /\ D[b].type \in {"dir", "file", "link"}
                    /\ D[b].name \in Names
                    /\ D[b].parent # b

\* No bucket holds a name twice, in upper case.
NoTwins(D, L, B) ==
    \A b, c \in L : D[b].parent = D[c].parent /\ B[b] = B[c] /\ Fold[D[b].name] = Fold[D[c].name]
                      => b = c

Threaded(D, T, L, B, Q, P) ==
    /\ WitnessTypes(T, L, B, Q, P)
    /\ TablesLead(D, T, L, B, P)
    /\ ChainsLead(D, L, B, Q, P)
    /\ AllComeFrom(D, T, L, B, P)
    /\ EntryHeaders(D, L)
    /\ NoTwins(D, L, B)

\* What may be followed has a name that callers pass.
Named(D, T) == \A b \in T \ {RootBlock} : D[b].name \in Names

\* Every linked entry is in the bucket of the name it is stored with.
OwnBuckets(D, L, B) == \A b \in L : Hash[D[b].name] = B[b]

\* The hash of a name is that of the name it is stored with: what MAXNAMELEN
\* cuts off changes nothing.
NamesFit == \A n \in Names : Hash[Cut[n]] = Hash[n]

\* D is threaded, with tables to be followed in T, and no linked block in F.
Holds(D, T, F) ==
    \E L, B, Q, P :
        /\ Threaded(D, T, L, B, Q, P) /\ Named(D, T)
        /\ (L \cup {RootBlock}) \cap F = {}
        /\ NamesFit => OwnBuckets(D, L, B)

\* What is asked of the volume that the calls start from.
SoundVolume(D) ==
    /\ D \in [Blocks -> Headers]
    /\ \E T, L, B, Q, P : /\ Threaded(D, T, L, B, Q, P) /\ Named(D, T)
                          /\ NamesFit => OwnBuckets(D, L, B)

----------------------------------------------------------------------------
(* Threads that can be computed: those of the tree under the root.  A volume *)
(* that has these is sound; the values that the calls are checked with do.  *)

TreeEntries(D) == Tree(D) \ {RootBlock}
NamedBuckets(D) ==
    [b \in Blocks |-> IF b \in TreeEntries(D) THEN Hash[D[b].name] ELSE CHOOSE h \in Buckets : TRUE]
\* The fewer blocks are behind it, the higher is its rank.
Ranks(D) == [b \in Blocks |-> Fuel + 1 - Cardinality(Range(Walk(Successor(D), b, Fuel)) \ {NoBlock})]
Predecessors(D) ==
    [b \in Blocks |-> IF \E c \in TreeEntries(D) : D[c].next = b
                       THEN CHOOSE c \in TreeEntries(D) : D[c].next = b ELSE NoBlock]

TreeThreaded(D) ==
    Threaded(D, Tree(D), TreeEntries(D), NamedBuckets(D), Ranks(D), Predecessors(D))
=============================================================================
