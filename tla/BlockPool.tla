----------------------------- MODULE BlockPool -----------------------------
(***************************************************************************)
(* What the block allocator of an ADF volume promises the file system that *)
(* uses it.  There is a pool of free blocks in memory and a durable copy   *)
(* of it on the disk, which is all that a later mount sees.  The disk also *)
(* carries a marker that says whether the durable copy can be trusted.     *)
(*                                                                         *)
(*   - a request for blocks is granted entirely or refused entirely, and a *)
(*     granted request only ever hands out blocks that are free;           *)
(*   - the durable copy is rewritten under an "invalid" marker only;       *)
(*   - the marker becomes "valid" only when the durable copy equals the    *)
(*     pool in memory;                                                     *)
(*   - losing the memory puts back exactly what is durable.                *)
(*                                                                         *)
(* AdfBitmap is shown to implement this specification.                     *)
(***************************************************************************)
CONSTANT Blocks     \* the blocks that can be allocated

VARIABLES free,     \* the free blocks, as the running program sees them
          durable,  \* the free blocks, as the disk records them
          marker    \* what the disk says of its own record

vars == <<free, durable, marker>>

Init == /\ free \subseteq Blocks
        /\ durable = free
        /\ marker = "valid"

\* The blocks of S are handed out together.
Take(S) == /\ S \subseteq free
           /\ free' = free \ S
           /\ UNCHANGED <<durable, marker>>

\* Blocks are given back; it is legal to give back a block that is free.
Give(S) == /\ S \subseteq Blocks
           /\ free' = free \cup S
           /\ UNCHANGED <<durable, marker>>

\* The marker is taken down before the durable copy is touched.
Open == /\ marker' = "invalid"
        /\ UNCHANGED <<free, durable>>

\* A part of the durable copy is brought up to date: each block's record is
\* afterwards either what it was or what the pool says.
Store == /\ marker = "invalid"
         /\ \E part \in SUBSET Blocks :
              durable' = (durable \ part) \cup (free \cap part)
         /\ UNCHANGED <<free, marker>>

\* The marker goes up again, over a durable copy that is exact.
Commit == /\ durable = free
          /\ marker' = "valid"
          /\ UNCHANGED <<free, durable>>

\* The program ends, or closes the volume, and the disk is mounted again.
Lose == /\ free' = durable
        /\ UNCHANGED <<durable, marker>>

Next == \/ \E S \in SUBSET Blocks : Take(S) \/ Give(S)
        \/ Open
        \/ Store
        \/ Commit
        \/ Lose

Spec == Init /\ [][Next]_vars
=============================================================================
