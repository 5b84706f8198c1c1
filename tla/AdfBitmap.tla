----------------------------- MODULE AdfBitmap -----------------------------
(***************************************************************************)
(* The block bitmap of a mounted volume (src/src/adflib/adf_bitm.c): the   *)
(* table in memory, its "changed" marks, the bitmap pages on the disk and  *)
(* the flag in the root block.                                             *)
(*                                                                         *)
(* Everything here runs on one thread.  What makes the component hard is   *)
(* that adfUpdateBitmap is a sequence of block writes: each of them may    *)
(* fail, which leaves the function at once, and the process may end        *)
(* between any two of them, after which the volume is mounted again from   *)
(* whatever is on the disk.  So every write of adfUpdateBitmap is a step.  *)
(*                                                                         *)
(* Blocks are numbered relative to the volume.  Blocks 0 and 1 hold the    *)
(* boot code and have no bit (the code subtracts 2 from every number).     *)
(***************************************************************************)
EXTENDS Integers, FiniteSets

CONSTANTS LastBlock,       \* vol->lastBlock of a volume whose firstBlock is 0
          RootBlock,       \* vol->rootBlock, where every search starts
          BlocksPerPage,   \* 127 * 32 in the code
          MaxRequest       \* bound: most blocks asked for in one call

\* The search of adfGetFreeBlocks ends when it is back at the root block, which
\* it only notices when it gets there by counting up: the root is not block 2.
ASSUME GeometryAssumption ==
    /\ LastBlock \in Nat /\ RootBlock \in Nat
    /\ 2 < RootBlock /\ RootBlock <= LastBlock
    /\ BlocksPerPage \in Nat \ {0}
    /\ MaxRequest \in Nat \ {0}

Blocks == 2 .. LastBlock

\* Number of pages needed for nBlock blocks.
nBlock2bitmapSize(nBlock) ==
    (nBlock \div BlocksPerPage) + IF nBlock % BlocksPerPage # 0 THEN 1 ELSE 0

NPages == nBlock2bitmapSize(LastBlock + 1 - 2)
Pages == 0 .. NPages - 1

PageOf(b) == (b - 2) \div BlocksPerPage
PageBlocks(p) == {b \in Blocks : PageOf(b) = p}

VARIABLES
    bitmapSize,       \* pages in memory: NPages, or 0 when mounting failed to read one
    bitmapTable,      \* the set of free blocks, in memory
    bitmapBlocksChg,  \* per page: changed since it was last written
    bmPages,          \* the pages on the disk: per page, its free blocks
    bmFlag,           \* root.bmFlag on the disk
    pc,               \* "idle", or "writing" inside adfUpdateBitmap
    page,             \* the loop counter of adfUpdateBitmap
    rc,               \* what the last call returned
    saved             \* history: the free blocks when an update last completed

vars == <<bitmapSize, bitmapTable, bitmapBlocksChg, bmPages, bmFlag, pc, page,
          rc, saved>>
memory == <<bitmapSize, bitmapTable, bitmapBlocksChg>>
disk == <<bmPages, bmFlag>>
call == <<pc, page>>

ReturnCodes == {"ok", "error", "full"}

OnDisk == UNION {bmPages[p] : p \in Pages}

\* With no page in memory nothing can be handed out, and an update has nothing
\* to write: the volume behaves as if its pool were what the disk says.
Free == IF bitmapSize = 0 THEN OnDisk ELSE bitmapTable

TypeOK ==
    /\ bitmapSize \in {0, NPages}
    /\ bitmapTable \subseteq Blocks
    /\ bitmapBlocksChg \in [Pages -> BOOLEAN]
    /\ bmPages \in [Pages -> SUBSET Blocks]
    /\ \A p \in Pages : bmPages[p] \subseteq PageBlocks(p)
    /\ bmFlag \in {"valid", "invalid"}
    /\ pc \in {"idle", "writing"}
    /\ page \in 0 .. NPages
    /\ rc \in ReturnCodes
    /\ saved \subseteq Blocks

\* A freshly mounted volume, with any set of blocks in use besides its root.
Init ==
    \E free \in SUBSET (Blocks \ {RootBlock}) :
        /\ bitmapSize = NPages
        /\ bitmapTable = free
        /\ bitmapBlocksChg = [p \in Pages |-> FALSE]
        /\ bmPages = [p \in Pages |-> free \cap PageBlocks(p)]
        /\ bmFlag = "valid"
        /\ pc = "idle" /\ page = 0
        /\ rc = "ok"
        /\ saved = free

----------------------------------------------------------------------------
(* The bits, and the search for free blocks.  The callers run between two   *)
(* updates, never inside one; without pages in memory every access to the   *)
(* table goes through a null pointer, which ends the process (Reconnect).   *)

Marked(S) == [p \in Pages |-> bitmapBlocksChg[p] \/ \E b \in S : PageOf(b) = p]

\* Variant: the mark is forgotten when blocks are taken.
SetUsedUnmarked(S) == /\ bitmapTable' = bitmapTable \ S
                      /\ UNCHANGED bitmapBlocksChg

SetUsed(S) == /\ bitmapTable' = bitmapTable \ S
              /\ bitmapBlocksChg' = Marked(S)

SetFree(S) == /\ bitmapTable' = bitmapTable \cup S
              /\ bitmapBlocksChg' = Marked(S)

\* The block looked at in the k-th turn of the search: up from the root to the
\* last block, then on from block 2.
Visit[k \in 0 .. LastBlock] ==
    IF k = 0 THEN RootBlock
    ELSE IF Visit[k - 1] = LastBlock THEN 2 ELSE Visit[k - 1] + 1

\* Variant: the search ends at the last block instead of wrapping around.
TurnsNoWrap == {k \in 0 .. LastBlock : \A j \in 1 .. k : Visit[j] > RootBlock}

\* The turns the search takes before it is back at the root (diskFull).
Turns == {k \in 0 .. LastBlock : \A j \in 1 .. k : Visit[j] # RootBlock}

Hits == {k \in Turns : Visit[k] \in bitmapTable}

\* The blocks collected when the search stops: the first n free ones it meets.
SectList(n) == {Visit[k] : k \in {h \in Hits :
                                    Cardinality({j \in Hits : j < h}) < n}}

\* All n blocks are marked used, or none is.
adfGetFreeBlocks(n) ==
    /\ pc = "idle" /\ bitmapSize # 0
    /\ IF Cardinality(SectList(n)) = n
         THEN SetUsed(SectList(n)) /\ rc' = "ok"
         ELSE UNCHANGED memory /\ rc' = "full"
    /\ UNCHANGED <<bitmapSize, disk, call, saved>>

adfSetBlockFree(b) ==
    /\ pc = "idle" /\ bitmapSize # 0
    /\ SetFree({b})
    /\ rc' = "ok"
    /\ UNCHANGED <<bitmapSize, disk, call, saved>>

adfSetBlockUsed(b) ==
    /\ pc = "idle" /\ bitmapSize # 0
    /\ SetUsed({b})
    /\ rc' = "ok"
    /\ UNCHANGED <<bitmapSize, disk, call, saved>>

----------------------------------------------------------------------------
(* adfUpdateBitmap, one step per block written.                             *)

\* Any read or write that fails makes the function return at once.
Fail == /\ pc' = "idle" /\ page' = 0
        /\ rc' = "error"
        /\ UNCHANGED <<memory, disk, saved>>

\* Variant: the pages are rewritten without taking the flag down.
BeginUpdateUnderFlag ==
    /\ pc = "idle"
    /\ pc' = "writing" /\ page' = 0
    /\ UNCHANGED <<memory, disk, rc, saved>>

BeginUpdate ==
    /\ pc = "idle"
    /\ \/ /\ bmFlag' = "invalid"
          /\ pc' = "writing" /\ page' = 0
          /\ UNCHANGED <<memory, bmPages, rc, saved>>
       \/ Fail

\* Variant: the neighbouring page's bits are written along.
WriteBitmapPageUncut ==
    /\ pc = "writing" /\ page < bitmapSize
    /\ bitmapBlocksChg[page]
    /\ bmPages' = [bmPages EXCEPT ![page] = bitmapTable]
    /\ bitmapBlocksChg' = [bitmapBlocksChg EXCEPT ![page] = FALSE]
    /\ page' = page + 1
    /\ UNCHANGED <<bitmapSize, bitmapTable, bmFlag, pc, rc, saved>>

WriteBitmapPage ==
    /\ pc = "writing" /\ page < bitmapSize
    /\ bitmapBlocksChg[page]
    /\ \/ /\ bmPages' = [bmPages EXCEPT ![page] = bitmapTable \cap PageBlocks(page)]
          /\ bitmapBlocksChg' = [bitmapBlocksChg EXCEPT ![page] = FALSE]
          /\ page' = page + 1
          /\ UNCHANGED <<bitmapSize, bitmapTable, bmFlag, pc, rc, saved>>
       \/ Fail

SkipBitmapPage ==
    /\ pc = "writing" /\ page < bitmapSize
    /\ ~bitmapBlocksChg[page]
    /\ page' = page + 1
    /\ UNCHANGED <<memory, disk, pc, rc, saved>>

\* Variant: the flag goes up before every page has been looked at.
EndUpdateEarly ==
    /\ pc = "writing" /\ page + 1 >= bitmapSize
    /\ bmFlag' = "valid"
    /\ pc' = "idle" /\ page' = 0
    /\ rc' = "ok"
    /\ saved' = Free
    /\ UNCHANGED <<memory, bmPages>>

EndUpdate ==
    /\ pc = "writing" /\ page = bitmapSize
    /\ \/ /\ bmFlag' = "valid"
          /\ pc' = "idle" /\ page' = 0
          /\ rc' = "ok"
          /\ saved' = Free
          /\ UNCHANGED <<memory, bmPages>>
       \/ Fail

----------------------------------------------------------------------------
(* The memory goes away and the volume is mounted again: the process ended  *)
(* at this point, or the device was closed (adfUnMount saves nothing) and   *)
(* connected once more.  adfReadBitmap does not look at bmFlag; when a page *)
(* cannot be read it drops the table, and adfMount carries on without one.  *)

Reconnect ==
    /\ \/ bitmapSize' = NPages /\ bitmapTable' = OnDisk
       \/ bitmapSize' = 0 /\ bitmapTable' = {}
    /\ bitmapBlocksChg' = [p \in Pages |-> FALSE]
    /\ pc' = "idle" /\ page' = 0
    /\ rc' = "ok"
    /\ UNCHANGED <<disk, saved>>

Next ==
    \/ \E n \in 1 .. MaxRequest : adfGetFreeBlocks(n)
    \/ \E b \in Blocks : adfSetBlockFree(b) \/ adfSetBlockUsed(b)
    \/ BeginUpdate \/ WriteBitmapPage \/ SkipBitmapPage \/ EndUpdate
    \/ Reconnect

Spec == Init /\ [][Next]_vars
----------------------------------------------------------------------------
(* Properties.                                                              *)

\* A page of the table that is not marked as changed is on the disk as it is
\* in memory.  adfUpdateBitmap writes marked pages only, so a change that some
\* path forgets to mark, or a mark removed before its page is written, is a
\* block that silently changes hands at the next mount.
UnmarkedPagesAreSaved ==
    bitmapSize # 0 => \A p \in Pages :
        ~bitmapBlocksChg[p] => bmPages[p] = bitmapTable \cap PageBlocks(p)

\* Under a "valid" flag the disk holds the pool as it was when an update last
\* completed, wherever updates failed or the process ended since.
ValidMeansSaved == bmFlag = "valid" => OnDisk = saved

\* Inside an update the flag is down, and the pages already passed are exact.
UpdateInProgress ==
    pc = "writing" =>
        /\ bmFlag = "invalid"
        /\ page <= bitmapSize
        /\ bitmapSize # 0 => \A p \in Pages : p < page => ~bitmapBlocksChg[p]

\* A request is refused only when fewer blocks than asked for are free: the
\* search that starts at the root and wraps around misses none.  A granted one
\* takes exactly as many blocks as asked for, all of them free until then.
RequestsAreExact ==
    [][\A n \in 1 .. MaxRequest :
         adfGetFreeBlocks(n) =>
            IF Cardinality(bitmapTable) < n
              THEN rc' = "full" /\ bitmapTable' = bitmapTable
              ELSE /\ rc' = "ok"
                   /\ bitmapTable' \subseteq bitmapTable
                   /\ Cardinality(bitmapTable \ bitmapTable') = n]_vars

\* The bitmap keeps the promise of BlockPool: in particular the pages are only
\* rewritten under an "invalid" flag and the flag is only raised over pages
\* that are exact.
Pool == INSTANCE BlockPool WITH free <- Free, durable <- OnDisk, marker <- bmFlag
ImplementsBlockPool == Pool!Spec
=============================================================================
