------------------------------ MODULE AdfFile ------------------------------
(***************************************************************************)
(* A connection to a file (src/src/adflib/adf_file.c, adf_file_block.c and *)
(* the connections of src/src/open_adf_file.cpp): the file header, the     *)
(* chain of extension blocks and the data blocks on the disk, and the      *)
(* handle in memory with its copies of the header, of one data block and   *)
(* of one extension block.                                                 *)
(*                                                                         *)
(* The loops of adfFileRead and adfFileWrite keep nothing from one turn to *)
(* the next that is not in the handle, so an action is one turn: a call    *)
(* that crosses blocks is several of them in a row.                        *)
(*                                                                         *)
(* One file and one connection; AdfBitmap has the allocator's rules.  All  *)
(* reads and writes of blocks succeed here, a volume may be full.          *)
(***************************************************************************)
EXTENDS Integers, FiniteSets, Sequences, Walks

CONSTANTS
    Blocks,      \* the blocks the file can grow into, numbers above 1
    BlockSize,   \* bytes in a data block (488 or 512)
    MaxDataBlk,  \* MAX_DATABLK, pointers in a header or extension block (72)
    Values,      \* the bytes written
    MaxSize      \* bound: kind of file system -> bytes a file may grow to

ASSUME FileAssumption ==
    /\ Blocks \subseteq Nat \ {0, 1} /\ IsFiniteSet(Blocks)
    /\ BlockSize \in Nat \ {0} /\ MaxDataBlk \in Nat \ {0}
    /\ DOMAIN MaxSize \subseteq {"OFS", "FFS"}
    /\ \A kind \in DOMAIN MaxSize : MaxSize[kind] \in Nat

Offsets == 0 .. BlockSize - 1
Sectors == Blocks \cup {0}

\* What a block holds.  nextData is used by OFS only.
Data(bytes, next) == [kind |-> "data", data |-> bytes, nextData |-> next]
Zeros == [i \in Offsets |-> 0]
Ext(key) == [kind |-> "ext", headerKey |-> key, dataBlocks |-> <<>>, extension |-> 0]
NoExt == Ext(0)
NoHeader == [byteSize |-> 0, firstData |-> 0, dataBlocks |-> <<>>, extension |-> 0]

VARIABLES
    dosType,  \* the kind of file system; never changes
    hdr,      \* the file's header on the disk
    disk,     \* the data and extension blocks on the disk
    free,     \* the free blocks
    file,     \* the handle
    out       \* the bytes the last turn of adfFileRead delivered

vars == <<dosType, hdr, disk, free, file, out>>

isOFS == dosType = "OFS"

Closed == [mode |-> "closed", fileHdr |-> NoHeader, currentData |-> Data(Zeros, 0),
           currentExt |-> NoExt, nDataBlock |-> 0, curDataPtr |-> 0, pos |-> 0,
           posInDataBlk |-> 0, posInExtBlk |-> 0, currentDataBlockChanged |-> FALSE]

BlockLists == UNION {[1 .. n -> Sectors] : n \in 0 .. MaxDataBlk}
HeadersOK(h) == /\ h.byteSize \in Nat
                /\ h.firstData \in Sectors /\ h.extension \in Sectors
                /\ h.dataBlocks \in BlockLists
DataOK(b) == b.data \in [Offsets -> Values \cup {0}] /\ b.nextData \in Sectors
ExtOK(b) == b.dataBlocks \in BlockLists /\ {b.headerKey, b.extension} \subseteq Sectors

TypeOK ==
    /\ dosType \in DOMAIN MaxSize
    /\ HeadersOK(hdr) /\ HeadersOK(file.fileHdr)
    /\ DOMAIN disk = Blocks
    /\ \A s \in Blocks : IF disk[s].kind = "data" THEN DataOK(disk[s]) ELSE ExtOK(disk[s])
    /\ free \subseteq Blocks
    /\ file.mode \in {"closed", "read", "write"}
    /\ DataOK(file.currentData) /\ ExtOK(file.currentExt)
    /\ file.curDataPtr \in Sectors
    /\ file.nDataBlock \in Nat
    /\ file.pos \in 0 .. file.fileHdr.byteSize
    /\ file.posInDataBlk \in 0 .. BlockSize
    /\ file.posInExtBlk \in 0 .. MaxDataBlk
    /\ file.currentDataBlockChanged \in BOOLEAN

----------------------------------------------------------------------------
(* Reading blocks.  D is a disk image, f a handle.                          *)

\* Pointer number i, from 0, of a header or extension block; 0 when not set.
At(list, i) == IF i < Len(list) THEN list[i + 1] ELSE 0
Put(list, i, s) == [j \in 1 .. (IF i < Len(list) THEN Len(list) ELSE i + 1) |->
                      IF j = i + 1 THEN s ELSE At(list, j - 1)]

AsData(D, s) == IF s # 0 /\ D[s].kind = "data" THEN D[s] ELSE Data(Zeros, 0)
AsExt(D, s) == IF s # 0 /\ D[s].kind = "ext" THEN D[s] ELSE NoExt
ExtNext(D) == [s \in Sectors |-> AsExt(D, s).extension]

\* adfFileReadNextBlock; on an error its callers set curDataPtr to 0.
ExtForNext(D, f) ==
    IF isOFS \/ f.nDataBlock < MaxDataBlk THEN f
    ELSE IF f.nDataBlock = MaxDataBlk
      THEN [f EXCEPT !.currentExt = AsExt(D, f.fileHdr.extension), !.posInExtBlk = 0]
    ELSE IF f.posInExtBlk = MaxDataBlk
      THEN [f EXCEPT !.currentExt = AsExt(D, f.currentExt.extension), !.posInExtBlk = 0]
    ELSE f

NextSect(f) ==
    IF f.nDataBlock = 0 THEN f.fileHdr.firstData
    ELSE IF isOFS THEN f.currentData.nextData
    ELSE IF f.nDataBlock < MaxDataBlk THEN At(f.fileHdr.dataBlocks, f.nDataBlock)
    ELSE At(f.currentExt.dataBlocks, f.posInExtBlk)

ReadNextBlock(D, f) ==
    LET g == ExtForNext(D, f)
        s == NextSect(g)
        inExt == ~isOFS /\ g.nDataBlock >= MaxDataBlk
        h == [g EXCEPT !.posInExtBlk = IF inExt THEN @ + 1 ELSE @]
    IN  IF s = 0 THEN [h EXCEPT !.curDataPtr = 0]
        ELSE [h EXCEPT !.currentData = AsData(D, s), !.curDataPtr = s, !.nDataBlock = @ + 1]

----------------------------------------------------------------------------
(* adfFileFlush: the extension block in memory, the data block in memory    *)
(* and the header are written, and the bitmap is saved.                     *)

FlushedDisk(f) ==
    LET e == f.currentExt.headerKey
        ext == IF e = 0 THEN disk ELSE [disk EXCEPT ![e] = f.currentExt]
    IN  IF f.fileHdr.byteSize > 0 /\ f.curDataPtr # 0
          THEN [ext EXCEPT ![f.curDataPtr] = f.currentData]
          ELSE ext

\* Disk and handle after the flush that seeking and overwriting begin with.
NeedsFlush(f) == f.mode = "write" /\ f.currentDataBlockChanged
DiskBefore(f) == IF NeedsFlush(f) THEN FlushedDisk(f) ELSE disk
HeaderBefore(f) == IF NeedsFlush(f) THEN f.fileHdr ELSE hdr
Saved(f) == IF NeedsFlush(f) THEN [f EXCEPT !.currentDataBlockChanged = FALSE] ELSE f

----------------------------------------------------------------------------
(* adfFileSeek.                                                             *)

SeekStart(D, f) ==
    LET g == [f EXCEPT !.pos = 0, !.posInExtBlk = 0, !.posInDataBlk = 0,
                       !.nDataBlock = 0, !.curDataPtr = 0]
    IN  IF f.fileHdr.byteSize = 0 THEN g ELSE ReadNextBlock(D, g)

\* adfFileReadExtBlockN: extension block number n, from 0.
ExtBlockN(D, f, n) == AsExt(D, Walk(ExtNext(D), f.fileHdr.extension, n)[n])

\* adfFileSeekExt_ for a position inside the file; adfPos2DataBlock splits it.
SeekExt(D, f, p) ==
    LET n == p \div BlockSize
        inExt == (n - MaxDataBlk) % MaxDataBlk
        ext == ExtBlockN(D, f, (n - MaxDataBlk) \div MaxDataBlk)
        g == [f EXCEPT !.pos = p, !.posInDataBlk = p % BlockSize]
        h == IF n < MaxDataBlk
               THEN [g EXCEPT !.posInExtBlk = 0,
                              !.curDataPtr = At(f.fileHdr.dataBlocks, n)]
               ELSE [g EXCEPT !.posInExtBlk = inExt + 1, !.currentExt = ext,
                              !.curDataPtr = At(ext.dataBlocks, inExt)]
    IN  IF h.curDataPtr = 0 THEN [h EXCEPT !.nDataBlock = n]
        ELSE [h EXCEPT !.currentData = AsData(D, h.curDataPtr), !.nDataBlock = n + 1]

CurDatablockByPos(f) == f.pos \div BlockSize                   \* variant
CurDatablock(f) == IF f.nDataBlock > 0 THEN f.nDataBlock - 1 ELSE 0
InCurrentBlock(f, p) == f.curDataPtr # 0 /\ CurDatablock(f) = p \div BlockSize

\* To a position before the end of the file.
SeekInside(D, f, p) ==
    IF InCurrentBlock(f, p) THEN [f EXCEPT !.pos = p, !.posInDataBlk = p % BlockSize]
    ELSE IF p = 0 THEN SeekStart(D, f)
    ELSE SeekExt(D, f, p)

\* To the end: the last byte is sought, then the position is moved behind it.
SeekEOF(D, f) ==
    LET size == f.fileHdr.byteSize IN
    IF size = 0 THEN SeekStart(D, f)
    ELSE [SeekInside(D, f, size - 1) EXCEPT
            !.pos = size,
            !.posInDataBlk = IF size % BlockSize = 0 THEN BlockSize ELSE size % BlockSize]

\* Stays are the seeks that leave the block in memory alone.
Stays(f, p) == (f.pos = p /\ f.curDataPtr # 0) \/ InCurrentBlock(f, p)

Sought(f, p) ==
    IF f.pos = p /\ f.curDataPtr # 0 THEN f
    ELSE IF InCurrentBlock(f, p) THEN [f EXCEPT !.pos = p, !.posInDataBlk = p % BlockSize]
    ELSE IF p = f.fileHdr.byteSize THEN SeekEOF(DiskBefore(f), Saved(f))
    ELSE SeekInside(DiskBefore(f), Saved(f), p)

\* A connection only seeks positions inside the file (adf_seek_internal).
adfFileSeek(p) ==
    /\ file.mode # "closed"
    /\ file' = Sought(file, p)
    /\ disk' = IF Stays(file, p) THEN disk ELSE DiskBefore(file)
    /\ hdr' = IF Stays(file, p) THEN hdr ELSE HeaderBefore(file)
    /\ out' = <<>>
    /\ UNCHANGED <<dosType, free>>

----------------------------------------------------------------------------
(* Opening and closing.  A file that is not there is made by adfCreateFile  *)
(* (AdfDir) and is empty.                                                   *)

adfFileOpen(mode) ==
    /\ file.mode = "closed"
    /\ file' = SeekStart(disk, [Closed EXCEPT !.mode = mode, !.fileHdr = hdr])
    /\ out' = <<>>
    /\ UNCHANGED <<dosType, hdr, disk, free>>

\* adf_close_file_con, close_adf: flush_adffile_internal.
adfFileClose ==
    /\ file.mode # "closed"
    /\ file' = Closed
    /\ IF file.mode = "write"
         THEN disk' = FlushedDisk(file) /\ hdr' = file.fileHdr
         ELSE UNCHANGED <<disk, hdr>>
    /\ out' = <<>>
    /\ UNCHANGED <<dosType, free>>

----------------------------------------------------------------------------
(* One turn of adfFileRead: k bytes from the block in memory.               *)

Got(f, k) == [i \in 1 .. k |-> f.currentData.data[f.posInDataBlk + i - 1]]
MovedOn(f, k) == [f EXCEPT !.pos = @ + k, !.posInDataBlk = @ + k]

ForReading(f) ==
    IF f.posInDataBlk = BlockSize
      THEN [ReadNextBlock(disk, f) EXCEPT !.posInDataBlk = 0, !.currentDataBlockChanged = FALSE]
      ELSE f

adfFileRead(k) ==
    LET f == ForReading(file) IN
    /\ file.mode = "read"
    /\ file.pos + k <= file.fileHdr.byteSize
    /\ f.posInDataBlk + k <= BlockSize
    /\ file' = MovedOn(f, k)
    /\ out' = Got(f, k)
    /\ UNCHANGED <<dosType, hdr, disk, free>>

----------------------------------------------------------------------------
(* One turn of adfFileWrite: k bytes v into the block in memory.            *)

Overwrite(f, k, v) ==
    LET last == f.pos + k IN
    [f EXCEPT !.currentData.data =
                [i \in Offsets |-> IF f.posInDataBlk <= i /\ i < f.posInDataBlk + k
                                     THEN v ELSE @[i]],
              !.pos = last, !.posInDataBlk = @ + k,
              !.currentDataBlockChanged = TRUE,
              !.fileHdr.byteSize = IF last > @ THEN last ELSE @]

AtEdge == file.pos % BlockSize = 0
AtEOF == file.pos = file.fileHdr.byteSize
Writes(k) == /\ file.mode = "write"
             /\ file.pos + k <= MaxSize[dosType]
             /\ out' = <<>>
             /\ UNCHANGED dosType

\* Into the block in memory.
WriteHere(k, v) ==
    /\ Writes(k)
    /\ AtEdge => ~AtEOF /\ file.posInDataBlk # BlockSize
    /\ file.posInDataBlk + k <= BlockSize
    /\ file' = Overwrite(file, k, v)
    /\ UNCHANGED <<hdr, disk, free>>

\* Into the next block of the file, which is read when the one in memory is saved.
WriteNextUnsaved(k, v) ==                                      \* variant
    /\ Writes(k) /\ k <= BlockSize
    /\ AtEdge /\ ~AtEOF /\ file.posInDataBlk = BlockSize
    /\ file' = Overwrite([ReadNextBlock(disk, file) EXCEPT !.posInDataBlk = 0], k, v)
    /\ UNCHANGED <<disk, hdr, free>>
WriteNext(k, v) ==
    LET next == ReadNextBlock(DiskBefore(file), Saved(file)) IN
    /\ Writes(k) /\ k <= BlockSize
    /\ AtEdge /\ ~AtEOF /\ file.posInDataBlk = BlockSize
    /\ file' = IF next.curDataPtr = 0 THEN next
               ELSE Overwrite([next EXCEPT !.posInDataBlk = 0], k, v)
    /\ disk' = DiskBefore(file) /\ hdr' = HeaderBefore(file)
    /\ UNCHANGED free

(* adfFileCreateNextBlock, at the end of the file and of a block.           *)

Lowest(S) == CHOOSE b \in S : \A c \in S : b <= c
NeedsExt(f) == f.nDataBlock >= MaxDataBlk /\ f.nDataBlock % MaxDataBlk = 0

\* The handle and the disk with the new, empty extension block s linked in.
LinkedExt(D, f, s) ==
    IF f.nDataBlock >= 2 * MaxDataBlk
      THEN [D EXCEPT ![f.currentExt.headerKey] = [f.currentExt EXCEPT !.extension = s]]
      ELSE D
WithNewExtUnreset(f, s) ==                                     \* variant
    [f EXCEPT !.currentExt = Ext(s),
              !.fileHdr.extension = IF f.nDataBlock = MaxDataBlk THEN s ELSE @]
WithNewExt(f, s) ==
    [f EXCEPT !.currentExt = Ext(s), !.posInExtBlk = 0,
              !.fileHdr.extension = IF f.nDataBlock = MaxDataBlk THEN s ELSE @]

\* The handle with the data block s entered in the header or extension block.
WithNewData(f, s) ==
    IF f.nDataBlock < MaxDataBlk
      THEN [f EXCEPT !.fileHdr.firstData = IF f.nDataBlock = 0 THEN s ELSE @,
                     !.fileHdr.dataBlocks = Put(@, f.nDataBlock, s)]
      ELSE [f EXCEPT !.currentExt.dataBlocks = Put(@, f.posInExtBlk, s), !.posInExtBlk = @ + 1]

\* The disk with the block in memory written; for OFS it is linked to s first.
SavedPreviousUnlinked(D, f, s) ==                              \* variant
    IF f.pos >= BlockSize THEN [D EXCEPT ![f.curDataPtr] = f.currentData] ELSE D
SavedPrevious(D, f, s) ==
    IF f.pos >= BlockSize
      THEN [D EXCEPT ![f.curDataPtr] =
              IF isOFS THEN [f.currentData EXCEPT !.nextData = s] ELSE f.currentData]
      ELSE D

\* A write through a currentExt that was never loaded ends the process: no step.
HasExt(f) == f.nDataBlock > MaxDataBlk => f.currentExt # NoExt

WriteNew(k, v) ==
    LET e == Lowest(free)
        left == IF NeedsExt(file) THEN free \ {e} ELSE free
        s == Lowest(left)
        f == IF NeedsExt(file) THEN WithNewExt(file, e) ELSE file
        D == IF NeedsExt(file) THEN LinkedExt(disk, file, e) ELSE disk
        g == [WithNewData(f, s) EXCEPT !.currentData = Data(Zeros, 0), !.curDataPtr = s,
                                       !.nDataBlock = @ + 1, !.posInDataBlk = 0]
    IN
    /\ Writes(k) /\ k <= BlockSize
    /\ AtEdge /\ AtEOF
    /\ Cardinality(free) >= (IF NeedsExt(file) THEN 2 ELSE 1)
    /\ HasExt(file)
    /\ free' = left \ {s}
    /\ disk' = SavedPrevious(D, file, s)
    /\ file' = Overwrite(g, k, v)
    /\ UNCHANGED hdr

\* The volume is full.  The turn gives up, with the mark of the block in memory
\* taken off; an extension block that was still to be had stays linked in.
WriteFull(k) ==
    /\ Writes(k)
    /\ AtEdge /\ AtEOF
    /\ Cardinality(free) < (IF NeedsExt(file) THEN 2 ELSE 1)
    /\ IF free = {}
         THEN /\ file' = [file EXCEPT !.currentDataBlockChanged = FALSE]
              /\ UNCHANGED <<disk, free>>
         ELSE LET e == Lowest(free) IN
              /\ HasExt(file)
              /\ file' = [WithNewExt(file, e) EXCEPT !.currentDataBlockChanged = FALSE]
              /\ disk' = LinkedExt(disk, file, e)
              /\ free' = {}
    /\ UNCHANGED hdr

----------------------------------------------------------------------------
(* Removing the file: adfGetFileBlocks collects its blocks, and             *)
(* adfFreeFileBlocks frees as many of them as a file of that size has.      *)

\* adfFileRealSize.
NbData(size) == (size \div BlockSize) + IF size % BlockSize # 0 THEN 1 ELSE 0
NbExtens(size) ==
    LET n == NbData(size) IN
    IF n <= MaxDataBlk THEN 0
    ELSE ((n - MaxDataBlk) \div MaxDataBlk) + IF (n - MaxDataBlk) % MaxDataBlk # 0 THEN 1 ELSE 0

\* The chain of extension blocks, at most as long as there are blocks, and the
\* data blocks in the header and along it.
Extens(D, h) ==
    Gathered(ExtNext(D), [s \in Sectors |-> IF s = 0 THEN <<>> ELSE <<s>>],
             h.extension, Cardinality(Blocks))
DataBlocksOf(D, h) ==
    h.dataBlocks \o Gathered(ExtNext(D), [s \in Sectors |-> AsExt(D, s).dataBlocks],
                             h.extension, Cardinality(Blocks))

FirstOf(n, list) == {list[i] : i \in 1 .. (IF n < Len(list) THEN n ELSE Len(list))}

GetFileBlocks(D, h) == FirstOf(NbData(h.byteSize), DataBlocksOf(D, h))
                       \cup FirstOf(NbExtens(h.byteSize), Extens(D, h))

adfFreeFileBlocks ==
    /\ file.mode = "closed"
    /\ free' = free \cup GetFileBlocks(disk, hdr)
    /\ hdr' = NoHeader
    /\ out' = <<>>
    /\ UNCHANGED <<dosType, disk, file>>

Init ==
    /\ dosType \in DOMAIN MaxSize
    /\ hdr = NoHeader
    /\ disk = [s \in Blocks |-> Data(Zeros, 0)]
    /\ free = Blocks
    /\ file = Closed
    /\ out = <<>>

Next ==
    \/ \E mode \in {"read", "write"} : adfFileOpen(mode)
    \/ adfFileClose
    \/ \E p \in 0 .. file.fileHdr.byteSize : adfFileSeek(p)
    \/ \E k \in 1 .. BlockSize :
          \/ adfFileRead(k)
          \/ WriteFull(k)
          \/ \E v \in Values : WriteHere(k, v) \/ WriteNext(k, v) \/ WriteNew(k, v)
    \/ adfFreeFileBlocks

Spec == Init /\ [][Next]_vars

----------------------------------------------------------------------------
(* What the file should be.                                                 *)

\* The header and the blocks as closing the connection now would leave them.
Left == IF file.mode = "write" THEN [D |-> FlushedDisk(file), h |-> file.fileHdr]
                               ELSE [D |-> disk, h |-> hdr]
Bytes(D, h) ==
    LET list == DataBlocksOf(D, h) IN
    [i \in 1 .. h.byteSize |->
        AsData(D, At(list, (i - 1) \div BlockSize)).data[(i - 1) % BlockSize]]
Contents == LET l == Left IN Bytes(l.D, l.h)
Position == IF file.mode = "closed" THEN -1 ELSE file.pos

\* The position, the number of the block in memory and its address agree with
\* the block lists: what every branch of adfFileSeek and of the two loops has
\* to re-establish ("state consistency" in adfFileSeekEOF_).
HandleAgrees ==
    file.mode # "closed" /\ file.fileHdr.byteSize > 0 =>
        /\ file.nDataBlock > 0
        /\ file.pos = (file.nDataBlock - 1) * BlockSize + file.posInDataBlk
        /\ file.curDataPtr = At(DataBlocksOf(Left.D, Left.h), file.nDataBlock - 1)
        /\ file.curDataPtr # 0

\* OFS keeps the order of the data blocks twice, in the block lists and in the
\* nextData links: seeking follows the one, reading on the other.
ChainAgrees ==
    isOFS /\ Left.h.byteSize > 0 =>
        LET list == DataBlocksOf(Left.D, Left.h) IN
        /\ Left.h.firstData = list[1]
        /\ \A i \in 1 .. NbData(Left.h.byteSize) - 1 :
              AsData(Left.D, list[i]).nextData = At(list, i)

\* No block is in the file twice, none of them is free, and without a connection
\* the blocks in use are those that removing the file gives back: the
\* allocations of adfFileCreateNextBlock, adfFileFlush's writes of the blocks in
\* memory, and the sizes of adfFileRealSize go by the same count.
NoSharedBlocks(h, data, exts) ==
    /\ Cardinality(data) = NbData(h.byteSize)
    /\ Cardinality(exts) = NbExtens(h.byteSize)
    /\ data \cap exts = {} /\ 0 \notin data
    /\ (data \cup exts) \cap free = {}
BlocksAccounted ==
    /\ NoSharedBlocks(Left.h, FirstOf(NbData(Left.h.byteSize), DataBlocksOf(Left.D, Left.h)),
                      FirstOf(NbExtens(Left.h.byteSize), Extens(Left.D, Left.h)))
    /\ file.mode = "closed" => Blocks \ free = GetFileBlocks(disk, hdr)

----------------------------------------------------------------------------
(* What the documentation says, and the code does not keep.                 *)

\* Writing functions "behave exactly the same as their base counterpart"
\* (R/s3_conn.R): a write changes the bytes that it is to change, and no others.
\* The last extension block is taken to be in memory when an OFS file is made
\* longer.
WriteKeepsOtherBytes ==
    [][file.mode = "write" /\ file'.mode = "write" /\ file'.pos > file.pos
       => \A i \in DOMAIN Contents \ (file.pos + 1 .. file'.pos) : Contents'[i] = Contents[i]]_vars
=============================================================================
