---------------------------- MODULE AdfTruncate ----------------------------
(***************************************************************************)
(* AdfFile with adfFileTruncate, which makes a file shorter or longer      *)
(* under an open connection (src/src/adflib/adf_file.c).                   *)
(*                                                                         *)
(* Shortening changes, all at once, the block lists in memory, the blocks  *)
(* in memory and the pool, while the disk keeps the old lists until the    *)
(* next flush.  It seeks the new end with the old size, and so takes into  *)
(* memory whatever is there: inside a block that is the block the file     *)
(* goes on in; at the edge of one it is the first block that is given up.  *)
(* No function of the package cuts files yet.                              *)
(***************************************************************************)
EXTENDS AdfFile

VARIABLES
    astray,   \* history: the connection was cut where it cannot go on
    lost      \* history: a step has damaged the file, which is not followed further

varsTruncating == <<vars, astray, lost>>

----------------------------------------------------------------------------
\* Numbers new + 1 to old of a list, as a set.
Behind(new, old, list) == {list[i] : i \in {j \in DOMAIN list : new < j /\ j <= old}}

\* Variant: extension blocks that are no longer needed stay in use.
BlocksToRemoveData(D, h, p) == Behind(NbData(p), NbData(h.byteSize), DataBlocksOf(D, h))

\* adfFileTruncateGetBlocksToRemove: from the lists in the header in memory and
\* in the extension blocks on the disk.
BlocksToRemove(D, h, p) ==
    Behind(NbData(p), NbData(h.byteSize), DataBlocksOf(D, h))
    \cup Behind(NbExtens(p), NbExtens(h.byteSize), Extens(D, h))

\* The extension blocks on the disk are those in memory.  Otherwise, when the
\* last one was changed since the last flush, the function reads pointers that
\* are zero or anything else and frees the sectors they name: no step.
ListsAreSaved ==
    LET D == FlushedDisk(file) IN
    /\ \A e \in FirstOf(Cardinality(Blocks), Extens(D, file.fileHdr)) : disk[e] = D[e]
    /\ Len(Extens(D, file.fileHdr)) = NbExtens(file.fileHdr.byteSize)

\* The pointers behind the last one needed are cleared, if the list is not full.
Cleared(list, n) ==
    IF n % MaxDataBlk # 0 /\ n % MaxDataBlk < Len(list) THEN SubSeq(list, 1, n % MaxDataBlk)
    ELSE list

\* The last n data blocks stay: the lists end there, and so do the links.
CutOff(f, n) ==
    IF n <= MaxDataBlk
      THEN [f EXCEPT !.fileHdr.dataBlocks = Cleared(@, n), !.fileHdr.extension = 0]
      ELSE [f EXCEPT !.currentExt.dataBlocks = Cleared(@, n), !.currentExt.extension = 0]

Emptied(f) == [f EXCEPT !.fileHdr = NoHeader]

Shortened(f, p) ==
    IF p = 0 THEN Emptied(f)
    ELSE [CutOff([f EXCEPT !.fileHdr.byteSize = p], NbData(p)) EXCEPT
            !.currentData.nextData = 0, !.currentDataBlockChanged = TRUE]

\* A connection goes astray when it is cut at the edge of a block, or before the
\* extension block it has in memory: what it has in memory is not the file's
\* any more.  Writing on would enter the next block at the wrong place of the
\* list, or write the old extension block over a new block of the file.  The
\* callers are taken to close the connection then (NextTruncating).
GoesAstray(f, p) ==
    \/ f.nDataBlock > NbData(p)
    \/ f.currentExt # NoExt /\ NbExtens(p) = 0

\* A currentExt that was never loaded is a null pointer.
HasLastExt(f, p) == NbExtens(p) > 0 => f.currentExt # NoExt

\* Three steps damage a file.  The turn that finds the volume full takes the mark of
\* the change off (WriteFull), and what is unmarked is not written when another
\* block is taken into memory.
Unmarked == /\ file.mode = "write" /\ ~file.currentDataBlockChanged
            /\ FlushedDisk(file) # disk \/ file.fileHdr # hdr

Reloads(f, p) == ~Stays(f, p) /\ ~(p = f.fileHdr.byteSize /\ InCurrentBlock(f, p - 1))

\* An OFS file that is read on along nextData keeps the extension block that a seek
\* has loaded, whichever it was: the one in memory has the pointer to the data block
\* in memory in front of its position, or it is a wrong one.
HasItsExt(f) == f.nDataBlock > MaxDataBlk =>
    f.posInExtBlk > 0 /\ At(f.currentExt.dataBlocks, f.posInExtBlk - 1) = f.curDataPtr

\* And an extension block stays behind when there is none for the data.
Damages ==
    \/ Unmarked /\ \E p \in 0 .. file.fileHdr.byteSize : Reloads(file, p) /\ adfFileSeek(p)
    \/ Unmarked /\ \E k \in 1 .. BlockSize, v \in Values : WriteNext(k, v)
    \/ ~HasItsExt(file) /\ \E k \in 1 .. BlockSize, v \in Values \cup {0} : WriteNew(k, v)
    \/ free # {} /\ \E k \in 1 .. BlockSize : WriteFull(k)

adfFileTruncate(p) ==
    LET f == Sought(file, p) IN
    /\ file.mode = "write"
    /\ p < file.fileHdr.byteSize
    /\ ListsAreSaved /\ HasLastExt(f, p)
    /\ free' = free \cup BlocksToRemove(disk, file.fileHdr, p)
    /\ file' = Shortened(f, p)
    /\ astray' = GoesAstray(f, p)
    /\ lost' = ((Unmarked /\ Reloads(file, p)) \/ (NbExtens(p) > 0 /\ ~HasItsExt(f)))
    /\ disk' = IF Stays(file, p) THEN disk ELSE DiskBefore(file)
    /\ hdr' = IF Stays(file, p) THEN hdr ELSE HeaderBefore(file)
    /\ out' = <<>>
    /\ UNCHANGED dosType

\* To make a file longer its end is sought, which adfFileSeek does, and zeros
\* are written there, turn by turn as adfFileWrite does.
adfFileWriteFilled(k) ==
    /\ AtEOF
    /\ WriteHere(k, 0) \/ WriteNew(k, 0)

InitTruncating == Init /\ astray = FALSE /\ lost = FALSE

NextTruncating ==
    \/ ~lost /\ ~astray /\ Next /\ lost' = Damages /\ UNCHANGED astray
    \/ ~lost /\ ~astray /\ \E p \in 0 .. file.fileHdr.byteSize : adfFileTruncate(p)
    \/ /\ ~lost /\ ~astray
       /\ \E k \in 1 .. BlockSize : adfFileWriteFilled(k)
       /\ lost' = Damages /\ UNCHANGED astray
    \/ ~lost /\ astray /\ adfFileClose /\ astray' = FALSE /\ UNCHANGED lost
    \/ lost /\ UNCHANGED varsTruncating

SpecTruncating == InitTruncating /\ [][NextTruncating]_varsTruncating

----------------------------------------------------------------------------
Promise == INSTANCE ByteFile WITH bytes <- Contents, pos <- Position, read <- out,
                                  Values <- Values \cup {0}, MaxTurn <- BlockSize

\* However seeks, reads, overwrites, appends, refused writes and truncations follow
\* each other (closing in between a connection that has gone astray), and wherever
\* the boundaries of data and extension blocks fall, the file is the sequence of
\* bytes they should leave, a read delivers them, and no seek and no close
\* changes them; a truncation keeps the bytes before the new end and the
\* position is there ("resizes (truncates) the file to the specified size and
\* position the file pointer there (at the new EOF)").  Only the steps that are known
\* to damage a file need not be steps of the promise.
ImplementsByteFile ==
    Promise!Init /\ [][lost' \/ Promise!Next]_<<Contents, Position, out>>

\* Types, until a step damages the file.
TypesUntilLost == lost \/ TypeOK

\* Position, block number and address agree with the lists (HandleAgrees), after
\* truncations and refused writes too, unless the connection has gone astray.
HandleAgreesUnlessAstray == astray \/ lost \/ HandleAgrees

\* Blocks are accounted for (BlocksAccounted) and the two orders of the data blocks
\* are one (ChainAgrees) on a volume of any size, filled up or not.
BlocksAccountedUntilLost == lost \/ BlocksAccounted
ChainAgreesUntilLost == lost \/ ChainAgrees
=============================================================================
