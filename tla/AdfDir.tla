------------------------------ MODULE AdfDir ------------------------------
(***************************************************************************)
(* Directories of a volume without a directory cache                       *)
(* (src/src/adflib/adf_dir.c): header blocks on the disk, the hash tables  *)
(* and hash chains that link them, and the calls that create, remove and   *)
(* rename entries.                                                         *)
(*                                                                         *)
(* A call is one action.  Inside it the code writes a few blocks in a      *)
(* fixed order and finally saves the bitmap; the disk images between those *)
(* writes are computed in that order, and the action may stop at any of    *)
(* them: either the write failed and the call took its error path, or the  *)
(* process ended there and the volume was mounted again.                   *)
(*                                                                         *)
(* Of the bitmap only the free blocks in memory and on the disk matter     *)
(* here (AdfBitmap has the rest); data blocks of files are left out.       *)
(***************************************************************************)
EXTENDS Integers, FiniteSets, Sequences, Functions, Walks

CONSTANTS
    Blocks,      \* the blocks that have a bit in the bitmap, numbers
    RootBlock,   \* vol->rootBlock
    BitmapBlock, \* the block of the bitmap page
    Names,       \* the names callers pass
    Fold,        \* name -> its first 30 characters in upper case
    Hash,        \* name -> adfGetHashValue of the whole name
    Cut,         \* name -> the name made of its first 30 characters
    Buckets,     \* the indices of a hash table (HT_SIZE = 72 in the code)
    InitDisk,    \* the headers on the disk at the start
    MoveAcross,  \* TRUE: adfRenameEntry is also called with two directories
    MayBeCut     \* TRUE: a call may be cut short; the run ends there

NoBlock == 0     \* a null pointer in a hash table or chain

ASSUME ConstantsAssumption ==
    /\ Blocks \subseteq Nat \ {NoBlock} /\ IsFiniteSet(Blocks)
    /\ RootBlock \in Blocks /\ BitmapBlock \in Blocks \ {RootBlock}
    /\ Cut \in [Names -> Names] /\ Hash \in [Names -> Buckets]
    /\ \A n \in Names : Cut[Cut[n]] = Cut[n] /\ Fold[Cut[n]] = Fold[n]
    /\ \A m, n \in Range(Cut) : Fold[m] = Fold[n] => Hash[m] = Hash[n]
    /\ MoveAcross \in BOOLEAN
    /\ MayBeCut \in BOOLEAN

Pointers == Blocks \cup {NoBlock}

\* What a block holds, read as an entry header.  "none": no valid header.
Headers == [type : {"none", "root", "dir", "file", "link"}, name : Names \cup {"-"},
            parent : Pointers, next : Pointers,
            ht : [Buckets -> Pointers]]

EmptyTable == [h \in Buckets |-> NoBlock]

Header(type, name, parent) ==
    [type |-> type, name |-> name, parent |-> parent, next |-> NoBlock, ht |-> EmptyTable]

Garbage == Header("none", "-", NoBlock)

VARIABLES
    disk,      \* block -> header
    free,      \* the free blocks in memory (bitmapTable)
    diskFree,  \* the free blocks in the bitmap page on the disk
    last,      \* the last call: what it was, its directory and name, what it returned
    cut        \* a call was cut short

vars == <<disk, free, diskFree, last, cut>>

Calls == [op : {"create", "remove", "rename", "flush", "mount"}, dir : Blocks,
          name : Names \cup {"-"}, rc : {"ok", "error", "notempty"}]
Mounted == [op |-> "mount", dir |-> RootBlock, name |-> "-", rc |-> "ok"]

TypeOK ==
    /\ disk \in [Blocks -> Headers]
    /\ free \subseteq Blocks /\ diskFree \subseteq Blocks
    /\ last \in Calls
    /\ cut \in BOOLEAN

----------------------------------------------------------------------------
(* Chains.  D is a disk image.                                              *)

Fuel == Cardinality(Blocks)

\* The block behind each block; NoBlock is behind itself.
Successor(D) == [b \in Pointers |-> IF b = NoBlock THEN NoBlock ELSE D[b].next]

\* The directory that each block names as its parent; nothing is above NoBlock.
Above(D) == [b \in Pointers |-> IF b = NoBlock THEN NoBlock ELSE D[b].parent]

\* The i-th block of the chain in bucket h of d; NoBlock after the end.
ChainAt(D, d, h) == Walk(Successor(D), D[d].ht[h], Fuel)

Chain(D, d, h) == Range(ChainAt(D, d, h)) \ {NoBlock}

Readable(D, b) == D[b].type # "none"

\* The name comparison of adfNameToEntryBlk and adfCreateEntry: both sides are
\* cut to 30 characters, but the stored length has to be equal as well.
MatchExact(D, b, n) == Readable(D, b) /\ D[b].name = n     \* variant
Match(D, b, n) == Readable(D, b) /\ Fold[D[b].name] = Fold[n]

\* Where the walk along the chain of n's bucket stops with a match.
HitAt(D, d, n) ==
    LET at == ChainAt(D, d, Hash[n]) IN
    {i \in 0 .. Fuel : /\ \A j \in 0 .. i : at[j] # NoBlock /\ Readable(D, at[j])
                       /\ Match(D, at[i], n)
                       /\ \A j \in 0 .. i - 1 : ~Match(D, at[j], n)}

\* The entry called n in d, or NoBlock.
adfNameToEntryBlk(D, d, n) ==
    IF HitAt(D, d, n) = {} THEN NoBlock
    ELSE ChainAt(D, d, Hash[n])[CHOOSE i \in HitAt(D, d, n) : TRUE]

\* The block whose nextSameHash points to it, or NoBlock for the hash table.
UpdSect(D, d, n) ==
    LET i == CHOOSE i \in HitAt(D, d, n) : TRUE
    IN  IF i = 0 THEN NoBlock ELSE ChainAt(D, d, Hash[n])[i - 1]

\* The last block of a chain that is not empty.
ChainEnd(D, d, h) ==
    LET at == ChainAt(D, d, h) IN
    at[CHOOSE i \in 0 .. Fuel : at[i] # NoBlock /\ (i = Fuel \/ at[i + 1] = NoBlock)]

SetTable(D, d, h, b) == [D EXCEPT ![d].ht[h] = b]
SetNext(D, b, next) == [D EXCEPT ![b].next = next]

\* Takes an entry out of bucket h of d: prev is the entry before it, next the
\* one behind it.
UnlinkedFromTable(D, d, h, prev, next) == SetTable(D, d, h, next)  \* variant
UnlinkedFirstOnly(D, d, h, prev, next) ==                          \* variant
    IF prev = NoBlock THEN SetTable(D, d, h, next) ELSE D
Unlinked(D, d, h, prev, next) ==
    IF prev = NoBlock THEN SetTable(D, d, h, next) ELSE SetNext(D, prev, next)

\* A disk full of free blocks is searched upwards from the root, then from the
\* first block on (AdfBitmap!SectList).
FirstFree(F) ==
    LET above == {b \in F : b >= RootBlock}
        from == IF above # {} THEN above ELSE F
    IN  IF F = {} THEN NoBlock ELSE CHOOSE b \in from : \A c \in from : b <= c
adfGet1FreeBlock == FirstFree(free)

----------------------------------------------------------------------------
(* The tree under the root.                                                 *)

Children(D, d) == UNION {Chain(D, d, h) : h \in Buckets}

\* A set of blocks with those that their tables and successors lead to.
LedTo(D) == [S \in SUBSET Blocks |->
    S \cup {c \in Blocks : \E b \in S : c = D[b].next \/ \E h \in Buckets : c = D[b].ht[h]}]
Tree(D) == Walk(LedTo(D), {RootBlock}, Fuel)[Fuel]

DirTypes == {"root", "dir"}
Dirs(D) == {b \in Tree(D) : D[b].type \in DirTypes}

\* The blocks above b, following the parent pointers as far as the root.
WithParents(D) == [S \in SUBSET Blocks |-> S \cup {c \in Blocks : \E b \in S : c = D[b].parent}]
Ancestors(D, b) == Walk(WithParents(D), {b}, Fuel)[Fuel]

\* The walk of move_adf_internal up from dst: dst_parent after i turns of its loop.
\* (A failsafe ends the loop with an error after 1000 turns; it is left out.)
Up(dst) == Walk(Above(disk), disk[dst].parent, Fuel)

\* Does it refuse to move src into dst?  (What is checked before is in AdfMove.)
RefusesMoveLate(src, dst) ==                                \* variant
    dst = src \/ \E i \in 1 .. Fuel : Up(dst)[i] = src
RefusesMove(src, dst) ==
    LET up == Up(dst)
        turns == {i \in 1 .. Fuel : disk[dst].type # "root" /\
                                    \A j \in 0 .. i - 2 : disk[up[j]].type # "root"}
    IN  \E i \in turns : dst = src \/ up[0] = src \/ up[i] = src

----------------------------------------------------------------------------
(* A call runs through the disk images imgs[1], imgs[2], ..., the first of  *)
(* them the disk as it is, and has mem[i] in memory when it stops at the    *)
(* i-th.  After the last one adfUpdateBitmap writes the page, if sync.      *)

Perform(imgs, mem, sync, call) ==
    \E k \in 1 .. Len(imgs), page, whole, dies \in BOOLEAN :
        /\ page => sync /\ k = Len(imgs)
        /\ whole => k = Len(imgs) /\ page = sync /\ ~dies
        /\ ~whole => (k < Len(imgs) \/ sync) /\ MayBeCut
        /\ disk' = imgs[k]
        /\ diskFree' = IF page THEN mem[k] ELSE diskFree
        /\ free' = IF dies THEN diskFree' ELSE mem[k]
        /\ last' = IF whole THEN call ELSE [call EXCEPT !.rc = "error"]
        /\ cut' = ~whole

Refused(call) == last' = call /\ UNCHANGED <<disk, free, diskFree, cut>>

CanCreateUnlessFirst(d, n) ==                               \* variant
    /\ disk[d].ht[Hash[n]] # NoBlock => ~Match(disk, disk[d].ht[Hash[n]], n)
    /\ adfGet1FreeBlock # NoBlock

\* A call on the entry n of d, and what it returned.
Returned(op, d, n, rc) == [op |-> op, dir |-> d, name |-> n, rc |-> rc]

\* adfCreateEntry refuses a name that is there, and a chain it cannot read.
CanCreate(d, n) ==
    /\ adfNameToEntryBlk(disk, d, n) = NoBlock
    /\ \A b \in Chain(disk, d, Hash[n]) : Readable(disk, b)
    /\ adfGet1FreeBlock # NoBlock

LinkedFirst(d, n, new) == SetTable(disk, d, Hash[n], new)   \* variant

\* adfWriteDirBlock makes the block that it writes a directory.
MadeDir(D, d) == [D EXCEPT ![d].type = IF @ = "root" THEN @ ELSE "dir"]

\* adfCreateEntry: the new block is linked into the table or behind the last
\* entry of the chain - unless that is a link, which is left as it is.
Linked(d, n, new) ==
    IF disk[d].ht[Hash[n]] = NoBlock THEN MadeDir(SetTable(disk, d, Hash[n], new), d)
    ELSE LET tail == ChainEnd(disk, d, Hash[n]) IN
         IF disk[tail].type \in {"dir", "file"} THEN SetNext(disk, tail, new) ELSE disk

\* adfCreateFile, adfCreateDir: the pointer to the new block is written first,
\* then the block, then the bitmap.  When the pointer cannot be written the
\* block is freed again; when the block cannot be written it is not.
Create(type, d, n) ==
    IF ~CanCreate(d, n) THEN Refused(Returned("create", d, n, "error"))
    ELSE LET new == adfGet1FreeBlock
             linked == Linked(d, n, new)
             written == [linked EXCEPT ![new] = Header(type, Cut[n], d)]
         IN  Perform(<<disk, linked, written>>,
                     <<free, free \ {new}, free \ {new}>>, TRUE, Returned("create", d, n, "ok"))

adfCreateFile(d, n) == Create("file", d, n)
adfCreateDir(d, n) == Create("dir", d, n)

isDirEmptyFirstOnly(b) == disk[b].ht[CHOOSE h \in Buckets : TRUE] = NoBlock  \* variant
isDirEmpty(b) == disk[b].ht = EmptyTable

adfRemoveEntryFreeFirst(d, n) ==                            \* variant
    LET b == adfNameToEntryBlk(disk, d, n)
        unlinked == Unlinked(disk, d, Hash[n], UpdSect(disk, d, n), disk[b].next)
    IN  IF b = NoBlock \/ disk[b].type = "link" THEN Refused(Returned("remove", d, n, "error"))
        ELSE IF disk[b].type = "dir" /\ ~isDirEmpty(b) THEN Refused(Returned("remove", d, n, "notempty"))
        ELSE Perform(<<disk, unlinked>>, <<free \cup {b}, free \cup {b}>>, TRUE, Returned("remove", d, n, "ok"))

\* The entry is unlinked, then its block is freed and the bitmap saved.  A link
\* is unlinked as well before the call finds that it cannot remove links.
adfRemoveEntry(d, n) ==
    LET b == adfNameToEntryBlk(disk, d, n)
        unlinked == Unlinked(disk, d, Hash[n], UpdSect(disk, d, n), disk[b].next)
    IN  IF b = NoBlock THEN Refused(Returned("remove", d, n, "error"))
        ELSE IF disk[b].type = "dir" /\ ~isDirEmpty(b) THEN Refused(Returned("remove", d, n, "notempty"))
        ELSE IF disk[b].type \in {"dir", "file"}
          THEN Perform(<<disk, unlinked>>, <<free, free \cup {b}>>, TRUE, Returned("remove", d, n, "ok"))
          ELSE Perform(<<disk, unlinked>>, <<free, free>>, FALSE, Returned("remove", d, n, "error"))

RenamedInPlace(b, np, new) ==                               \* variant
    [disk EXCEPT ![b] = [@ EXCEPT !.name = new, !.next = NoBlock]]
RenamedUnknownParent(b, np, new) ==                         \* variant
    [disk EXCEPT ![b] = [@ EXCEPT !.name = new, !.parent = -1, !.next = NoBlock]]
Renamed(b, np, new) ==
    [disk EXCEPT ![b] = [@ EXCEPT !.name = new, !.parent = np, !.next = NoBlock]]

\* adfRenameEntry: the entry gets its name, parent and an empty successor, is
\* unlinked, and the old parent is written (again); only then is the bucket in
\* the new parent searched, and an entry of that name makes the call fail.
RenameImages(p, old, np, new) ==
    LET b == adfNameToEntryBlk(disk, p, old)
        named == Renamed(b, np, new)
        unlinked == Unlinked(named, p, Hash[old], UpdSect(disk, p, old), disk[b].next)
        bucket == Chain(unlinked, np, Hash[new])
        tail == ChainEnd(unlinked, np, Hash[new])
        same == \E c \in bucket : Match(unlinked, c, new)
    IN  IF bucket = {} THEN <<disk, named, unlinked, SetTable(unlinked, np, Hash[new], b)>>
        ELSE IF same \/ (\E c \in bucket : ~Readable(unlinked, c))
                     \/ unlinked[tail].type \notin {"dir", "file"}
          THEN <<disk, named, unlinked>>
        ELSE <<disk, named, unlinked, SetNext(unlinked, tail, b)>>
\* Whether the last of them has the entry in its new place.
Relinked(imgs) == Len(imgs) = 4

adfRenameEntry(p, old, np, new) ==
    IF p = np /\ old = new THEN Refused(Returned("rename", p, old, "ok"))
    ELSE IF adfNameToEntryBlk(disk, p, old) = NoBlock
      THEN Refused(Returned("rename", p, old, "error"))
    ELSE LET imgs == RenameImages(p, old, np, new)
         IN  Perform(imgs, [i \in DOMAIN imgs |-> free], FALSE,
                     Returned("rename", p, old, IF Relinked(imgs) THEN "ok" ELSE "error"))

\* The volume is closed and mounted again: the table is read from the disk.
Reconnect ==
    /\ free' = diskFree
    /\ last' = Mounted
    /\ UNCHANGED <<disk, diskFree, cut>>

Init ==
    /\ disk = InitDisk
    /\ free = {b \in Blocks \ {BitmapBlock} : ~Readable(InitDisk, b)}
    /\ diskFree = free
    /\ last = Mounted
    /\ cut = FALSE

\* The names that fit into a header.  adfRenameEntry copies its names into
\* arrays of that size without cutting them, so only these are renamed to.
ShortNames == Range(Cut)

\* The callers pass directories that a path from the root led them to, and
\* never move a directory into itself: that is what move_adf_internal is for.
Targets(p, old) ==
    IF MoveAcross
      THEN {d \in Dirs(disk) : adfNameToEntryBlk(disk, p, old) \notin Ancestors(disk, d)}
      ELSE {p}

Call ==
    \/ \E d \in Dirs(disk), n \in Names :
          \/ adfCreateFile(d, n)
          \/ adfCreateDir(d, n)
          \/ adfRemoveEntry(d, n)
    \/ \E p \in Dirs(disk), old, new \in ShortNames :
          \E np \in Targets(p, old) : adfRenameEntry(p, old, np, new)

Next == (~cut /\ Call) \/ Reconnect

Spec == Init /\ [][Next]_vars
----------------------------------------------------------------------------
(* Properties.                                                              *)

\* Every chain ends, and every entry on it can be read, names the directory
\* it is in as its parent, and hangs in the bucket of its own name: so no
\* block is in two places, and following the parents of an entry gives back
\* the path that led to it.
TreeSound ==
    \A d \in Dirs(disk), h \in Buckets :
        /\ ChainAt(disk, d, h)[Fuel] = NoBlock
        /\ \A b \in Chain(disk, d, h) :
              /\ disk[b].type \in {"dir", "file", "link"}
              /\ disk[b].parent = d
              /\ Hash[disk[b].name] = h

\* Whatever a directory lists is found under the name it is listed with; in
\* particular no two entries of a directory have the same name in upper case.
ListedEntriesAreFound ==
    ~cut => \A d \in Dirs(disk) : \A b \in Children(disk, d) :
        adfNameToEntryBlk(disk, d, disk[b].name) = b

\* No block that the tree uses is free, neither in memory nor for a later mount.
TreeIsMarkedUsed == Tree(disk) \cap (free \cup diskFree) = {}

\* The calls are those of a namespace: every one that is not cut short makes,
\* drops, renames or loses exactly one entry, or does nothing.
EntriesOf(D) ==
    UNION {{[dir |-> d, name |-> D[b].name, node |-> b, kind |-> D[b].type] :
            b \in Children(D, d)} : d \in Dirs(D)}
Volume == INSTANCE Namespace
            WITH Nodes <- Blocks, Root <- RootBlock, entries <- EntriesOf(disk)
ImplementsNamespace ==
    /\ Volume!Init
    /\ [][cut' \/ disk' = disk \/ [Volume!Next]_(EntriesOf(disk))]_vars

\* A call that reports success leaves no block behind that is marked used and
\* that nothing leads to.
Leaked == Blocks \ (free \cup Tree(disk) \cup {BitmapBlock})
SuccessLeaksNothing ==
    [][last'.rc = "ok" /\ ~cut' => Leaked' \subseteq Leaked]_vars

\* move_adf_internal refuses exactly the moves of an entry into itself or into
\* a directory below it.
MoveCheckIsExact ==
    \A src \in Tree(disk) \ {RootBlock}, dst \in Dirs(disk) :
        RefusesMove(src, dst) <=> src \in Ancestors(disk, dst)

\* What can be found: directory, name, block.
Found(D) == {f \in Dirs(D) \X Names \X Blocks :
                adfNameToEntryBlk(D, f[1], f[2]) = f[3]}

CutShort(op) == ~cut /\ cut' /\ last'.op = op

\* A creation or removal cut short at any write costs no other entry: whatever
\* else could be found can still be found.
CreateAndRemoveKeepOthers ==
    [][CutShort("create") \/ CutShort("remove") =>
         \A f \in Found(disk) :
            \/ f \in Found(disk')
            \/ f[1] = last'.dir /\ Fold[f[2]] = Fold[last'.name]]_vars

\* A removal cut short at any write never leaves a block of the tree free.
RemoveExposesNothing ==
    [][CutShort("remove") => Tree(disk') \cap (free' \cup diskFree') = {}]_vars

\* A rename cut short can cost more than the entry renamed, because the entry
\* loses its successor before it is unlinked; but what is lost is that entry,
\* those behind it in its chain, and what is below them.
Behind(d, n) ==
    LET first == CHOOSE i \in HitAt(disk, d, n) : TRUE
    IN  {ChainAt(disk, d, Hash[n])[i] : i \in first .. Fuel} \ {NoBlock}

RenameLossIsLocal ==
    [][CutShort("rename") =>
         \A f \in Found(disk) :
            \/ f \in Found(disk')
            \/ Ancestors(disk, f[3]) \cap Behind(last'.dir, last'.name) # {}]_vars
============================================================================
