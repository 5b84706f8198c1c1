------------------------------ MODULE AdfCache ------------------------------
(***************************************************************************)
(* Directory caches (src/src/adflib/adf_cache.c).  In the modes with a     *)
(* cache every directory has a chain of cache blocks with one record for   *)
(* each of its entries, and listing the directory reads only those.  The   *)
(* calls of AdfDir keep both: they change hash tables and headers first,   *)
(* then the records, and save the bitmap last.                             *)
(*                                                                         *)
(* A call computes a volume image step by step; a step that fails ends the *)
(* call with what has been written so far.                                 *)
(***************************************************************************)
EXTENDS AdfDir, SequencesExt

CONSTANTS
    RecordLen,     \* name -> the length of a record with that name
    RecordSpace,   \* the bytes for records in a cache block (488)
    Sizes,         \* the sizes that files are given
    InitVolumes,   \* the volumes to start from: headers and caches
    Followed       \* the harms after which a volume is followed further

VARIABLES
    cache,   \* block -> what it holds, read as a cache block
    ext,     \* the field extension of the headers of directories
    size,    \* the field byteSize of the headers of files
    harm     \* what has happened to the caches so far

cacheVars == <<cache, ext, size, harm>>
allVars == <<vars, cacheVars>>

\* A record; NoRecord is what is read where none was written, and cannot be read.
Records == [key : Blocks, name : Names, kind : {"dir", "file"}, size : Sizes]
NoRecord == [key |-> NoBlock, name |-> "-", kind |-> "none", size |-> 0]

NoCache == [valid |-> FALSE, records |-> <<>>, next |-> NoBlock]
CacheBlock(records, next) == [valid |-> TRUE, records |-> records, next |-> next]

\* The room that records take; what cannot be read takes none.
Room(record) == IF record = NoRecord THEN 0 ELSE RecordLen[record.name]
Used(records) ==
    LET sum[i \in 0 .. Len(records)] == IF i = 0 THEN 0 ELSE sum[i - 1] + Room(records[i])
    IN  sum[Len(records)]

\* What can happen to a cache.  "spilled": a record needed a further block;
\* "cut": a block was taken out together with those behind it; "full": there
\* was no block to be had; "kept": a rename onto a name that is taken lost the
\* entry but not its record; "unsaved": a call ended without saving the bitmap.
Harms == {"spilled", "cut", "full", "kept", "unsaved"}

\* After a bitmap was left unsaved a block can be in two places, and a walk along
\* a chain need not end: such a volume is not followed any further.
ASSUME CacheAssumption == Followed \subseteq Harms \ {"unsaved"}

CacheTypeOK ==
    /\ TypeOK
    /\ cache \in [Blocks -> [valid : BOOLEAN, records : Seq(Records \cup {NoRecord}), next : Pointers]]
    /\ \A b \in Blocks : Used(cache[b].records) <= RecordSpace
    /\ ext \in [Blocks -> Pointers]
    /\ size \in [Blocks -> Sizes]
    /\ harm \subseteq Harms

----------------------------------------------------------------------------
(* Volume images.                                                           *)

Volume0 == [disk |-> disk, cache |-> cache, ext |-> ext, size |-> size,
            free |-> free, saved |-> diskFree, rc |-> "ok", harm |-> {}]

Failed(v) == [v EXCEPT !.rc = "error"]
Harmed(v, h) == [v EXCEPT !.harm = @ \cup h]
adfUpdateBitmap(v) == [v EXCEPT !.saved = v.free]

\* Writing a header over a cache block, and a cache block over a header.
WithHeader(v, b, header, first, bytes) ==
    [v EXCEPT !.disk[b] = header, !.ext[b] = first, !.size[b] = bytes, !.cache[b] = NoCache]
adfWriteDirCBlock(v, b, block) == [v EXCEPT !.cache[b] = block, !.disk[b] = Garbage]

\* The cache blocks of d in their order; one that is none ends the list.
CacheChain(v, d) ==
    LET at[i \in 0 .. Fuel] ==
          IF i = 0 THEN v.ext[d]
          ELSE IF at[i - 1] = NoBlock THEN NoBlock
          ELSE v.cache[at[i - 1]].next
        len == Cardinality({i \in 0 .. Fuel : at[i] # NoBlock})
    IN  [i \in 1 .. len |-> at[i - 1]]

\* The records of d in their order, each with its block's number in the chain
\* and its position; a block that is no cache block is a record that cannot be
\* read.
InBlock(i, block) ==
    IF block.valid
      THEN [j \in DOMAIN block.records |-> [block |-> i, pos |-> j, record |-> block.records[j]]]
      ELSE <<[block |-> i, pos |-> 1, record |-> NoRecord]>>
RecordsAlong(v, chain) == FlattenSeq([i \in DOMAIN chain |-> InBlock(i, v.cache[chain[i]])])
RecordList(v, d) == RecordsAlong(v, CacheChain(v, d))

AllReadable(list) == \A k \in DOMAIN list : list[k].record # NoRecord

\* Where the search for the record of block b ends: there, or at one that cannot
\* be read, or behind the last one.
RecordIn(list, b) ==
    LET i == SelectInSeq(list, LAMBDA r : r.record = NoRecord \/ r.record.key = b)
    IN  IF i = 0 THEN [block |-> 0, pos |-> 0, record |-> NoRecord] ELSE list[i]
RecordPlace(v, d, b) == RecordIn(RecordList(v, d), b)

\* adfEntry2CacheEntry
RecordOf(b, header, bytes) ==
    [key |-> b, name |-> header.name, kind |-> header.type, size |-> bytes]

\* adfGetDirEntCache: the records of d, if all of them can be read.
ReadRecords(list) ==
    IF AllReadable(list) THEN [k \in DOMAIN list |-> list[k].record] ELSE <<>>
adfGetDirEntCache(v, d) == ReadRecords(RecordList(v, d))

----------------------------------------------------------------------------
(* The records of a directory.                                              *)

\* One block of a chain is rewritten.
WithRecords(v, b, records) == adfWriteDirCBlock(v, b, [v.cache[b] EXCEPT !.records = records])
WithNext(v, b, next) == adfWriteDirCBlock(v, b, [v.cache[b] EXCEPT !.next = next])

\* Block b is freed, and the one before it ends the chain.
CutOff(v, prev, b) ==
    adfUpdateBitmap(WithNext([Harmed(v, IF v.cache[b].next = NoBlock THEN {} ELSE {"cut"})
                                EXCEPT !.free = @ \cup {b}], prev, NoBlock))

\* adfDelFromCache: the record is taken out of its block, and those behind it
\* move up.  A block that it was alone in, unless it is the first one, is freed,
\* and the block before it ends the chain.
DeletedAtUnmoved(v, chain, p) ==                            \* variant
    IF p.record = NoRecord THEN Failed(v)
    ELSE IF p.block > 1 /\ Len(v.cache[chain[p.block]].records) = 1
      THEN CutOff(v, chain[p.block - 1], chain[p.block])
    ELSE WithRecords(v, chain[p.block],
                     Front(ReplaceAt(v.cache[chain[p.block]].records, p.pos, NoRecord)))
DeletedAt(v, chain, p) ==
    IF p.record = NoRecord THEN Failed(v)
    ELSE IF p.block > 1 /\ Len(v.cache[chain[p.block]].records) = 1
      THEN CutOff(v, chain[p.block - 1], chain[p.block])
    ELSE WithRecords(v, chain[p.block], RemoveAt(v.cache[chain[p.block]].records, p.pos))
adfDelFromCache(v, d, b) == DeletedAt(v, CacheChain(v, d), RecordPlace(v, d, b))

\* adfAddInCache: behind the last record of the last block s, if it fits.  If
\* not, a new block is linked in, but the record is put behind the end of the
\* old one: what the new block counts as its record has not been written.
Spilled(v, s, new) ==
    IF new = NoBlock THEN Failed(Harmed(v, {"full"}))
    ELSE WithNext(adfWriteDirCBlock([Harmed(v, {"spilled"}) EXCEPT !.free = @ \ {new}],
                                    new, CacheBlock(<<NoRecord>>, NoBlock)), s, new)
AddedBehindIfAnyRoom(v, s, record) ==                       \* variant
    IF Used(v.cache[s].records) < RecordSpace
      THEN WithRecords(v, s, Append(v.cache[s].records, record))
      ELSE Spilled(v, s, FirstFree(v.free))
AddedBehind(v, s, record) ==
    IF Used(Append(v.cache[s].records, record)) <= RecordSpace
      THEN WithRecords(v, s, Append(v.cache[s].records, record))
      ELSE Spilled(v, s, FirstFree(v.free))
adfAddInCache(v, d, record) ==
    IF v.ext[d] = NoBlock \/ ~AllReadable(RecordList(v, d)) THEN Failed(v)
    ELSE AddedBehind(v, Last(CacheChain(v, d)), record)

\* A step that is taken only if those before it did not fail.
SavedIfOk(v) == IF v.rc = "ok" THEN adfUpdateBitmap(v) ELSE v
AddedIfOk(v, d, record) == IF v.rc = "ok" THEN adfAddInCache(v, d, record) ELSE v

\* adfUpdateCache: in its place unless it has become longer; a longer record is
\* deleted and added again.
InPlace(v, s, pos, record) ==
    adfUpdateBitmap(WithRecords(v, s, ReplaceAt(v.cache[s].records, pos, record)))
UpdatedAt(v, d, chain, p, record, lenChg) ==
    IF p.record = NoRecord THEN Failed(v)
    ELSE IF ~lenChg \/ RecordLen[record.name] <= RecordLen[p.record.name]
      THEN InPlace(v, chain[p.block], p.pos, record)
    ELSE SavedIfOk(AddedIfOk(DeletedAt(v, chain, p), d, record))
adfUpdateCache(v, d, record, lenChg) ==
    UpdatedAt(v, d, CacheChain(v, d), RecordPlace(v, d, record.key), record, lenChg)

\* adfCreateEmptyCache for a new directory b.
EmptyCacheUntaken(v, b, new) ==                             \* variant
    adfWriteDirCBlock([v EXCEPT !.ext[b] = new], new, CacheBlock(<<>>, NoBlock))
EmptyCache(v, b, new) ==
    adfWriteDirCBlock([v EXCEPT !.free = @ \ {new}, !.ext[b] = new], new, CacheBlock(<<>>, NoBlock))
adfCreateEmptyCache(v, b) ==
    IF FirstFree(v.free) = NoBlock THEN Failed(Harmed(v, {"full"}))
    ELSE EmptyCache(v, b, FirstFree(v.free))

----------------------------------------------------------------------------
(* The calls of AdfDir on a volume with caches.                             *)

\* A call ends with the volume image v.
Ends(v, op, d, n) ==
    /\ disk' = v.disk /\ cache' = v.cache /\ ext' = v.ext /\ size' = v.size
    /\ free' = v.free /\ diskFree' = v.saved
    /\ last' = Returned(op, d, n, v.rc)
    /\ harm' = harm \cup v.harm \cup (IF v.saved = v.free THEN {} ELSE {"unsaved"})
    /\ UNCHANGED cut

Refuses(op, d, n, rc) == Refused(Returned(op, d, n, rc)) /\ UNCHANGED cacheVars

\* The volume with the pointer to the new block in place.
LinkedIn(d, n, new) == [Volume0 EXCEPT !.disk = Linked(d, n, new), !.free = @ \ {new}]

\* The header is on the disk before the record is added.
FileAdded(d, new, header, v) ==
    SavedIfOk(adfAddInCache(WithHeader(v, new, header, NoBlock, 0), d, RecordOf(new, header, 0)))
CreateFileCached(d, n) ==
    IF ~CanCreate(d, n) THEN Refuses("create", d, n, "error")
    ELSE Ends(FileAdded(d, adfGet1FreeBlock, Header("file", Cut[n], d), LinkedIn(d, n, adfGet1FreeBlock)),
              "create", d, n)

\* The record is added, and the cache of the new directory made, before its
\* header is written: without them there is none.
DirWritten(new, header, v) == SavedIfOk(
    IF v.rc = "ok" THEN WithHeader(v, new, header, v.ext[new], 0) ELSE v)
DirMade(new, header, v) == DirWritten(new, header,
    IF v.rc = "ok" THEN adfCreateEmptyCache(v, new) ELSE v)
DirAdded(d, new, header, v) ==
    DirMade(new, header, adfAddInCache(v, d, RecordOf(new, header, 0)))
CreateDirCached(d, n) ==
    IF ~CanCreate(d, n) THEN Refuses("create", d, n, "error")
    ELSE Ends(DirAdded(d, adfGet1FreeBlock, Header("dir", Cut[n], d), LinkedIn(d, n, adfGet1FreeBlock)),
              "create", d, n)

\* The first cache block of a directory is freed with it.
FreedWithKeptCache(v, b) == [v EXCEPT !.free = @ \cup {b}]   \* variant
FreedWith(v, b) ==
    [v EXCEPT !.free = @ \cup IF disk[b].type = "dir" THEN {b, ext[b]} \ {NoBlock} ELSE {b}]

UnlinkedFrom(d, n, b) ==
    [Volume0 EXCEPT !.disk = Unlinked(disk, d, Hash[n], UpdSect(disk, d, n), disk[b].next)]
RemoveEntryCached(d, n, b) ==
    IF b = NoBlock THEN Refuses("remove", d, n, "error")
    ELSE IF disk[b].type = "dir" /\ ~isDirEmpty(b) THEN Refuses("remove", d, n, "notempty")
    ELSE Ends(IF disk[b].type \in {"dir", "file"}
                THEN SavedIfOk(adfDelFromCache(FreedWith(UnlinkedFrom(d, n, b), b), d, b))
                ELSE Failed(UnlinkedFrom(d, n, b)), "remove", d, n)
RemoveCached(d, n) == RemoveEntryCached(d, n, adfNameToEntryBlk(disk, d, n))

\* The record of a moved entry is deleted in one cache and added to the other;
\* the bitmap is not saved after that.
RenamedRecord(v, p, np, record) ==
    IF p = np THEN adfUpdateCache(v, p, record, TRUE)
    ELSE AddedIfOk(adfDelFromCache(v, p, record.key), np, record)

RenameEnds(v, b, p, old, np, relinked) ==
    Ends(IF relinked THEN RenamedRecord(v, p, np, RecordOf(b, v.disk[b], size[b]))
                     ELSE Harmed(Failed(v), {"kept"}), "rename", p, old)
RenameEntryCached(b, p, old, np, imgs) ==
    IF b = NoBlock THEN Refuses("rename", p, old, "error")
    ELSE RenameEnds([Volume0 EXCEPT !.disk = imgs[Len(imgs)]], b, p, old, np, Relinked(imgs))
RenameCached(p, old, np, new) ==
    IF p = np /\ old = new THEN Refuses("rename", p, old, "ok")
    ELSE RenameEntryCached(adfNameToEntryBlk(disk, p, old), p, old, np, RenameImages(p, old, np, new))

\* adfFileFlush, after the file has been written to: header, record, bitmap.
FlushCached(b, bytes) ==
    Ends(adfUpdateCache([Volume0 EXCEPT !.size[b] = bytes], disk[b].parent, RecordOf(b, disk[b], bytes), FALSE),
         "flush", disk[b].parent, disk[b].name)

ReconnectCached == Reconnect /\ UNCHANGED cacheVars

CacheInit ==
    /\ \E v \in InitVolumes : disk = v.disk /\ cache = v.cache /\ ext = v.ext
    /\ size = [b \in Blocks |-> 0]
    /\ free = {b \in Blocks \ {BitmapBlock} : ~Readable(disk, b) /\ ~cache[b].valid}
    /\ diskFree = free
    /\ last = Mounted
    /\ cut = FALSE
    /\ harm = {}

CacheCall ==
    \/ \E d \in Dirs(disk), n \in Names :
          CreateFileCached(d, n) \/ CreateDirCached(d, n) \/ RemoveCached(d, n)
    \/ \E p \in Dirs(disk), old, new \in ShortNames :
          \E np \in Targets(p, old) : RenameCached(p, old, np, new)
    \/ \E b \in Tree(disk), bytes \in Sizes : disk[b].type = "file" /\ FlushCached(b, bytes)

CacheNext == (harm \subseteq Followed /\ CacheCall) \/ ReconnectCached

CacheSpec == CacheInit /\ [][CacheNext]_allVars
----------------------------------------------------------------------------
(* Properties.                                                              *)

\* The entries of d, as their headers have them, and the blocks of its cache.
EntryRecords(d) == {RecordOf(b, disk[b], size[b]) : b \in Children(disk, d)}
CacheBlocks(d) == Range(CacheChain(Volume0, d))

\* Listing a directory shows its entries, each with its name, kind and size and
\* none twice, and no block of a cache is free, part of the tree, or in the
\* cache of another directory - unless something has harmed a cache: creating,
\* removing, renaming, moving and flushing all keep the two structures equal.
CacheMirrorsDirectory ==
    harm = {} =>
        \A d \in Dirs(disk) :
            /\ Range(adfGetDirEntCache(Volume0, d)) = EntryRecords(d)
            /\ Len(adfGetDirEntCache(Volume0, d)) = Cardinality(Children(disk, d))
            /\ CacheBlocks(d) \cap (free \cup diskFree \cup Tree(disk)) = {}
            /\ \A e \in Dirs(disk) \ {d} : CacheBlocks(d) \cap CacheBlocks(e) = {}

\* Whatever happens to the caches - records lost, chains cut, blocks that cannot
\* be read - the directories themselves stay sound and complete, as long as the
\* bitmap has been saved after every call.
TreeOutlivesCache ==
    "unsaved" \notin harm => TreeSound /\ ListedEntriesAreFound /\ TreeIsMarkedUsed

\* A call that succeeds leaks nothing but cache blocks behind the first one of
\* a directory: those of a directory it removes, and those behind a block it takes
\* out of a chain.  Whatever else it gives up - headers, first cache blocks, a
\* block with the last record of a chain - is free again.
CacheLeaked ==
    Blocks \ (free \cup Tree(disk) \cup {BitmapBlock} \cup UNION {CacheBlocks(d) : d \in Dirs(disk)})
Further(chain) == Range(SubSeq(chain, 2, Len(chain)))
SuccessLeaksOnlyFurtherBlocks ==
    []["unsaved" \notin harm /\ last'.rc = "ok" /\ <<disk, free, cache>>' # <<disk, free, cache>>
         => CacheLeaked' \ CacheLeaked \subseteq
                UNION {Further(CacheChain(Volume0, d)) : d \in Dirs(disk)}]_allVars
=============================================================================
