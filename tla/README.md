# A specification of adfExplorer2

adfExplorer2 is an R package that reads and writes Amiga disk images (ADF
files). It consists of an edited copy of ADFlib in C (`src/src/adflib`), a layer
of C++ that R calls (`src/src/*.cpp`), and R code that dispatches on classes
and copies trees (`src/R`). The modules here specify the parts of it that keep
state: the block bitmap, directories and their caches, open files and the texts and
vectors read and written through them, the making and mounting of volumes, the
session in which R code uses directories and files at once, and the copying of whole
trees.

The program has one thread and no asynchronous calls. What is hard in it is of
another kind:

- **order of writes**: one call writes several blocks of the image; a write may
  fail, or the process end, after any of them, and the next mount sees what is
  there;
- **copies**: the bitmap, a data block, an extension block and whole headers
  are kept in memory and written back later, over whatever happened meanwhile;
- **boundaries**: a position in a file is kept in five variables that have to
  agree at the edges of data and extension blocks; a volume is full after any
  allocation;
- **the same structure kept twice**: block lists and `nextData`, bitmap pages
  and the table in memory, chains and hash table, directory and its cache.

## 1. Inventory

| Part | Sources | State it keeps | Operations | Specified in |
|---|---|---|---|---|
| Block bitmap and allocator | `adflib/adf_bitm.c` | `bitmapTable`, `bitmapBlocksChg`, the pages on the disk, `bmFlag` in the root | take blocks, give them back, save, load | `AdfBitmap`, promise `BlockPool` |
| Directories | `adflib/adf_dir.c` | header blocks: hash table, `nextSameHash`, `parent`, name | look up, create, remove, rename and move, list | `AdfDir`, promise `Namespace` |
| Files | `adflib/adf_file.c`, `adf_file_block.c` | `struct AdfFile`: header copy, one data block, one extension block, five positions | open, seek, read, write, flush, close, truncate, free the blocks | `AdfFile`, `AdfTruncate`, promise `ByteFile` |
| Session | `open_adf_file.cpp`, `open_adf.cpp`, `adf_file_info.cpp`, `adf_file_operators.cpp` | `openfiles`, `curDirPtr` | resolve paths, open, close, make, remove, rename, change directory, close the device | `AdfSession` over `AdfDir` |
| Volumes and devices | `adf_vol.c`, `adf_dev*.c`, `dev_format.cpp` | `struct AdfVolume`, `struct AdfDevice` | open, find the volume, mount, format | `AdfFormat`; mounting again between other calls is an action of `AdfBitmap`, `AdfDir`, `AdfSession` |
| Directory cache | `adf_cache.c` | a chain of cache blocks per directory, a record per entry | add, delete, update and list records, under every call that changes a directory | `AdfCache` over `AdfDir` |
| Text and vectors | `adf_file_operators.cpp`, `R/s3_conn.R` | none but the position of the connection | read and write lines, strings and items | `AdfText` |
| Salvage | `adf_salv.c` | none | undelete, check | not specified, no caller in the package |
| Copy and move of trees | `R/move.R` | none of its own | recursive copies, each followed by the removal of its source | `AdfMove` (the walk of `move_adf_internal` in `AdfDir`) |
| Hard disks, dump device, checksums, dates, compression, raw blocks, R wrappers | see `PROJECT.json` | – | I/O and encoding | not specified |

**Interactions.** R calls one C++ function at a time. That function resolves a
path (`adf_path_to_entry`) from the root or `vol->curDirPtr`, and calls the
library: directory calls take and free blocks in the table in memory and end
with `adfUpdateBitmap`; file calls take blocks while writing and save the
bitmap when they flush. The connection that R holds is a raw `AdfFile`, which is
also in the global list `openfiles`; the list is what removal and a second
opening consult, and what closing the device walks. All of them share the
image through the device; nothing locks anything.

**What makes each part correct.**
*Bitmap*: a block is handed out once; what is not marked as changed is on the
disk; a valid flag on the disk is never a lie.
*Directories*: chains end and stay in their bucket; what is listed is found;
nothing in the tree is free; a call cut short costs no other entry.
*Caches*: a listing shows the entries; whatever becomes of a cache, the tree
does not suffer.
*Files*: the file is the bytes written, wherever the position crosses a
boundary; no block is in two places; every block comes back on removal.
*Texts and vectors*: what is read is what the file holds, split where it should be,
and what is written is the text or its beginning; every read ends.
*Volumes*: a valid flag means a sound volume, whatever was on the image and wherever
formatting was cut short before.
*Session*: open files keep their blocks; a refused call changes nothing;
closing saves everything and takes nothing else away.
*Moves*: an entry is removed only when its copy is complete; a call ends, and when
it succeeds everything is where it belongs.

`PROJECT.json` lists under `hazards` where each of these can go wrong, with the
property that would notice.

## 2. Modules

### AdfBitmap, BlockPool

`BlockPool` is the promise: a pool of free blocks, a durable copy, a marker
that says whether the copy can be trusted. `AdfBitmap` has the table
(`bitmapTable`, as the set of free blocks), the marks (`bitmapBlocksChg`), the
pages (`bmPages`) and flag (`bmFlag`) on the disk. Taking and giving back are
one step each, as in the code. `adfUpdateBitmap` is a step per block: the flag
goes down (`BeginUpdate`), each marked page is written (`WriteBitmapPage`), the
flag goes up (`EndUpdate`); every write may fail, and between any two of them
`Reconnect` may lose the memory. `Reconnect` also covers a table that cannot be
read, with which `adfMount` carries on. The search for free blocks (from the
root upwards, around the end, back to the root) is spelled out, because it is
where a block could be missed. `saved` is a history variable: the pool at the
last completed update.

### AdfDir, Namespace

`disk` maps a block to its header: type, name, parent, successor, hash table.
A name is an element of a small set; three functions give what the code
computes from it: `Fold` (the first 30 characters in upper case), `Hash` (of the
whole name) and `Cut` (what is stored). A call is one action that runs through
the images of the disk in the order of the code's writes; `Perform` picks the
image at which it stops. With `MayBeCut` it may stop at each of them, because a
write failed (memory stays) or the process ended (memory is read again).
`Namespace` is the promise: make, drop or rename one entry – and `Lose`, which
spells out that a rename onto a name that is taken fails *and* takes the entry
out of its directory.

The loops of the code that follow pointers (`adfNameToEntryBlk`, the parents in
`move_adf_internal`, the extension blocks in `adfGetFileBlocks`) and the closures that the properties speak of are walks:
`Walks` has the functions, `WalksProofs` their laws. `AdfDirThreads` states what makes
the tables and chains of a volume sound without following them; it is what
`AdfDirProofs` proves about every call (section 4), and TLC evaluates it for the volumes
that the runs start from.

### AdfFile, ByteFile

The file has a header, lists of `MaxDataBlk` data blocks in it and in each
extension block, and the handle `file` with the fields of `struct AdfFile`.
OFS and FFS differ where the code does: reading follows `nextData` in one and
the lists in the other. `adfFileWrite` and `adfFileRead` copy piece by piece in
a loop; an action is a turn of that loop, so that every interleaving of turns,
seeks and refusals occurs. `Put` is what the code does to an entry of a list –
an index out of range is not left out. `ByteFile` is the promise: a sequence of
bytes and a position; the refinement mapping is `Contents`, the bytes as closing
the connection now would leave them, so that data only in memory counts as
well.

### AdfTruncate

Extends `AdfFile` by `adfFileTruncate` and `adfFileWriteFilled`. The blocks given up
are worked out from the old and new number of data and extension blocks
(`BlocksToRemove`), in the lists in memory and on the disk; then the end is sought with
the old size, the lists are cut (`CutOff`) and the blocks freed. No function of the
package calls it, so that the model says what a caller has to keep to:

- cut at the edge of a data block, or to nothing, or below the extension block in
  memory, the connection keeps a block in memory that is free now (`GoesAstray`).
  Writing on would enter the next block at the wrong place of the list, or write the old
  extension block over a new block of the file; TLC finds either within seconds when
  `~astray` is taken out of `NextTruncating`. The connection has to be closed then,
  which is the only step left to it.
- with an extension block that has been changed since the last flush, the function
  reads pointers from the disk that are not there yet (`ListsAreSaved`): a flush has to
  come first.

Some steps of `AdfFile` are known to damage the file, and `lost` records that one has been
taken (`Damages`); the file is not followed further then, and the properties of the run
`file` speak of it up to there. They are:

- a turn of a write that finds the volume full after it has taken an extension block, which
  stays linked in and is counted by nothing (`WriteFull` with a block left);
- a block in memory that is given up unsaved: the turn that is refused takes the mark of
  the change off (`Unmarked`), and a seek or the next block of an overwrite goes by the mark;
- a block appended to an OFS file, or a cut, through an extension block in memory that is not
  the last one, or not at its end (`HasItsExt`): following `nextData` never loads another.

A refused write in itself is none of them, nor is an OFS file of any length. The run
`file_ofs` shows the third (section 3).

### AdfText

The file is the sequence of bytes that `ByteFile` promises. A step is one call of
`adfFileRead` or `adfFileWrite`: a byte of a line (`LineByte`, `LineEnd`,
`NoMoreLines`) or of a string (`readOneString`), a block of items (`ReadBlock`) or a
converted item (`ReadItem`), a piece of a text (`WritePiece`). `call` has the local
variables of the C function, `last` the answer. `adf_file_read` reports bytes
(`Reported`) whether or not they were read (`Delivered`), which only matters on a
connection for writing. There a string is whatever the buffer held (`Uninitialised`),
and lines of nuls are read until memory ends, or for ever when nuls are skipped.
`"logical"` goes the way of complex numbers, because the number 5 is tested for that
first (`IsComplex`); `"numeric"` and `"complex"` are refused (`adf_readbin_invalid`).

`TextAssumption` says that the limits are positive, that there is memory for a line as
long as the volume, and that a complex number has more than one byte and is read in that
size only.

### AdfFormat

An image is a kind of floppy, a length, whether the boot block says "DOS", and a map
from the other blocks to what they hold: anything (`Noise`), a bitmap page, a root
block, a cache block. `adf_dev_format` is a step per write, in the order of
`adfCreateVol`: boot block, cache block, root block without pages, root block with
pages, flag down, pages, flag up; then the volume is mounted and the boot code
installed. Each write may be refused (`WriteFails`; two results are not looked at) and
the process may end (`Vanish`). `open_adf` mounts what it finds: the root block where a
floppy of 80 cylinders has it, and the pages it names, not the flag. Without "DOS" in
the boot block `adfMount` fails before it reads the bitmap, which `open_adf_` does not
look at: the volume is in use with a table that was never set (`"unset"`).

### AdfSession

Extends `AdfDir`: its directory calls are `AdfDir`'s actions, called with what
the path resolved to. `adf_path_to_entry` returns what the code returns,
including that for a path which is not there name and type are those of the
block read last. A connection is the block of the header and a copy of it
(`fileHdr`). Writing the copy back when the disk has a newer one sets
`overtaken`; after that chains can be circular, in which the code never comes
back from a lookup, and the session is not followed further.

### AdfCache

Extends `AdfDir` by the cache blocks (`cache`), the field `extension` of
directories (`ext`) and the size of files (`size`), which their records repeat.
Its actions are the calls of `AdfDir` with the branches for `isDIRCACHE`, and
the flush of a file, which updates its record. A call is a chain of functions
from volume image to volume image; one that fails ends the call with what it has
written, so that the order of the writes and what is not undone are in the model
(cut short between two writes they are in `AdfDir` only). A record that cannot be
read, `NoRecord`, ends every walk. A name has a length in its record
(`RecordLen`), a block has `RecordSpace`. `harm` remembers what has happened to the
caches: a record that needed a further block (`spilled`; it is written behind the
end of the old block, out of bounds, and the new block counts a record that was
never written; what else the write out of bounds hits is outside the model), a
chain cut (`cut`), no free block (`full`), a rename that lost its entry but not its
record (`kept`), a call that ended without saving the bitmap (`unsaved`). `Followed` says
after which of these a run goes on.

### AdfMove

The three recursive functions of `R/move.R` with an explicit stack: an
activation is at its `start`, goes through its `items`, and comes to `remove` its
source. Host and volume are maps from paths to entries; of the library only what
decides about success is left: names taken (`Taken`), free blocks, the last entry
of a bucket (`Tails`, which `adf_mkdir` mistakes for the parent), and connections.
A file that does not fit is cut short with a warning (`Fitting`; `short` has the files that
were). The connection of an empty file is never closed (`open`), and the collector turns it
into a pointer to freed memory in `openfiles` (`dangling`), after which
`adf_check_file_state` may say anything; `held` remembers both as they were when the call
began. `move_adf_internal` refuses every move
within a volume unless one of the two paths is one character long: it compares the
number of characters with 1 where the number of paths is meant, so that such a move
fails at the latest at the first entry of a directory (`IsOneChar`, `RefusesMove`). The
user may interrupt a call at every step, also between the opening of a file and its
reading or writing. Sources and destinations are there when the call begins.
`MoveAssumption` says that both file systems are trees to begin with (`IsTree`), and that
names are mapped to names; nothing else is assumed of them.

### Variants

Definitions marked `variant` are the mistakes that the properties are meant to
notice, one for each property of a passing run: the definition beside it with a
guard dropped, an order swapped, a save forgotten. They are not part of any
specification; `PROJECT.json` says which of them violates which property.

## 3. Runs

Two runs assume fairness. `move` has `WF_vars(Step)`: R goes on with a call until it
returns, and nothing else has to happen for that. Every call then ends, whatever the
user and the collector do (`CallsEnd`). `text` has `WF_vars(Turn)` for the same reason:
the loop of a C function goes on by itself (`ReadingEnds`). In the other modules a call is one step, or
one of a few that nothing waits for, and the user may stop at any time, so that they
have no liveness properties. All the runs check for deadlock but `move`, where nothing is left to do after the last call (`MaxCalls`).

| Run | Instance | What it shows |
|---|---|---|
| `bitmap` | blocks 2–5 in pages of 3, root 4, requests of up to 3 blocks | every interleaving of requests, releases, saves, failures and remounts keeps marks, pages and flag consistent; requests are answered exactly; the bitmap implements `BlockPool` |
| `dir` | 3 free blocks, 3 names, 2 of them in one bucket, moves between directories | the tree stays sound, listed entries are found, nothing in it is free, nothing leaks, the move check is exact, and every call is one of `Namespace` |
| `dir_faults` | 3 free blocks, all names in one bucket, `"a"` and `"A"` alike, every call may be cut short | a creation or removal cut short costs no other entry and frees nothing of the tree; a rename cut short costs at most what is behind the entry in its chain |
| `file` | 7 blocks of 2 bytes, lists of 2; OFS to 9 bytes, FFS to 11, which is more than fits | up to a step that is known to damage it, the connection implements `ByteFile`, truncations and refused writes included; handle, lists, `nextData` and bitmap agree, no block is in two places, and what is cut off is given back |
| `cache` | 7 blocks, a short name and two long ones; an empty volume, one with two cache blocks in a directory, one with three in the root; a block has room for a record of any length and a short one | until a cache has been harmed every listing shows the entries with their sizes, records do not run into each other, and no cache block is free or shared; the tree outlives any harm to a cache; a call that succeeds leaks nothing but cache blocks behind the first |
| `session` | 2 free blocks, names in one bucket, 2 connections, paths of up to two parts | see `AdfSession` above; open files keep their blocks, closing a device saves all of them, a refused connection changes nothing |
| `move` | 2 calls; host: a directory with a file and a hidden file; volume of 9 blocks: a directory with an empty file, a file in the root; two names alike but for case | every call ends; no entry is removed that has not been copied, completely unless its own copy was cut short, but hidden files of the host; a success is complete; a call fails only for the reasons listed at `CallsSucceed` |
| `format` | two kinds of floppy, with cylinders of 6 and of 10 blocks, of which mounting expects 2; images of 2 and 3; pages of 16 blocks; zeros, noise or readable pages on the image before; with and without cache | a valid flag means a sound volume, a volume half made over zeros hands out nothing that it needs itself, and formatting fails only when a write was refused or the image is longer than a floppy |
| `text` | files of up to 3 bytes that are line ends, nuls or others; room for 3; strings of up to 3, blocks of 2 items, items of 1 to 3 bytes, counts 0, 1, 3 and all | lines, strings and items are those of the file, and the position is behind them; a text is written as a whole or up to the end of the volume, and nothing else changes; reads of a connection for reading end |

**Bounds.** The bitmap needs two pages, the second partly used, and the root
neither first nor last: one page hides all errors of order between pages, and a
root at the end hides the wrap-around. A chain shows every case at length
three: first, middle, last. A tree of depth two is enough for a move into its own
subtree, which needs a parent and a grandparent. A file needs, for FFS, two
extension blocks, because the first is linked from the header and the second
from the first: five data blocks with lists of two, which with the two extension blocks are
all the blocks of the run, so that FFS, asked for more, meets the full volume. Of an OFS file
the same length has an append behind each place of a list, reached by seeks and along
`nextData`. In `cache` two records are in a block when one of them is the short one, so that
a record is added behind another, deleted in front of another and behind it, found as the
second, and changed beside another; two long ones do not fit, so that the second needs a
further block, also in a directory that can be removed. A chain of three blocks is needed
because only a block in the middle can be cut out together with others; longer chains come
from AmigaOS, since `adfAddInCache` cannot make a good second block. The run goes on after a
record was put behind its block, a chain was cut and a rename has lost its entry, and stops
after the other two harms. For `move`, one call
can fill the volume, leave an empty file open or a half-done tree, and the second
meets it; a source of depth two has an entry below, beside and above every point of
failure. A floppy needs cylinders enough that boot blocks, root, pages and cache leave
blocks over; real ones have a single page, the second kind here has two, so that a
formatting can be cut short between them. For `text`, three bytes hold two line ends
with a rest, a string and part of another, an item of two bytes and half of a second;
the texts written are longer than the volume and end in all their parts, so that each
piece is refused once, in the middle and as a whole. `MaxSize`, `MaxRequest`,
`MaxOpen`, `MaxCalls`, `Capacity`, `Limit` and `MaxBuffer` are the bounds on otherwise
unbounded quantities.

**Views and constraints.** `MCFile` follows only contents with at most two bytes
that differ from the rest (`MCFewMarked`): the code copies bytes and never looks
at them, so a byte that goes astray is seen with one byte marked. Its view leaves
out what free blocks hold; `BlocksAccountedUntilLost` and `HandleAgreesUnlessAstray`, checked in the
same run, say that none is read. The views of `MCDir`, `MCDirFaults` and
`MCSession` leave out headers that nothing leads to, and in `MCSession` the
name of the volume and everything but the open files once `overtaken` holds.

### Where the code does not do what it says

These runs are expected to end in a violation. Each states what the documentation or a comment
says, and the trace is a use of the package that breaks it.

| Run | Property | Trace |
|---|---|---|
| `session_stale` | `ClosingKeepsEntries` | two new files of one hash bucket are open; closing the first writes its old, empty chain pointer, and the second file is in no directory |
| `file_ofs` | `WriteKeepsOtherBytes` | an OFS file of three blocks is written over from its second block on; the block appended then is entered over the third one, which is lost |
| `move_short` | `CutShortIsKept` | a file of the host is moved into a volume with one free block; its header fits, and the file is deleted |

Others are part of the models, and the properties are stated so that they allow for
them, by name:

- a write that is refused behind a new extension block leaves that block linked in, so that
  the removal of the file does not give it back, and the refused turn takes the changed mark
  off the block in memory, so that a seek drops what was written to it (`Damages`: the
  properties of the run `file` end there);
- a record that no longer fits into its cache block is written behind the end of it, and the
  directory cannot be listed any more (`harm` has `spilled`); removing the entry whose record is
  the only one of a block in the middle takes those of the blocks behind it out of the
  listing (`cut`); and a directory that was given two cache blocks gives one back when it is
  removed, although `adf_dir.c:269-271` says that there is only one (what
  `SuccessLeaksOnlyFurtherBlocks` allows for);
- a move of a directory of the host deletes the hidden files in it, which it has not copied
  (`HiddenBelow` in `NothingIsLost`); nearly every move within a volume is refused for the
  lengths of the paths (`Internal` in `CallsSucceed`);
- `readLines` answers a further, empty line behind the last line end of a file, and of an
  empty file; the property of the run `text` speaks of the lines that there are and says
  nothing of it (`LinesAreThere`). `readBin` counts bytes where it means items: of three integers
  of two bytes in a file of one byte it answers one; logical items are read by the code for
  complex numbers, which never shortens its answer: asked for one item of an empty file, it
  answers one (`ItemsAreThere` speaks of whole items only). `R/s3_conn.R:26-28` promises the
  behaviour of base R for all of these. `writeBin` warns only when it wrote fewer bytes than
  the vector has items, `writeLines` never;
- an image of 81 to 83 cylinders is written all over by `adf_dev_format`, which then
  reports failure; called again it succeeds, with a volume of 80 (`FailsForAReason`);
- a volume whose formatting was cut short is mounted like any other
  (`UnfinishedHandsOutNothingInUse`, which cannot be had on an image that was not
  blank), and one without a boot block with no bitmap at all.

Further: the rename that loses its entry (`Namespace!Lose`), the link
removed by a removal that fails, the file that becomes a directory when a path
leads through it, the current directory that can be removed
(`RefusedOpenChangesNothing` needs it to be there), `adf_mkdir` refusing a name
because of an unrelated file, the current directory changed by a failed opening, the
creation behind a link in its chain, which reports success and links nothing.
Renaming a path that
does not exist renames the volume, or the last entry of the chain that was searched
(`SetEntryName`). Files in the root cannot be copied within a volume by their full
path, and a directory copied into itself is copied until the volume is full. Of
several sources on the host, `.move_char_vp` passes all of them on to itself for each
(`R/move.R:200`), which never ends; `AdfMove` has one source per call.
With names of more than 30 characters, which the runs leave out,
`ListedEntriesAreFound` fails on the first creation: the name is stored cut, in the
bucket of the whole name.

## 4. Proofs

### Bitmap (`AdfBitmapProofs`)

Proved for every size of volume, every size of page and every
position of the root (`GeometryAssumption` is all that is assumed):

- `TypeCorrect`, `NoUnmarkedChange`, `FlagIsHonest`: the invariants of the run
  `bitmap`;
- `BitmapImplementsPool`: every step of `AdfBitmap` is a step of `BlockPool` or
  a stutter.

`ValidMeansSaved` alone is not inductive. That `EndUpdate` raises the flag over
exact pages needs two more facts: an unmarked page is on the disk
(`UnmarkedPagesAreSaved`), and during an update the flag is down and the pages
already passed carry no mark (`UpdateInProgress`). `IInv` is the conjunction with
`TypeOK`. The lemmas before it are the arithmetic of pages (`PageInRange`: every
block lies in one), for which the provers need division spelled out as a
quotient and a remainder. The refinement rests on `IInv`: `EndUpdate` is
`BlockPool`'s `Commit` only because the pages are exact, and every page written is
a `Store` of that page.

### Directories (`WalksProofs`, `AdfDirProofs`)

| Theorem | About |
|---|---|
| `TypeCorrect` | headers, bitmaps and the record of the last call, wherever calls are cut short |
| `DirectoriesAreSound`, `EntriesAreFound`, `TreeStaysUsed` | `TreeSound`, `ListedEntriesAreFound` and `TreeIsMarkedUsed` as long as no call has been cut short |
| `MoveChecksAreExact` | `MoveCheckIsExact`: the walk up of `move_adf_internal` meets the entry to be moved exactly when it is above the target |
| `WholeCallsAreSound` | all four in every state, when no call may be cut short: the invariants of the run `dir` |
| `NothingIsLeaked` | `SuccessLeaksNothing`: what a whole successful call takes from the free blocks is in the tree, and the other way round |
| `CallsAreANamespace` | `ImplementsNamespace`: every whole call is a step of `Namespace` or none |
| `RemovalIsSafe` | `RemoveExposesNothing` of the run `dir_faults`: a removal cut short at any write leaves no block of the tree free |
| `FormattedIsSound` | what `adfCreateVol` leaves is a volume that the others are about |

They hold for any number of blocks, names and buckets, trees of any depth and
chains of any length. The invariants speak of what is reached by following
pointers, and one write in the middle of a chain changes all that is behind it, so that
none of them is inductive. The inductive invariant says the same of single pointers
(`Threaded`). There are sets and functions: `T`, the blocks whose tables may be
followed; `L`, those that are linked; and for each of these `B`, its bucket, `Q`, a rank that
grows along the chain, and `P`, the block before it. The disk agrees with them when every
table entry is a first of its bucket, every successor a member of the same
bucket of a higher rank, every linked block comes from somewhere, and no bucket
holds a name twice. `T` is larger than the tree: it keeps removed directories and entries
that a rename has lost, because a current directory or a parent may still be one of
them. The invariant `Inv` is that such threads exist and that no linked block is free; the
lemmas `CreateThreads`, `UnlinkThreads` and `RenameThreads` give the threads after each
call, `CallKeeps` is the step. `ThreadedIsSound` and `ThreadedIsComplete` go back
from threads to walks: a chain ends because its ranks grow and there are only so many
blocks, and it meets every member of its bucket because each has one before it.

The last three theorems compare trees. `Tree` is a walk along tables and chains; from the
threads it follows that it is the least set that holds the root and, with a directory, the
linked entries that name it as their parent (`IsTree`: `TreeHoldsEntries` goes along one
chain, `TreeIsLeast` along the walk), and that what is below an entry is the least such set
around that entry (`BelowIsBelow`). So trees before and after a call are
compared by parents alone, whatever the tables look like: one block more
(`TreeWithMore`), an entry and all below it gone (`TreeWithLess`), or the same blocks
although an entry with all below it hangs elsewhere (`TreeMoved`, which needs that the new
directory is not below the entry, and that is what `MoveChecksAreExact` is about).
`CallDoes` says of every whole call that it `Makes`, `Drops`, `Moves` or `Loses` one entry,
with all that is not touched staying as it is. `Walk` has reached its closure after as many
steps as there are blocks, because each that is not the last adds one (`WalkCloses`).

Hypotheses, instead of axioms: the calls start from a threaded volume
(`SoundVolume(InitDisk)`), and, where lookups are concerned, names are hashed as they
are stored (`NamesFit`, which is what names of more than 30 characters break).
`NothingIsLeaked` and `CallsAreANamespace` ask in addition for a tree without links and with
entries in directories only (`PlainTree`), which an empty root is and which the calls keep:
nothing in the program makes a link, and behind one a creation reports success and links
nothing. All are satisfied: `FormattedIsSound` proves the first of an empty volume,
and `MCDir`, `MCDirFaults`, `MCCache` and `MCSession` have TLC evaluate
both for their volumes (`StartsSound`). That the threads of the tree are an invariant
(`TreeThreaded`, with the ranks and predecessors computed) was tried by TLC in all states
of the run `dir` before it was proved.

Induction over the length of walks and chains is done with sets of numbers (`NatInd`,
`RangeInd`, `AlongStays`), since the library's induction theorems take the
property as an operator, which the provers cannot instantiate.

### Files (`AdfFileProofs`)

| Theorem | About |
|---|---|
| `FileInvariance` | the inductive invariant `FileInv` |
| `FileTypes` | `TypesUntilLost` |
| `HandleAlwaysAgrees` | `HandleAgreesUnlessAstray`: the five positions and the two blocks in memory agree with the lists |
| `BlocksAlwaysAccounted` | `BlocksAccountedUntilLost`: blocks in use are those of the file, none of them twice |
| `ChainAlwaysAgrees` | `ChainAgreesUntilLost`: `nextData` and the lists of an OFS file name the same blocks |
| `FileIsByteFile` | `ImplementsByteFile`: every step is one of `ByteFile`, a stutter, or one that is known to damage the file |

These are all the properties of the run `file`, for volumes and blocks of any size, lists of any
length and any number of bytes, OFS and FFS; truncation, opening, closing and removal
are included, refused writes on a full volume, and every order in which the turns of the
loops meet seeks. They hold until one of the steps is taken that `Damages` names, and these
steps are what the code gets wrong (section 2).

What the properties say of a file is spread over header, extension blocks, data
blocks, the copies of three of these in memory and the pool, and is computed by following
pointers; none of the properties is inductive. `FileInv` says that the file is `lost`, or
(`SoundFile`) that there are a disk `D`
and a header `h`, those which closing would leave (`Left`), a sequence `S` of data blocks and
a sequence `E` of extension blocks, all of them different, of which five things are true:

- `Counts`: their lengths are those that `adfFileRealSize` computes from the size. The
  lemmas under *Arithmetic* turn its divisions into inequalities between products, and
  show that these determine the lengths (`CountsUnique`);
- `Chain`: header and extension blocks hold `S` in pieces of `MaxDataBlk` (`Part`), and
  each names the next extension block; for OFS, each data block names the next one;
- `Agrees`: the handle stands at one member of `S`, which is the data block in memory, with
  the extension block that has it (`ExtAt`), and the position is counted from there;
- what is not free is exactly what `S` and `E` hold;
- an open connection agrees with `D` and `h` (`Sees`).

The last is the one that the code leaves unsaid: a changed block may be in memory only,
and every function that replaces it has to save it first, which one that goes by the mark
does only if nothing has taken it off (`Unmarked`). The `Step` lemmas go through the actions: seeking by the lists
and reading on by `nextData` find the same member of `S`; overwriting changes one member's
bytes; appending puts a member behind `S`, and one behind `E` when the last list is full
(`Added`, with a case each for the first block, a block in the header, the first and a further
extension block, a pointer in one); cutting leaves the first members of both (`Cut`), and frees
the others. `BytesIs` says that `Contents` is then the bytes of the members of `S` one
after the other, by which each step is one of `ByteFile`. That the walks over the
extension blocks in `Extens` and `DataBlocksOf` give `E` and `S` is
`GatheredAlong` of `WalksProofs`: a walk whose places hold consecutive pieces of a
sequence gathers that sequence.

`FileAssumption` (block numbers are not 0 or 1, there are finitely many, sizes are positive)
is what the format says, and all that is assumed.

### Session (`AdfSessionProofs`)

`SessionInv`: the types, no cut call, memory and disk agree about free blocks, no file is
open twice and no open file's header is free; and, until a connection has overwritten a
newer header, the volume is threaded with every open file among the blocks that may be
followed. `SessionInvariance` proves it of every action, from what
`AdfDirProofs` proves of the directory calls; from it follow `SessionsAreSound`,
`OpenFilesAreKept` (which goes on after a header is overwritten), `ClosingSavesAll` and
`RefusalChangesNothing`: the four properties of the run `session`, for any number of
connections and paths of any length. The last needs a volume without links, which nothing
in the program makes: a file created behind a link in its chain takes a block and is
linked nowhere, so that the connection to it is refused. That closing the device saves
every connection (`close_adf` flushes them one after the other) rests on no file being
open twice: no write undoes another.

### Moves (`AdfMoveProofs`)

For trees of any size and depth, on either side, any number of calls, interrupted
anywhere, with any state of dangling connections; only `MoveAssumption` is assumed.

- `MovesLoseNothing` (`NothingIsLost`). Whether an entry has just been copied is
  known at its removal (`CopiedBy(Top)`), but removing a directory of the host takes
  everything in it. That there is nothing left but hidden files needs to be known of every
  activation on the stack (`NothingElse`: in a directory being moved there is only what is
  hidden, to do, or being moved by the activation above), and that sources lie below each
  other one name at a time (`Nested`), that all activations but the one on top wait in
  their items (`Waiting`), and that a copy does not disturb the source:
  copying only adds (`Grown`), and a move within one volume gets no further than
  its first entry (`Alone`).
- `SuccessMeansComplete` (`SuccessIsComplete`). To this the invariant `Complete` adds how far
  the call has come: every entry to be copied is done or ahead of some activation
  (`Ahead`), what is ahead is as it was when the call began (`Kept`),
  activations copy to the place where the copy belongs (`Placed`), and the copy of the
  source is new, so that it is not among what is still to be copied unless a directory is
  copied into itself (`New`, `AheadIsElsewhere`). When the stack is empty nothing is ahead.

Each of these parts was checked by TLC as an invariant of the run `move` first.

### Text and vectors (`AdfTextProofs`)

For files and volumes of any size, any counts, texts of any length, items of any number
of bytes and blocks of any number of items; only `TextAssumption` is assumed.

- `ReadsAreRight` (`ReadsWhatIsThere`): lines, strings and items are those of the file.
- `WritesAreRight` (`WritesItsText`): the text is in the file, or its beginning when the
  volume is full.

Both properties are about answers, and an answer is put together in many steps.
`TextInvariance` proves the invariant `TextInv`, which says of a call under way how far it
has come (`CallSound`), with a part for each kind of call:

- `LineSound`: the line under way begins behind a line end, and up to there are as many
  line ends as there are lines in the result (`LineBegan`), so that each is the next line of
  the file (`NthIs`). On a connection for writing nothing is ever read (`LineIdle`).
- `StringSound`: the strings so far, each with its nul, and the buffer behind them are the
  bytes from where the call began to the position, as long as none was too long.
- `ItemSound`: what is in the result counts as items when they are converted one by one and
  as bytes when they are read as they are; either way these are the bytes passed. The
  products are dealt with in lemmas of their own (`Products`, `LengthIsRight`).
- `WriteSound`: what has been written, followed by the pieces still to do, is the text; or
  a piece did not fit and the position is at `Capacity`.

`AnswerSound` keeps the answer right until the next call. The lemmas before these are about
`FlattenSeq` (`FlattenAppend`, `FlattenHead`), which is a recursive function and is unrolled by
the `Along` of `WalksProofs`. `TextInv` was checked by TLC in all states of the run `text`
before it was proved.

### Volumes (`AdfFormatProofs`)

For floppies, images and bitmap pages of any size, any number of formattings, writes
refused and the process ended anywhere. `FormatAssumption` is all that is assumed: images
are not shorter than mounting takes them for, a cylinder has at least six blocks, and an
image held no root block before.

- `ValidFlagIsHonest` (`ValidFlagMeansSound`). The property speaks of the disk only, and a
  formatting may run over the remains of others, with and without cache, on a device as
  long as the image or of 80 cylinders. `HomeOK` says of a root block in the place where
  mounting looks that formatting made it, and, with a valid flag, that all its pages are
  there. A step keeps it because nothing is ever written over a volume with a valid
  flag (`NothingMissed`: a device without a volume has none that mounting would find), and
  because the blocks of longer images that are written are apart from that root block
  (`RootsApart`). What has been written so far is in `NewOK` and `WrittenOK`.
- `FailuresHaveReasons` (`FailsForAReason`). There is always room for the pages
  (`RoomForPages`) and the root block read back is the one just written (`WrittenOK`), so that the
  only failure of its own is the one of mounting.
- `UnfinishedIsSafe` (`UnfinishedHandsOutNothingInUse`), for bitmaps of one page
  (`OnePage`), which all floppies have. `BlankOK`: where the page of a volume would be
  there are zeros, its own page, or something that is none. With two pages one that an
  earlier attempt with cache left may be read as another page of one without; that case
  stays with the run `format`.

The lemmas before these compute what `adfGetFreeBlocks` takes: the blocks from the root up
and around (`At`, `TurnOf`), the nearest first, by counting those that are nearer
(`NearestIs`, `RestIs`), and that the pages read back are the bitmap written (`ReadsBack`).

### Only model-checked

- Liveness (`CallsEnd`, `ReadingEnds`): fairness and `ENABLED` are out of the prover's
  reach.
- `CallsSucceed`: the room that is needed is a sum over a tree (`FoldSet`), and what a fold
  computes for every set needs an induction over data.
- `CreateAndRemoveKeepOthers` and `RenameLossIsLocal` of `AdfDir`: what can still be found
  on the images between the writes of a call, which are not threaded.
- `UnfinishedHandsOutNothingInUse` for bitmaps of two pages.
- Everything in `AdfCache`: its calls change a directory and its cache in turn, with
  each other's records, and would need the threads of `AdfDirProofs` for both.
- What recursive definitions compute for every input: the closures in `Walks` are functions
  over numbers, of which their one-step laws are proved.

## 5. Not modelled

- Formatting over a volume that something else has made: mounting finds it, so that
  `adf_dev_format` refuses (`FormatAssumption`: what an image held before is no root block).
- Several volumes on a device, hard disks, the write-protected mode.
- Directory caches outside `AdfCache`: the volumes of the other modules have none
  (`isDIRCACHE` is false). In `AdfCache` writes do not fail, and the process does not
  end within a call.
- `dataSize` of OFS blocks, dates, comments and access bits: nothing modelled
  reads them.
- Failing reads and writes inside file calls, and the fallback seek of OFS that
  only a damaged list triggers. In `AdfDir` and `AdfBitmap` writes do fail.
- Salvage (`adf_salv.c`), which no function of the package calls, and the extension
  blocks of bitmaps with more than 25 pages, which no floppy has.
- In `AdfText`: the conversion of numbers, encodings, and what a write through the
  buffer behind the end of a vector hits (`swapped` only counts).
- A flush of a file cut short between its writes: `FlushedDisk` is a single step.
- The array of `adfGetFileBlocks` that is one too short for an extension block left over
  from a refused write.
- Erasing the blocks of a removed entry (`flush = TRUE` of `adf_remove_entry`).
- The data of files in `AdfSession`, and block numbers shared by directories and
  file data.
- Several sources in one call of `copy_adf_entry` or `move_adf_entry`, copies between two
  volumes, and a destination that is not there.
- Memory: leaks; and the list `openfiles` keeping a connection that R's collector
  has freed, except in `AdfMove`.

## 6. Plan

Proofs, in order:

1. `AdfCache`: `TreeOutlivesCache`, from the threads of `AdfDirProofs`.
2. What is left of a file after the steps that `Damages` names, with an invariant that allows
   for an extension block too many.

Models: the flush of a file cut short between its writes, against the bitmap on the
disk.
