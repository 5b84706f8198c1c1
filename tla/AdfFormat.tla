----------------------------- MODULE AdfFormat -----------------------------
(***************************************************************************)
(* Making a volume on the image of a floppy (adf_dev_format, adfCreateVol) *)
(* and mounting what is on one (open_adf_, adfMountDev, adfMountFlop,      *)
(* adfMount, adfReadBitmap).                                               *)
(*                                                                         *)
(* Formatting is a fixed sequence of block writes.  Each may be refused by *)
(* the host, and the process may end between any two of them; whatever is  *)
(* on the image then is what the next session mounts, over anything that   *)
(* the image held before.  Mounting looks at the type of the root block,   *)
(* at the sums of the bitmap pages and at nothing else: not at the flag    *)
(* that says whether the pages are up to date.                             *)
(*                                                                         *)
(* A floppy has a single volume that starts at block 0.  All its pages fit *)
(* into the root block, so the extension blocks of larger bitmaps, which   *)
(* adfWriteNewBitmap and adfReadBitmap also handle, do not occur.          *)
(***************************************************************************)
EXTENDS Integers, FiniteSets, Sequences, SequencesExt

CONSTANTS Kinds,          \* the kinds of floppy, DEVTYPE_FLOPDD and DEVTYPE_FLOPHD
          Cylinders,      \* 80 in the code, what adfMountFlop takes every floppy for
          PerCylinder,    \* per kind: blocks in a cylinder, 2 * 11 and 2 * 22
          ImageCylinders, \* per kind: the lengths adfDevType accepts, in cylinders
          BlocksPerPage,  \* 127 * 32
          Leftovers       \* what the blocks of an image may hold before

\* The blocks of an image may hold anything before but the root of a volume: a
\* volume that others have made is not what formatting is about.
ASSUME FormatAssumption ==
    /\ Cylinders \in Nat \ {0} /\ BlocksPerPage \in Nat /\ BlocksPerPage > 1
    /\ \A k \in Kinds :
          /\ PerCylinder[k] \in Nat /\ PerCylinder[k] > 5
          /\ Cylinders \in ImageCylinders[k]
          /\ \A c \in ImageCylinders[k] : c \in Nat /\ c >= Cylinders
    /\ \A left \in Leftovers : left.is # "root"

VARIABLES
    kind, cyls,   \* the image: the kind of floppy, and its length in cylinders
    boot,         \* the boot block begins with "DOS"
    img,          \* the other blocks of the image
    dev,          \* the open device: its cylinders and volumes; or NoDevice
    vol,          \* its volume, as adfMount left it; or NoVolume
    pc,           \* "idle", or the write that adf_dev_format makes next
    new,          \* the volume under construction in adfCreateVol
    rc,           \* the outcome of the last call
    failed,       \* history: the writes that the host refused in it
    blank         \* history: the image was all zeros before

vars == <<kind, cyls, boot, img, dev, vol, pc, new, rc, failed, blank>>

NoDevice == [open |-> FALSE, cylinders |-> 0, nVol |-> 0]
NoVolume == [table |-> "none", free |-> {}]

\* The contents of a block.  A block of zeros is a page with no free block.
Noise == [is |-> "noise"]
Cache == [is |-> "cache"]
Page(bits) == [is |-> "page", bits |-> bits]
Root(bmPages, extension, bmFlag) ==
    [is |-> "root", bmPages |-> bmPages, extension |-> extension, bmFlag |-> bmFlag]

LastBlock(cylinders) == cylinders * PerCylinder[kind] - 1
Blocks(cylinders) == 2 .. LastBlock(cylinders)
RootBlock(cylinders) == (LastBlock(cylinders) + 1) \div 2

nBlock2bitmapSize(nBlock) ==
    (nBlock \div BlocksPerPage) + IF nBlock % BlocksPerPage # 0 THEN 1 ELSE 0
BitmapSize(cylinders) == nBlock2bitmapSize(LastBlock(cylinders) + 1 - 2)

PageOf(b) == (b - 2) \div BlocksPerPage
BitOf(b) == (b - 2) % BlocksPerPage

----------------------------------------------------------------------------
(* Mounting.                                                                *)

\* adfReadRootBlock looks at the two types only.
IsRoot(b) == img[b].is = "root"

\* Variant: pages that are not read count as free.
BlocksReadAllFree(bmPages) ==
    {b \in Blocks(Cylinders) : PageOf(b) < Len(bmPages) =>
                                   BitOf(b) \in img[bmPages[PageOf(b) + 1]].bits}

\* The table starts as zeros; each page named in the root block fills its part.
BlocksRead(bmPages) ==
    {b \in Blocks(Cylinders) : /\ PageOf(b) < Len(bmPages)
                               /\ BitOf(b) \in img[bmPages[PageOf(b) + 1]].bits}

\* A page with a bad sum ends the reading without a table.
adfReadBitmap(bmPages) ==
    IF \A i \in DOMAIN bmPages : img[bmPages[i]].is = "page"
    THEN [table |-> "read", free |-> BlocksRead(bmPages)]
    ELSE NoVolume

\* Without a boot block adfMount gives up before it reads the bitmap, which
\* open_adf_ does not look at: the volume is there, its table never set.
adfMount == IF boot THEN adfReadBitmap(img[RootBlock(Cylinders)].bmPages)
            ELSE [table |-> "unset", free |-> {}]

\* Variant: the root is looked for one block early.
adfMountFlopEarly == IsRoot(LastBlock(Cylinders) \div 2)

\* Every floppy is taken to have 80 cylinders, whatever the image has.
adfMountFlop == IsRoot(RootBlock(Cylinders))

\* Opened without looking for a volume, the device is as long as the image.
adfOpenDev == [open |-> TRUE, cylinders |-> cyls, nVol |-> 0]

\* A volume that adfMountFlop made part of the device.
WithVolume == [open |-> TRUE, cylinders |-> Cylinders, nVol |-> 1]

adfMountDev == IF adfMountFlop THEN WithVolume ELSE adfOpenDev

\* When no volume is found the device is opened without one.
open_adf ==
    /\ ~dev.open
    /\ dev' = adfMountDev
    /\ vol' = IF adfMountFlop THEN adfMount ELSE NoVolume
    /\ UNCHANGED <<kind, cyls, blank, boot, img, pc, new, rc, failed>>

\* The device is closed, or the process ends, also in the middle of a call.
Vanish ==
    /\ dev.open
    /\ dev' = NoDevice /\ vol' = NoVolume
    /\ pc' = "idle" /\ rc' = "none"
    /\ UNCHANGED <<kind, cyls, blank, boot, img, new, failed>>

----------------------------------------------------------------------------
(* Formatting.                                                              *)

\* The blocks adfGetFreeBlocks takes, in order: up from the root, around.
Turn(b) == (b - RootBlock(new.cylinders)) % (LastBlock(new.cylinders) - 1)
Nearest(free, n) ==
    [i \in 1 .. n |-> CHOOSE b \in free :
                          Cardinality({a \in free : Turn(a) < Turn(b)}) = i - 1]

\* The next write, or the end of the call.
Goes(next, cur) == pc' = next /\ new' = cur /\ UNCHANGED <<rc, failed>>
Fails == pc' = "idle" /\ rc' = "error" /\ UNCHANGED new
Writes(b, content) == img' = [img EXCEPT ![b] = content]

\* Refused at once when there is a volume already.
adf_dev_format(dircache) ==
    /\ dev.open /\ pc = "idle" /\ dev.nVol = 0
    /\ pc' = "boot" /\ rc' = "none" /\ failed' = {}
    /\ new' = [cylinders |-> dev.cylinders, dircache |-> dircache,
               free |-> {}, blkList |-> <<>>, sectList |-> <<>>, page |-> 0]
    /\ UNCHANGED <<kind, cyls, blank, boot, img, dev, vol>>

\* adfCreateBitmap frees all blocks in memory, then the root block and the
\* first cache block are taken.
WithBlkList(free) ==
    LET n == IF new.dircache THEN 2 ELSE 1 IN
    [new EXCEPT !.blkList = Nearest(free, n),
                !.free = free \ ToSet(Nearest(free, n))]

WriteBoot ==
    /\ pc = "boot"
    /\ boot' = TRUE
    /\ Goes(IF new.dircache THEN "cache" ELSE "root", WithBlkList(Blocks(new.cylinders)))
    /\ UNCHANGED <<kind, cyls, blank, img, dev, vol>>

\* What adfCreateEmptyCache returns is not looked at.
WriteCache ==
    /\ pc = "cache"
    /\ Writes(new.blkList[2], Cache)
    /\ Goes("root", new)
    /\ UNCHANGED <<kind, cyls, blank, boot, dev, vol>>

Extension == IF new.dircache THEN new.blkList[2] ELSE 0

\* Variant: the pages are not taken out of the map they will be written from.
WithSectListUntaken(n) == [new EXCEPT !.sectList = Nearest(new.free, n)]

WithSectList(n) ==
    [new EXCEPT !.sectList = Nearest(new.free, n),
                !.free = new.free \ ToSet(Nearest(new.free, n))]

\* The root block is written without pages, then adfWriteNewBitmap takes them.
WriteRoot ==
    /\ pc = "root"
    /\ Writes(new.blkList[1], Root(<<>>, Extension, "invalid"))
    /\ LET n == BitmapSize(new.cylinders) IN
       IF Cardinality(new.free) < n THEN Fails /\ UNCHANGED failed
       ELSE Goes("bmPages", WithSectList(n))
    /\ UNCHANGED <<kind, cyls, blank, boot, dev, vol>>

\* The root block read back from the disk, with the pages entered.
WriteBmPages ==
    /\ pc = "bmPages"
    /\ LET root == RootBlock(new.cylinders) IN
       IF ~IsRoot(root) THEN Fails /\ UNCHANGED <<failed, img>>
       ELSE /\ Writes(root, [img[root] EXCEPT !.bmPages = new.sectList])
            /\ Goes("invalid", new)
    /\ UNCHANGED <<kind, cyls, blank, boot, dev, vol>>

WithFlag(flag) ==
    LET root == RootBlock(new.cylinders) IN
    Writes(root, [img[root] EXCEPT !.bmFlag = flag])

\* adfUpdateBitmap; every page is marked as changed since adfCreateBitmap.
WriteInvalid ==
    /\ pc = "invalid"
    /\ WithFlag("invalid")
    /\ Goes("page", new)
    /\ UNCHANGED <<kind, cyls, blank, boot, dev, vol>>

WritePage ==
    /\ pc = "page"
    /\ LET p == new.page IN
       /\ Writes(new.sectList[p + 1], Page({BitOf(b) : b \in {x \in new.free : PageOf(x) = p}}))
       /\ Goes(IF p + 1 < Len(new.sectList) THEN "page" ELSE "valid",
               [new EXCEPT !.page = p + 1])
    /\ UNCHANGED <<kind, cyls, blank, boot, dev, vol>>

WriteValid ==
    /\ pc = "valid"
    /\ WithFlag("valid")
    /\ Goes("mount", new)
    /\ UNCHANGED <<kind, cyls, blank, boot, dev, vol>>

\* The new volume is mounted as any floppy is.  On an image longer than 80
\* cylinders its root is not where adfMountFlop looks; the device has 80
\* cylinders from then on all the same.
MountNew ==
    /\ pc = "mount"
    /\ IF adfMountFlop THEN /\ dev' = WithVolume
                            /\ vol' = adfMount
                            /\ Goes("install", new)
       ELSE /\ dev' = [dev EXCEPT !.cylinders = Cylinders]
            /\ Fails
            /\ UNCHANGED <<vol, failed>>
    /\ UNCHANGED <<kind, cyls, blank, boot, img>>

\* The boot code, then the sum of the boot block: "DOS" stays in both.
InstallBoot ==
    /\ pc = "install"
    /\ Goes("sum", new)
    /\ UNCHANGED <<kind, cyls, blank, boot, img, dev, vol>>

WriteBootSum ==
    /\ pc = "sum"
    /\ pc' = "idle" /\ rc' = "ok"
    /\ UNCHANGED <<kind, cyls, blank, boot, img, dev, vol, new, failed>>

\* The host refuses the write.  Of the boot block's two sectors the first may
\* have been written.  Two results are not looked at: the cache's and that of
\* installing the boot code.
WriteFails ==
    /\ pc \notin {"idle", "mount"}
    /\ failed' = failed \cup {pc}
    /\ CASE pc = "cache" -> pc' = "root" /\ UNCHANGED <<new, rc>>
         [] pc = "install" -> pc' = "sum" /\ UNCHANGED <<new, rc>>
         [] OTHER -> Fails
    /\ IF pc = "boot" THEN boot' \in {boot, TRUE} ELSE UNCHANGED boot
    /\ UNCHANGED <<kind, cyls, blank, img, dev, vol>>

----------------------------------------------------------------------------
Init ==
    /\ kind \in Kinds
    /\ cyls \in ImageCylinders[kind]
    /\ boot \in BOOLEAN
    /\ \E left \in Leftovers : /\ img = [b \in Blocks(cyls) |-> left]
                               /\ blank = (left = Page({}))
    /\ dev = NoDevice /\ vol = NoVolume
    /\ pc = "idle" /\ rc = "none" /\ failed = {}
    /\ new = [cylinders |-> Cylinders, dircache |-> FALSE, free |-> {},
              blkList |-> <<>>, sectList |-> <<>>, page |-> 0]

Next ==
    \/ open_adf
    \/ Vanish
    \/ \E dircache \in BOOLEAN : adf_dev_format(dircache)
    \/ WriteBoot \/ WriteCache \/ WriteRoot \/ WriteBmPages
    \/ WriteInvalid \/ WritePage \/ WriteValid
    \/ MountNew \/ InstallBoot \/ WriteBootSum
    \/ WriteFails

Spec == Init /\ [][Next]_vars
----------------------------------------------------------------------------
(* What formatting promises.                                                *)

\* The blocks that the volume on the image needs besides its files.
Structure ==
    LET root == RootBlock(Cylinders) IN
    {root} \cup ToSet(img[root].bmPages) \cup ({img[root].extension} \ {0})

\* Once the flag in the root block is valid, mounting finds a table in which
\* just the root, its pages and its cache are taken, all distinct, whatever the
\* image held before and whichever earlier calls were refused or cut short; and
\* the cache block is one, unless the host refused it.
ValidFlagMeansSound ==
    LET root == RootBlock(Cylinders) IN
    IsRoot(root) /\ img[root].bmFlag = "valid" =>
        /\ boot
        /\ adfMount = [table |-> "read", free |-> Blocks(Cylinders) \ Structure]
        /\ Cardinality(Structure) = 1 + BitmapSize(Cylinders)
                                      + IF img[root].extension = 0 THEN 0 ELSE 1
        /\ img[root].extension # 0 /\ "cache" \notin failed =>
               img[img[root].extension] = Cache

\* A session on what a formatting cut short has left never takes a block that
\* the volume itself needs for a free one, if the image was blank before: pages
\* that were named in the root block and not written yet are zeros.  (Over
\* anything else they may read as pages with any bits.)
UnfinishedHandsOutNothingInUse ==
    blank /\ vol # NoVolume => vol.free \cap Structure = {}

\* A call fails only when the host refused one of its writes, or when the image
\* is longer than the floppies that adfMountFlop knows; and in that case the
\* device is left so that the same call would succeed.
FailsForAReason ==
    [][ pc # "idle" /\ pc' = "idle" /\ rc' = "error" /\ failed' = {} =>
            /\ new.cylinders # Cylinders
            /\ dev'.nVol = 0 /\ dev'.cylinders = Cylinders ]_vars
============================================================================
