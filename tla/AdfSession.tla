----------------------------- MODULE AdfSession -----------------------------
(***************************************************************************)
(* A device as an R session uses it (src/src/open_adf_file.cpp,            *)
(* adf_file_operators.cpp, adf_file_info.cpp): calls name entries by paths *)
(* that start at the root or at the current directory, and connections to  *)
(* files stay open while other calls change the directories around them.   *)
(*                                                                         *)
(* An open connection keeps a copy of the file's header and writes it back *)
(* when it is closed.  The directory calls themselves are those of AdfDir. *)
(* Files have no data here (AdfFile has it), so that a header is its name, *)
(* parent and successor in the hash chain.                                 *)
(***************************************************************************)
EXTENDS AdfDir

CONSTANTS
    Paths,           \* the paths that callers pass: [abs, chunks]
    Replacements,    \* the names that entries are given
    MaxOpen          \* bound: connections open at a time

EmptyName == ""

ASSUME SessionAssumption ==
    /\ EmptyName \in Names
    /\ Paths \subseteq [abs : BOOLEAN, chunks : Seq(Names)]
    /\ Replacements \subseteq Range(Cut)
    /\ MaxOpen \in Nat

VARIABLES
    openfiles,   \* the connections [key, hdr, write] in the order they were opened
    curDirPtr,   \* the current directory
    overtaken,   \* a header was written back over a newer one on the disk
    did          \* the last call of the session and how it ended

sessionVars == <<openfiles, curDirPtr, overtaken, did>>
allVars == <<vars, sessionVars>>

Reports(op, rc) == did' = [op |-> op, rc |-> rc]
Ended(op) == Reports(op, IF last'.rc = "ok" THEN "ok" ELSE "error")
Fails(op) == Reports(op, "error") /\ UNCHANGED <<vars, openfiles, curDirPtr, overtaken>>

----------------------------------------------------------------------------
(* adf_path_to_entry                                                        *)

\* The block that a lookup of n in d has read last: the entry, or the end of
\* the chain, or none - then the buffer still holds d itself.
LastRead(d, n) ==
    IF adfNameToEntryBlk(disk, d, n) # NoBlock THEN adfNameToEntryBlk(disk, d, n)
    ELSE IF disk[d].ht[Hash[n]] = NoBlock THEN d
    ELSE ChainEnd(disk, d, Hash[n])

\* Where a path leads: the walk stops at the first part that is not there,
\* and what it reports of the entry is the block read last.
Places == [sector : Pointers, parent : Pointers, entry : Blocks, remainder : Names]
Exists(e) == e.sector # NoBlock

PathStep(n) == [e \in Places |->
    IF ~Exists(e) THEN e
    ELSE LET b == adfNameToEntryBlk(disk, e.sector, n)
         IN  [sector |-> b, parent |-> e.sector, entry |-> LastRead(e.sector, n),
              remainder |-> IF b = NoBlock THEN n ELSE EmptyName]]

adf_path_to_entry(path) ==
    LET start == IF path.abs THEN RootBlock ELSE curDirPtr
        len == Len(path.chunks)
    IN  Along([i \in 1 .. len |-> PathStep(path.chunks[i])],
              [sector |-> start, parent |-> NoBlock, entry |-> start, remainder |-> EmptyName],
              len)[len]

TypeAt(e) == disk[e.entry].type
NameAt(e) == disk[e.entry].name

adf_change_dir(path) ==
    LET e == adf_path_to_entry(path) IN
    IF Exists(e) /\ TypeAt(e) \in DirTypes
      THEN /\ curDirPtr' = e.sector
           /\ Reports("adf_change_dir", "ok")
           /\ UNCHANGED <<vars, openfiles, overtaken>>
      ELSE Fails("adf_change_dir")

\* The type looked at is that of the block read last.  For a path that is
\* there nothing remains to be made, and the empty name is what is made.
adf_mkdir(path) ==
    LET e == adf_path_to_entry(path) IN
    IF TypeAt(e) \notin DirTypes \/ e.parent = NoBlock THEN Fails("adf_mkdir")
    ELSE /\ adfCreateDir(e.parent, e.remainder)
         /\ Ended("adf_mkdir")
         /\ UNCHANGED <<openfiles, curDirPtr, overtaken>>

----------------------------------------------------------------------------
(* Connections                                                              *)

adf_check_file_state_first(sect) ==                         \* variant
    Len(openfiles) > 0 /\ openfiles[1].key = sect
adf_check_file_state(sect) == \E i \in DOMAIN openfiles : openfiles[i].key = sect

\* The current directory is not looked at, nor whether one is removed.
adf_remove_entry(path) ==
    LET e == adf_path_to_entry(path) IN
    IF \/ ~Exists(e) \/ TypeAt(e) = "root" \/ e.parent = NoBlock
       \/ adf_check_file_state(e.sector)
      THEN Fails("adf_remove_entry")
    ELSE /\ adfRemoveEntry(e.parent, NameAt(e))
         /\ Ended("adf_remove_entry")
         /\ UNCHANGED <<openfiles, curDirPtr, overtaken>>

\* adfFileOpen: the entry called n in d, if it is a file.
adfFileOpen(D, d, n, writable) ==
    LET b == adfNameToEntryBlk(D, d, n) IN
    IF b # NoBlock /\ D[b].type = "file"
      THEN <<[key |-> b, hdr |-> D[b], write |-> writable]>>
      ELSE <<>>

\* adfFileOpen looks in the current directory, which has been set to this one.
DirToOpenUnset(e) == curDirPtr                              \* variant
DirToOpen(e) == e.parent

\* A path that is there is opened as it is; for one that is not, a writable
\* connection makes the part at which the walk stopped.  When that fails, the
\* call ends with the current directory changed.
adf_file_con_(path, writable) ==
    LET e == adf_path_to_entry(path)
        name == IF Exists(e) THEN NameAt(e) ELSE e.remainder
        opened == adfFileOpen(disk', DirToOpen(e), name, writable)
    IN
    IF \/ ~writable /\ (~Exists(e) \/ TypeAt(e) # "file")
       \/ Exists(e) /\ adf_check_file_state(e.sector)
       \/ e.parent = NoBlock
      THEN Fails("adf_file_con")
    ELSE /\ IF Exists(e) THEN UNCHANGED vars ELSE adfCreateFile(e.parent, e.remainder)
         /\ IF ~Exists(e) /\ last'.rc # "ok"
              THEN /\ curDirPtr' = e.parent
                   /\ Reports("adf_file_con", "error")
                   /\ UNCHANGED openfiles
              ELSE /\ openfiles' = openfiles \o opened
                   /\ Reports("adf_file_con", IF opened = <<>> THEN "error" ELSE "ok")
                   /\ UNCHANGED curDirPtr
         /\ UNCHANGED overtaken

\* flush_adffile_internal: a writable connection writes its header back, and
\* the bitmap with it.
FlushedAlways(D, c) == [D EXCEPT ![c.key] = c.hdr]          \* variant
Flushed(D, c) == IF c.write THEN [D EXCEPT ![c.key] = c.hdr] ELSE D

Overtakes(c) == c.write /\ disk[c.key] # c.hdr

BitmapSaved(cs) == IF \E i \in DOMAIN cs : cs[i].write THEN free ELSE diskFree

adf_close_file_con(i) ==
    LET c == openfiles[i] IN
    /\ disk' = Flushed(disk, c)
    /\ diskFree' = BitmapSaved(<<c>>)
    /\ openfiles' = SubSeq(openfiles, 1, i - 1) \o SubSeq(openfiles, i + 1, Len(openfiles))
    /\ overtaken' = (overtaken \/ Overtakes(c))
    /\ Reports("adf_close_file_con", "ok")
    /\ UNCHANGED <<free, last, cut, curDirPtr>>

\* Seeking away from a block that was written to flushes the file as well.
seek_adf(i) ==
    LET c == openfiles[i] IN
    /\ c.write
    /\ disk' = Flushed(disk, c)
    /\ diskFree' = BitmapSaved(<<c>>)
    /\ overtaken' = (overtaken \/ Overtakes(c))
    /\ Reports("seek_adf", "ok")
    /\ UNCHANGED <<free, last, cut, openfiles, curDirPtr>>

\* The open files of the device, from the last to the first.
AllFlushedForwards(D, cs) ==                                \* variant
    LET step(i) == [E \in [Blocks -> Headers] |-> IF i % 2 = 1 THEN Flushed(E, cs[i]) ELSE E]
    IN  Along([i \in 1 .. Len(cs) |-> step(i)], D, Len(cs))[Len(cs)]
AllFlushed(D, cs) ==
    LET step(i) == [E \in [Blocks -> Headers] |-> Flushed(E, cs[Len(cs) + 1 - i])]
    IN  Along([i \in 1 .. Len(cs) |-> step(i)], D, Len(cs))[Len(cs)]

\* The device is closed and connected again: the bitmap comes from the disk,
\* and the current directory is the root.
close_adf ==
    /\ disk' = AllFlushed(disk, openfiles)
    /\ diskFree' = BitmapSaved(openfiles)
    /\ free' = diskFree'
    /\ openfiles' = <<>>
    /\ curDirPtr' = RootBlock
    /\ overtaken' = (overtaken \/ \E i \in DOMAIN openfiles : Overtakes(openfiles[i]))
    /\ Reports("close_adf", "ok")
    /\ last' = Mounted
    /\ UNCHANGED cut

\* The process ends, or the device is collected as garbage while connections
\* are open (freeAdfContainer), and is connected again: nothing is flushed.
Vanish ==
    /\ Reconnect
    /\ openfiles' = <<>>
    /\ curDirPtr' = RootBlock
    /\ Reports("mount", "ok")
    /\ UNCHANGED overtaken

----------------------------------------------------------------------------
(* adf_set_entry_name_, for a path and for a connection                     *)

\* Whether the path is there is not asked: the name and the type are those of
\* the block read last.  For the root the name of the volume is changed; a path
\* without a parent makes adfRenameEntry read block -1.
SetEntryName(path, new) ==
    LET e == adf_path_to_entry(path) IN
    IF TypeAt(e) = "root"
      THEN /\ new # EmptyName
           /\ disk' = [disk EXCEPT ![RootBlock].name = new]
           /\ last' = Returned("rename", RootBlock, NameAt(e), "ok")
           /\ Reports("adf_set_entry_name_", "ok")
           /\ UNCHANGED <<free, diskFree, cut, openfiles, curDirPtr, overtaken>>
    ELSE IF e.parent = NoBlock THEN Fails("adf_set_entry_name_")
    ELSE /\ adfRenameEntry(e.parent, NameAt(e), e.parent, new)
         /\ Ended("adf_set_entry_name_")
         /\ UNCHANGED <<openfiles, curDirPtr, overtaken>>

\* Through a connection: the name in the copy is changed as well, its
\* successor in the chain is not.
SetConnectionName(i, new) ==
    LET h == openfiles[i].hdr IN
    /\ adfRenameEntry(h.parent, h.name, h.parent, new)
    /\ openfiles' = IF last'.rc = "ok" THEN [openfiles EXCEPT ![i].hdr.name = new]
                                       ELSE openfiles
    /\ Ended("adf_set_entry_name_")
    /\ UNCHANGED <<curDirPtr, overtaken>>

SessionInit ==
    /\ Init
    /\ openfiles = <<>>
    /\ curDirPtr = RootBlock
    /\ overtaken = FALSE
    /\ did = [op |-> "mount", rc |-> "ok"]

\* Once a header has been overtaken chains may run in circles, in which a
\* lookup never ends: the session is not followed any further.
SessionCall ==
    \/ \E path \in Paths :
          \/ adf_change_dir(path) \/ adf_mkdir(path) \/ adf_remove_entry(path)
          \/ \E new \in Replacements : SetEntryName(path, new)
          \/ \E writable \in BOOLEAN :
                Len(openfiles) < MaxOpen /\ adf_file_con_(path, writable)
    \/ \E i \in DOMAIN openfiles :
          \/ adf_close_file_con(i) \/ seek_adf(i)
          \/ \E new \in Replacements : SetConnectionName(i, new)
    \/ close_adf

SessionNext == (~overtaken /\ SessionCall) \/ Vanish

SessionSpec == SessionInit /\ [][SessionNext]_allVars
----------------------------------------------------------------------------
(* Properties.                                                              *)

\* However paths lead through files, missing entries and removed directories,
\* and whatever is renamed, made and removed around open connections: as long
\* as no connection has written its header back over a newer one, the tree is
\* sound, every entry is found, and no block of it is free.
SoundUntilOvertaken ==
    ~overtaken => TreeSound /\ ListedEntriesAreFound /\ TreeIsMarkedUsed

\* No two connections are open to one file (openfiles, adf_check_file_state),
\* and the header of an open file is never free for another entry to take.
OpenFilesKeepTheirBlocks ==
    /\ \A i, j \in DOMAIN openfiles : openfiles[i].key = openfiles[j].key => i = j
    /\ \A i \in DOMAIN openfiles : openfiles[i].key \notin free

\* "Any adf_file_con still open when its parent adf_device is closed, will
\* automatically be closed": none is left out, whatever the order.
AllConnectionsSaved ==
    [][did'.op = "close_adf" =>
         /\ openfiles' = <<>>
         /\ \A i \in DOMAIN openfiles :
              openfiles[i].write => disk'[openfiles[i].key] = openfiles[i].hdr]_allVars

\* A connection that is refused has changed nothing on the disk, neither made
\* an entry nor taken a block.  In a current directory that has been removed it
\* may: the file's header can land on the block of the directory itself.
RefusedOpenChangesNothing ==
    [][did' = [op |-> "adf_file_con", rc |-> "error"] /\ curDirPtr \in Dirs(disk)
         => UNCHANGED <<disk, free, diskFree>>]_allVars

\* Closing a connection takes no entry out of the volume.
ClosingKeepsEntries ==
    [][did'.op = "adf_close_file_con" => Tree(disk) \subseteq Tree(disk')]_allVars
=============================================================================
