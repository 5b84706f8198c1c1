------------------------------ MODULE AdfMove ------------------------------
(***************************************************************************)
(* Copying and moving trees (src/R/move.R): between the file system of the *)
(* host and a volume, or within a volume.  The R functions call themselves *)
(* for everything in a directory; a move removes an entry right after its  *)
(* copy.  They are modelled with an explicit stack.  Between any two calls *)
(* of the package the user may interrupt them, and the garbage collector   *)
(* may run.                                                                *)
(*                                                                         *)
(* A file system maps paths, sequences of names, to entries.  Of AdfDir    *)
(* and AdfFile only what decides about success is left: names that are     *)
(* taken, blocks, and connections that are open.                           *)
(***************************************************************************)
EXTENDS Integers, SequencesExt

CONSTANTS
    Names,
    Fold,         \* name -> the name as adfNameToEntryBlk compares it
    Hash,         \* name -> the bucket it hangs in
    AmigaName,    \* name -> name, .sanitise_name_amiga
    HostName,     \* name -> name, .sanitise_name_nonamiga
    VolumeName,   \* the name of the volume
    OneChar,      \* the names of one character
    Hidden,       \* the names that list.files leaves out
    Contents,     \* what can be in a file
    Capacity,     \* the blocks of the volume
    InitHost, InitVolume,
    MaxCalls      \* bound: calls of copy_adf_entry and move_adf_entry

\* A file system is a tree: its entries are in directories.
Directory == [kind |-> "dir", content |-> "-", blocks |-> 0]
Root == <<>>
IsTree(t) ==
    /\ Root \in DOMAIN t /\ t[Root] = Directory
    /\ DOMAIN t \subseteq Seq(Names)
    /\ \A p \in DOMAIN t :
          /\ t[p] = Directory \/ t[p].kind = "file"
          /\ \A i \in 0 .. Len(p) - 1 :
                SubSeq(p, 1, i) \in DOMAIN t /\ t[SubSeq(p, 1, i)] = Directory

ASSUME MoveAssumption ==
    /\ VolumeName \in Names
    /\ AmigaName \in [Names -> Names] /\ HostName \in [Names -> Names]
    /\ IsTree(InitHost) /\ IsTree(InitVolume)

VARIABLES
    fs,        \* "host", "volume" -> path -> entry
    open,      \* files with a connection that nobody closes any more
    dangling,  \* openfiles has a connection that the collector has freed
    call,      \* the call that runs or was the last to run
    stack,     \* the activations of .move_char_vp, .move_vp_vp or .move_vp_char
    outcome,   \* how the call ended
    before,    \* history: fs when it began
    held,      \* history: the connections when it began
    short,     \* history: the files whose copies are cut short; writeBin warns
    calls      \* the calls so far

vars == <<fs, open, dangling, call, stack, outcome, before, held, short, calls>>

Devices == {"host", "volume"}
File(c, blocks) == [kind |-> "file", content |-> c, blocks |-> blocks]

NoCall == [delete |-> FALSE, from |-> "host", to |-> "volume", src |-> Root, dst |-> Root,
           bare |-> "neither"]
Frame(src, dst) == [src |-> src, dst |-> dst, at |-> "start", into |-> Root, todo |-> {}]

Blocks(p, e) == IF p = Root THEN 0 ELSE 1 + e.blocks
BlocksOf(t) == FoldSet(LAMBDA p, n : n + Blocks(p, t[p]), 0, DOMAIN t)
FreeBlocks == Capacity - BlocksOf(fs["volume"])

----------------------------------------------------------------------------
(* Calls of the package and of R's file functions.                          *)

Below(t, d) == {p \in DOMAIN t : IsStrictPrefix(d, p)}
InDir(t, d) == {p \in Below(t, d) : Len(p) = Len(d) + 1}
Same(dev, m, n) == IF dev = "volume" THEN Fold[m] = Fold[n] ELSE m = n

\* adf_file_exists, adf_dir_exists, file.exists
Taken(dev, path) == \E p \in InDir(fs[dev], Front(path)) : Same(dev, Last(p), Last(path))

\* list_adf_entries and list.files, which leaves out hidden files.
Listed(t, dev, d) ==
    {Last(p) : p \in InDir(t, d)} \ (IF dev = "host" THEN Hidden ELSE {})

Added(t, path, e) == [p \in DOMAIN t \cup {path} |-> IF p = path THEN e ELSE t[p]]
With(path, e) == [fs EXCEPT ![call.to] = Added(@, path, e)]
Without(paths) == [fs EXCEPT ![call.from] = [p \in DOMAIN @ \ paths |-> @[p]]]

\* adf_check_file_state: is there a connection to this file?  What a freed
\* connection in the list looks like nobody knows.
MaySeemOpenAny(path) == open # {} \/ dangling                \* variant
MaySeemOpen(path) == path \in open \/ dangling
MaySeemClosed(path) == path \notin open

\* The last entry in the chain of a new entry's bucket.
Tails(path) == {p \in InDir(fs["volume"], Front(path)) : Hash[Last(p)] = Hash[Last(path)]}

\* make_adf_dir needs a block, and takes the end of the chain for the parent: a
\* file there makes it fail.  dir.create only needs the name.
MayFailToMake(path) ==
    call.to = "volume" /\ (FreeBlocks = 0 \/ \E p \in Tails(path) : fs["volume"][p].kind = "file")
MaySucceedToMake(path) ==
    call.to = "volume" =>
        FreeBlocks > 0 /\ (Tails(path) = {} \/ \E p \in Tails(path) : fs["volume"][p].kind = "dir")

----------------------------------------------------------------------------
(* The steps of a call.  f is the activation on top of the stack.           *)

Top == Last(stack)
Goes(f) == stack' = Append(Front(stack), f)
Ends(how) == stack' = <<>> /\ outcome' = how
Returns == IF Len(stack) = 1 THEN Ends("ok") ELSE stack' = Front(stack) /\ UNCHANGED outcome

Fails == Ends("error") /\ UNCHANGED <<fs, open, short>>

Base(path) == IF path = Root THEN VolumeName ELSE Last(path)

\* The names of copies.  Within a volume directories keep theirs.
DirName(path) == CASE call.from = "host" -> AmigaName[Base(path)]
                   [] call.to = "host" -> HostName[Base(path)]
                   [] OTHER -> Base(path)
FileName(path) == IF call.to = "host" THEN HostName[Base(path)] ELSE AmigaName[Base(path)]
CopyName(t, path) == IF t[path].kind = "dir" THEN DirName(path) ELSE FileName(path)
Into(f) == Append(f.dst, CopyName(fs[call.from], f.src))

\* The paths of the call itself are full ones, or bare names in the current
\* directory; those of the calls within it are full ones.
IsBare(side) == Len(stack) = 1 /\ call.bare = side
IsOneChar == \/ IsBare("source") /\ Last(call.src) \in OneChar
             \/ IsBare("destination") /\ Last(call.dst) \in OneChar

\* move_adf_internal, for moves within a volume: it counts the characters of its
\* arguments, and then looks for the source above the destination (AdfDir).
RefusesMove(f) ==
    /\ call.delete /\ call.from = call.to
    /\ ~IsOneChar \/ f.src = Root \/ IsPrefix(f.src, f.dst)

\* The new directory is made, and then the old one listed.
EnterDirRetry(f, path) ==                                   \* variant
    /\ ~Taken(call.to, path) => ~MayFailToMake(path) \/ MaySucceedToMake(path)
    /\ IF Taken(call.to, path) THEN UNCHANGED <<fs, open, short, stack, outcome>>
       ELSE fs' = With(path, Directory)
            /\ Goes([f EXCEPT !.at = "items", !.into = path, !.todo = Listed(fs'[call.from], call.from, f.src)])
            /\ UNCHANGED <<open, short, outcome>>
EnterDir(f, path) ==
    \/ Taken(call.to, path) /\ Fails
    \/ ~Taken(call.to, path) /\ MayFailToMake(path) /\ Fails
    \/ /\ ~Taken(call.to, path) /\ MaySucceedToMake(path)
       /\ fs' = With(path, Directory)
       /\ Goes([f EXCEPT !.at = "items", !.into = path, !.todo = Listed(fs'[call.from], call.from, f.src)])
       /\ UNCHANGED <<open, short, outcome>>

NextItemOnce(f) ==                                          \* variant
    /\ \/ \E n \in f.todo :
             stack' = Append(Append(Front(stack), [f EXCEPT !.todo = {}]),
                             Frame(Append(f.src, n), f.into))
       \/ f.todo = {} /\ Goes([f EXCEPT !.at = "remove"])
    /\ UNCHANGED <<fs, open, short, outcome>>
NextItem(f) ==
    /\ \/ \E n \in f.todo :
             stack' = Append(Append(Front(stack), [f EXCEPT !.todo = @ \ {n}]),
                             Frame(Append(f.src, n), f.into))
       \/ f.todo = {} /\ Goes([f EXCEPT !.at = "remove"])
    /\ UNCHANGED <<fs, open, short, outcome>>

\* basename does not take the name of the volume off the path of a file in the
\* root, and a name with a colon is refused.
CannotBeNamed(path) ==
    call.from = "volume" /\ call.to = "volume" /\ Len(path) = 1 /\ ~IsBare("source")

\* .write_to_virtual and .write_data: what does not fit is left out, with a
\* warning; the connection of an empty file is not closed.
Fitting(e) == IF e.blocks < FreeBlocks THEN e.blocks ELSE FreeBlocks - 1
Written(f, path, e) ==
    /\ fs' = With(path, File(e.content, IF call.to = "volume" THEN Fitting(e) ELSE e.blocks))
    /\ open' = IF call.to = "volume" /\ e.blocks = 0 THEN open \cup {path} ELSE open
    /\ short' = IF fs'[call.to][path] = e THEN short ELSE short \cup {f.src}
    /\ Goes([f EXCEPT !.at = "remove"])
    /\ UNCHANGED outcome

WriteFileOver(f, path, e) ==                                \* variant
    \/ call.to = "volume" /\ (FreeBlocks = 0 \/ dangling) /\ Fails
    \/ (call.to = "volume" => FreeBlocks > 0) /\ Written(f, path, e)
WriteFile(f, path, e) ==
    \/ Taken(call.to, path) /\ Fails
    \/ call.to = "volume" /\ (FreeBlocks = 0 \/ dangling) /\ Fails
    \/ ~Taken(call.to, path) /\ (call.to = "volume" => FreeBlocks > 0) /\ Written(f, path, e)

CopyFile(f, path) ==
    \/ call.from = "volume" /\ MaySeemOpen(f.src) /\ Fails
    \/ CannotBeNamed(f.src) /\ Fails
    \/ /\ call.from = "volume" => MaySeemClosed(f.src)
       /\ ~CannotBeNamed(f.src)
       /\ WriteFile(f, path, fs[call.from][f.src])

Start(f) ==
    IF RefusesMove(f) THEN Fails
    ELSE IF fs[call.from][f.src].kind = "dir" THEN EnterDir(f, Into(f))
    ELSE CopyFile(f, Into(f))

\* unlink(recursive = TRUE) takes everything that is left; adf_remove_entry only
\* files without a connection and empty directories.
RemoveFromHost(f) ==
    /\ fs' = Without({f.src} \cup Below(fs["host"], f.src))
    /\ Returns
    /\ UNCHANGED <<open, short>>
RemoveFromVolume(f) ==
    \/ (MaySeemOpen(f.src) \/ Below(fs["volume"], f.src) # {}) /\ Fails
    \/ /\ MaySeemClosed(f.src) /\ Below(fs["volume"], f.src) = {}
       /\ fs' = Without({f.src})
       /\ Returns
       /\ UNCHANGED <<open, short>>

RemoveSource(f) ==
    IF ~call.delete \/ (call.from = "volume" /\ f.src = Root)
      THEN Returns /\ UNCHANGED <<fs, open, short>>
    ELSE IF call.from = "host" THEN RemoveFromHost(f)
    ELSE RemoveFromVolume(f)

Step ==
    /\ stack # <<>>
    /\ \/ Top.at = "start" /\ Start(Top)
       \/ Top.at = "items" /\ NextItem(Top)
       \/ Top.at = "remove" /\ RemoveSource(Top)
    /\ UNCHANGED <<dangling, call, before, held, calls>>

----------------------------------------------------------------------------
(* What the user and R do.                                                  *)

DirsOf(dev) == {p \in DOMAIN fs[dev] : fs[dev][p].kind = "dir"}

\* copy_adf_entry (or move_adf_entry, with delete) of an entry that is there to a
\* directory that is there.  The host's root stands for its working directory.
Call(delete, from, to, src, dst, bare) ==
    /\ stack = <<>> /\ calls < MaxCalls
    /\ from = "volume" \/ to = "volume"
    /\ from = "host" => src # Root
    /\ bare = "neither" \/ (from = to /\ Root # IF bare = "source" THEN src ELSE dst)
    /\ call' = [delete |-> delete, from |-> from, to |-> to, src |-> src, dst |-> dst,
                bare |-> bare]
    /\ stack' = <<Frame(src, dst)>>
    /\ outcome' = "running"
    /\ before' = fs
    /\ held' = [open |-> open, dangling |-> dangling]
    /\ short' = {}
    /\ calls' = calls + 1
    /\ UNCHANGED <<fs, open, dangling>>

\* Also between opening a file and reading or writing it: the connection is then
\* left open, and the file that it made is empty.
InterruptReading(f) ==
    /\ call.from = "volume" /\ MaySeemClosed(f.src)
    /\ open' = open \cup {f.src} /\ UNCHANGED fs
InterruptWriting(f, path) ==
    /\ call.from = "volume" => MaySeemClosed(f.src)
    /\ ~CannotBeNamed(f.src) /\ ~Taken(call.to, path)
    /\ call.to = "volume" => FreeBlocks > 0
    /\ fs' = With(path, File(fs[call.from][f.src].content, 0))
    /\ open' = IF call.to = "volume" THEN open \cup {path} ELSE open
InterruptFile(f) ==
    /\ f.at = "start" /\ fs[call.from][f.src].kind = "file"
    /\ InterruptReading(f) \/ InterruptWriting(f, Into(f))

Interrupt ==
    /\ stack # <<>>
    /\ UNCHANGED <<fs, open>> \/ InterruptFile(Top)
    /\ Ends("interrupted")
    /\ UNCHANGED <<dangling, call, before, held, short, calls>>

\* The finalizer adfFileClose frees the connection and leaves it in openfiles.
Collect ==
    /\ open # {}
    /\ open' = {} /\ dangling' = TRUE
    /\ UNCHANGED <<fs, call, stack, outcome, before, held, short, calls>>

Init ==
    /\ fs = [d \in Devices |-> IF d = "host" THEN InitHost ELSE InitVolume]
    /\ open = {} /\ dangling = FALSE
    /\ call = NoCall /\ stack = <<>> /\ outcome = "none"
    /\ before = fs /\ held = [open |-> {}, dangling |-> FALSE] /\ short = {}
    /\ calls = 0

Next ==
    \/ Step \/ Interrupt \/ Collect
    \/ \E delete \in BOOLEAN, from, to \in Devices :
          \E src \in DOMAIN fs[from], dst \in DirsOf(to),
             bare \in {"neither", "source", "destination"} : Call(delete, from, to, src, dst, bare)

\* R goes on with a call until it ends.
Spec == Init /\ [][Next]_vars /\ WF_vars(Step)
----------------------------------------------------------------------------
(* Properties.                                                              *)

\* A step of a call changes no entry and removes none, except the one that it
\* has just copied - under the right name, and completely if it is a file, unless
\* the copy of just this file was cut short - and with a directory of the host what
\* is hidden in it.  (The two exceptions are losses; see CutShortIsKept.)
HiddenBelow(d, path) ==
    call.from = "host" /\ IsStrictPrefix(d, path) /\ \E i \in Len(d) + 1 .. Len(path) : path[i] \in Hidden
CopiedBy(f) ==
    fs[call.from][f.src].kind = "file" =>
        /\ Into(f) \in DOMAIN fs[call.to]
        /\ f.src \in short \/ fs[call.to][Into(f)] = fs[call.from][f.src]
NothingIsLost ==
    [][\A dev \in Devices : \A p \in DOMAIN fs[dev] :
         \/ p \in DOMAIN fs'[dev] /\ fs'[dev][p] = fs[dev][p]
         \/ /\ call.delete /\ dev = call.from
            /\ HiddenBelow(Top.src, p) \/ (p = Top.src /\ CopiedBy(Top))]_vars

\* The entries to be copied, and where the copy of each ends up.
Sources == {p \in DOMAIN before[call.from] : IsPrefix(call.src, p) /\ ~HiddenBelow(call.src, p)}
Copied(path) ==
    call.dst \o [i \in 1 .. Len(path) - Len(call.src) + 1 |->
                   CopyName(before[call.from], SubSeq(path, 1, Len(call.src) + i - 1))]

\* A call that ends without error has copied everything below the source to its
\* place, with its contents but for the files that it has warned about, and a move
\* has left nothing behind.
IsCopied(p) ==
    /\ Copied(p) \in DOMAIN fs[call.to]
    /\ p \in short \/ fs[call.to][Copied(p)] = before[call.from][p]
SuccessIsComplete ==
    outcome = "ok" =>
        /\ \A p \in Sources : IsCopied(p)
        /\ call.delete => \A p \in DOMAIN fs[call.from] \ {Root} : ~IsPrefix(call.src, p)

\* What can make a call fail: the volume is too small, ...
RoomNeeded == FoldSet(LAMBDA p, n : n + 1 + before[call.from][p].blocks, 0, Sources)
TooSmall == call.to = "volume" /\ RoomNeeded > Capacity - BlocksOf(before["volume"])

\* ... a name is taken, or two entries would get the same one, ...
SamePath(dev, p, q) == Len(p) = Len(q) /\ \A i \in DOMAIN p : Same(dev, p[i], q[i])
Collides ==
    \E p \in Sources :
        \/ \E q \in Sources \ {p} : SamePath(call.to, Copied(p), Copied(q))
        \/ \E q \in DOMAIN before[call.to] : SamePath(call.to, Copied(p), q)

\* ... a directory would share its bucket with a file that is there before it, ...
BehindFile ==
    call.to = "volume" /\
    \E p \in Sources :
        /\ before[call.from][p].kind = "dir"
        /\ \E q \in {q \in DOMAIN before["volume"] : before["volume"][q].kind = "file"}
                 \cup {Copied(q) : q \in {q \in Sources : before[call.from][q].kind = "file"}} :
              Front(q) = Front(Copied(p)) /\ Hash[Last(q)] = Hash[Last(Copied(p))]

\* ... a directory would be copied into itself, ...
IntoItself == call.from = call.to /\ IsPrefix(call.src, call.dst)

\* ... a file is in the root, or has a connection, ...
Unnamed ==
    /\ call.from = "volume" /\ call.to = "volume"
    /\ \E p \in Sources : /\ Len(p) = 1 /\ before["volume"][p].kind = "file"
                         /\ p = call.src => call.bare # "source"
Connected == held.dangling \/ (call.from = "volume" /\ held.open \cap Sources # {})

\* ... or something is to be moved within the volume, and it is not just a file
\* or an empty directory with one of the two paths a single character.  (The
\* documentation excludes no such move: R/move.R:9-10.)
Internal ==
    /\ call.delete /\ call.from = call.to
    /\ \/ Sources # {call.src}
       \/ /\ call.bare = "source" => Last(call.src) \notin OneChar
          /\ call.bare = "destination" => Last(call.dst) \notin OneChar

\* All these can be told before the call begins.  What cannot is whether the
\* collector runs meanwhile.  It frees a connection that nobody closes any more:
\* one that there was before, or that of an empty file copied to the volume.
Collected ==
    /\ dangling
    /\ \/ held.open # {}
       \/ /\ call.to = "volume"
          /\ \E p \in Sources : before[call.from][p].kind = "file" /\ before[call.from][p].blocks = 0

Excused == TooSmall \/ Collides \/ BehindFile \/ IntoItself \/ Unnamed \/ Connected \/ Collected

\* A call fails for one of these reasons and for no other.
CallsSucceed == outcome = "error" => Excused \/ Internal

\* Every call ends - also the copy of a directory into itself, which makes what
\* it copies next, until the volume is full.
CallsEnd == stack # <<>> ~> stack = <<>>

----------------------------------------------------------------------------
(* What the documentation says, and the code does not keep.                 *)

\* "With `copy_adf_entry()` the files are duplicated, with `move_adf_entry()` the
\* files are moved (and deleted from its source)" (R/move.R).  A file that the
\* volume has no room for is cut short, and deleted.
CutShortIsKept ==
    [][\A p \in DOMAIN fs["host"] \ DOMAIN fs'["host"] :
         p = Top.src /\ fs["host"][p].kind = "file" => fs["volume"][Into(Top)] = fs["host"][p]]_vars

=============================================================================
