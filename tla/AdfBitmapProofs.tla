-------------------------- MODULE AdfBitmapProofs --------------------------
(***************************************************************************)
(* Theorems about AdfBitmap, for every geometry of the volume.             *)
(***************************************************************************)
EXTENDS AdfBitmap, TLAPS

\* What division and remainder by a positive number return.
LEMMA DivMod ==
  ASSUME NEW K \in Nat, K > 0, NEW n \in Nat
  PROVE  /\ n \div K \in Int
         /\ n % K \in 0 .. K - 1
         /\ n = K * (n \div K) + (n % K)
<1>1. n \div K \in Int
  BY SMT
<1>2. n % K \in 0 .. K - 1
  BY SMT
<1>3. n = K * (n \div K) + (n % K)
  BY SMT
<1>4. QED
  BY <1>1, <1>2, <1>3

\* Quotients are ordered as the numbers are.
LEMMA QuotientOrder ==
  ASSUME NEW K \in Int, K > 0, NEW p \in Int, NEW q \in Int,
         NEW r \in 0 .. K - 1, NEW s \in 0 .. K - 1,
         K * p + r < K * q + s
  PROVE  p <= q /\ (s = 0 => p < q)
<1>1. p <= q
  BY SMT
<1>2. ASSUME s = 0 PROVE p < q
  BY <1>2, SMT
<1>3. QED
  BY <1>1, <1>2

\* The quotient of a natural number is one.
LEMMA QuotientIsNat ==
  ASSUME NEW K \in Nat, K > 0, NEW n \in Nat
  PROVE  n \div K \in Nat
<1>1. /\ n \div K \in Int /\ n % K \in 0 .. K - 1
      /\ n = K * (n \div K) + (n % K)
  BY DivMod
<1>2. K * 0 + 0 < K * ((n \div K) + 1) + 0
  BY <1>1, SMT
<1>3. 0 < (n \div K) + 1
  BY <1>1, <1>2, QuotientOrder
<1>4. QED
  BY <1>1, <1>3

\* The number of pages is a number.
LEMMA NPagesIsNat == NPages \in Nat
<1>1. /\ BlocksPerPage \in Nat /\ BlocksPerPage > 0
      /\ LastBlock + 1 - 2 \in Nat
  BY GeometryAssumption
<1>2. (LastBlock + 1 - 2) \div BlocksPerPage \in Nat
  BY <1>1, QuotientIsNat
<1>3. QED
  BY <1>2 DEF NPages, nBlock2bitmapSize

\* Every block's bit lies in a page that nBlock2bitmapSize counted: the index
\* adfSetBlockFree and adfIsBlockFree compute stays inside bitmapTable.
LEMMA PageInRange == \A b \in Blocks : PageOf(b) \in Pages
<1> SUFFICES ASSUME NEW b \in Blocks
             PROVE  PageOf(b) \in Pages
  OBVIOUS
<1> DEFINE K == BlocksPerPage
           n == LastBlock + 1 - 2
           x == b - 2
<1>1. K \in Nat /\ K > 0 /\ n \in Nat /\ x \in Nat /\ x < n
  BY GeometryAssumption DEF Blocks
<1> HIDE DEF K, n, x
<1>2. /\ n \div K \in Int /\ n % K \in 0 .. K - 1
      /\ n = K * (n \div K) + (n % K)
  BY <1>1, DivMod
<1>3. /\ x \div K \in Int /\ x % K \in 0 .. K - 1
      /\ x = K * (x \div K) + (x % K)
  BY <1>1, DivMod
<1>4. x \div K <= n \div K /\ (n % K = 0 => x \div K < n \div K)
  <2>1. K * (x \div K) + (x % K) < K * (n \div K) + (n % K)
    BY <1>1, <1>2, <1>3
  <2>2. QED
    BY <1>1, <1>2, <1>3, <2>1, QuotientOrder
<1>5. x \div K >= 0
  BY <1>1, QuotientIsNat
<1>6. NPages = (n \div K) + IF n % K # 0 THEN 1 ELSE 0
  BY DEF NPages, nBlock2bitmapSize, n, K
<1>7. PageOf(b) = x \div K
  BY DEF PageOf, x, K
<1>8. QED
  BY <1>2, <1>3, <1>4, <1>5, <1>6, <1>7 DEF Pages

\* The pages cover the blocks: what the pages of a table hold is the table.
LEMMA PagesCoverTable ==
  ASSUME NEW T \in SUBSET Blocks
  PROVE  UNION {T \cap PageBlocks(p) : p \in Pages} = T
BY PageInRange DEF PageBlocks

\* Everything the disk records is a block.
LEMMA OnDiskBlocks == TypeOK => OnDisk \subseteq Blocks /\ Free \subseteq Blocks
BY DEF TypeOK, OnDisk, Free, PageBlocks

----------------------------------------------------------------------------
(* The inductive invariant.  ValidMeansSaved alone is not inductive: that   *)
(* EndUpdate raises the flag over exact pages needs the marks to be right   *)
(* (UnmarkedPagesAreSaved) and all of them to be gone by then               *)
(* (UpdateInProgress); that a page is only written under a lowered flag     *)
(* needs UpdateInProgress as well.                                          *)
IInv == /\ TypeOK
        /\ UnmarkedPagesAreSaved
        /\ UpdateInProgress
        /\ ValidMeansSaved

\* The freshly mounted volume satisfies the invariant.
LEMMA InitIInv == Init => IInv
<1> SUFFICES ASSUME Init PROVE IInv
  OBVIOUS
<1> PICK free \in SUBSET (Blocks \ {RootBlock}) :
        /\ bitmapSize = NPages
        /\ bitmapTable = free
        /\ bitmapBlocksChg = [p \in Pages |-> FALSE]
        /\ bmPages = [p \in Pages |-> free \cap PageBlocks(p)]
        /\ bmFlag = "valid"
        /\ pc = "idle" /\ page = 0
        /\ rc = "ok"
        /\ saved = free
  BY DEF Init
<1>1. NPages \in Nat
  BY NPagesIsNat
<1>2. TypeOK
  BY <1>1 DEF TypeOK, ReturnCodes
<1>3. OnDisk = free
  <2>1. free \in SUBSET Blocks
    OBVIOUS
  <2>2. OnDisk = UNION {free \cap PageBlocks(p) : p \in Pages}
    BY DEF OnDisk
  <2>. QED
    BY <2>1, <2>2, PagesCoverTable
<1>4. QED
  BY <1>2, <1>3 DEF IInv, UnmarkedPagesAreSaved, UpdateInProgress, ValidMeansSaved

\* Taking or giving back blocks marks every page it changes.
LEMMA MarkingKeepsIInv ==
  ASSUME IInv, pc = "idle", bitmapSize # 0,
         NEW S, SetUsed(S) \/ (S \subseteq Blocks /\ SetFree(S)),
         rc' \in ReturnCodes, UNCHANGED <<bitmapSize, disk, call, saved>>
  PROVE  IInv'
<1>1. /\ bitmapTable' = bitmapTable \ S \/ bitmapTable' = bitmapTable \cup S
      /\ bitmapTable' \subseteq Blocks
      /\ bitmapBlocksChg' = Marked(S)
  BY DEF IInv, TypeOK, SetUsed, SetFree
<1>2. UNCHANGED <<bitmapSize, bmPages, bmFlag, pc, page, saved>>
  BY DEF disk, call
<1>3. TypeOK'
  BY <1>1, <1>2 DEF IInv, TypeOK, Marked
<1>4. UnmarkedPagesAreSaved'
  <2> SUFFICES ASSUME NEW p \in Pages, ~bitmapBlocksChg'[p]
               PROVE  bmPages'[p] = bitmapTable' \cap PageBlocks(p)
    BY DEF UnmarkedPagesAreSaved
  <2>1. ~bitmapBlocksChg[p] /\ \A b \in S : PageOf(b) # p
    BY <1>1 DEF Marked
  <2>2. bitmapTable' \cap PageBlocks(p) = bitmapTable \cap PageBlocks(p)
    BY <1>1, <2>1 DEF PageBlocks
  <2>3. QED
    BY <1>2, <2>1, <2>2 DEF IInv, UnmarkedPagesAreSaved
<1>5. UpdateInProgress'
  BY <1>2 DEF UpdateInProgress
<1>6. ValidMeansSaved'
  BY <1>2 DEF IInv, ValidMeansSaved, OnDisk
<1>7. QED
  BY <1>3, <1>4, <1>5, <1>6 DEF IInv

\* A call that gives up leaves table, marks and disk as they are.
LEMMA FailKeepsIInv == IInv /\ Fail => IInv'
<1> SUFFICES ASSUME IInv, Fail PROVE IInv'
  OBVIOUS
<1>1. /\ pc' = "idle" /\ page' = 0 /\ rc' = "error"
      /\ UNCHANGED <<bitmapSize, bitmapTable, bitmapBlocksChg, bmPages, bmFlag, saved>>
  BY DEF Fail, memory, disk
<1>2. TypeOK'
  BY <1>1, NPagesIsNat DEF IInv, TypeOK, ReturnCodes
<1>3. QED
  BY <1>1, <1>2 DEF IInv, UnmarkedPagesAreSaved, UpdateInProgress,
                    ValidMeansSaved, OnDisk

\* Once the update has passed every page, the disk holds the whole pool.
LEMMA AllPagesPassed ==
  IInv /\ pc = "writing" /\ page = bitmapSize => OnDisk = Free
<1> SUFFICES ASSUME IInv, pc = "writing", page = bitmapSize, bitmapSize # 0
             PROVE  OnDisk = bitmapTable
  BY DEF Free
<1>1. bitmapSize = NPages /\ bitmapTable \in SUBSET Blocks
  BY DEF IInv, TypeOK
<1>2. \A p \in Pages : ~bitmapBlocksChg[p]
  BY <1>1, NPagesIsNat DEF IInv, UpdateInProgress, Pages
<1>3. \A p \in Pages : bmPages[p] = bitmapTable \cap PageBlocks(p)
  BY <1>2 DEF IInv, UnmarkedPagesAreSaved
<1>4. OnDisk = UNION {bitmapTable \cap PageBlocks(p) : p \in Pages}
  BY <1>3 DEF OnDisk
<1>5. QED
  BY <1>1, <1>4, PagesCoverTable

\* Every step of the system preserves the invariant.
LEMMA NextIInv == IInv /\ [Next]_vars => IInv'
<1> SUFFICES ASSUME IInv, [Next]_vars PROVE IInv'
  OBVIOUS
<1>1. ASSUME NEW n \in 1 .. MaxRequest, adfGetFreeBlocks(n) PROVE IInv'
  <2>1. CASE SetUsed(SectList(n)) /\ rc' = "ok"
    BY <1>1, <2>1, MarkingKeepsIInv DEF adfGetFreeBlocks, ReturnCodes
  <2>2. CASE UNCHANGED memory /\ rc' = "full"
    BY <1>1, <2>2 DEF adfGetFreeBlocks, memory, disk, call, IInv, TypeOK,
       ReturnCodes, UnmarkedPagesAreSaved, UpdateInProgress, ValidMeansSaved, OnDisk
  <2>3. QED
    BY <1>1, <2>1, <2>2 DEF adfGetFreeBlocks
<1>2. ASSUME NEW b \in Blocks, adfSetBlockFree(b) PROVE IInv'
  BY <1>2, MarkingKeepsIInv DEF adfSetBlockFree, ReturnCodes
<1>3. ASSUME NEW b \in Blocks, adfSetBlockUsed(b) PROVE IInv'
  BY <1>3, MarkingKeepsIInv DEF adfSetBlockUsed, ReturnCodes
<1>4. CASE BeginUpdate
  <2>1. CASE /\ bmFlag' = "invalid"
             /\ pc' = "writing" /\ page' = 0
             /\ UNCHANGED <<memory, bmPages, rc, saved>>
    <3>1. TypeOK'
      BY <2>1, NPagesIsNat DEF IInv, TypeOK, memory
    <3>2. UpdateInProgress'
      BY <2>1, NPagesIsNat DEF IInv, TypeOK, UpdateInProgress, memory, Pages
    <3>3. QED
      BY <2>1, <3>1, <3>2 DEF IInv, UnmarkedPagesAreSaved, ValidMeansSaved, memory
  <2>2. QED
    BY <1>4, <2>1, FailKeepsIInv DEF BeginUpdate
<1>5. CASE WriteBitmapPage
  <2>1. CASE Fail
    BY <2>1, FailKeepsIInv
  <2>2. CASE ~Fail
    <3>1. /\ pc = "writing" /\ page < bitmapSize /\ bitmapBlocksChg[page]
          /\ bmPages' = [bmPages EXCEPT ![page] = bitmapTable \cap PageBlocks(page)]
          /\ bitmapBlocksChg' = [bitmapBlocksChg EXCEPT ![page] = FALSE]
          /\ page' = page + 1
          /\ UNCHANGED <<bitmapSize, bitmapTable, bmFlag, pc, rc, saved>>
      BY <1>5, <2>2 DEF WriteBitmapPage
    <3>2. page \in Pages /\ bitmapSize = NPages /\ bmFlag = "invalid"
      BY <3>1, NPagesIsNat DEF IInv, TypeOK, UpdateInProgress, Pages
    <3>3. TypeOK'
      <4>1. \A p \in Pages : bmPages'[p] \subseteq PageBlocks(p)
        BY <3>1, <3>2 DEF IInv, TypeOK
      <4>2. bmPages' \in [Pages -> SUBSET Blocks]
        BY <3>1, <3>2 DEF IInv, TypeOK
      <4>3. page' \in 0 .. NPages
        BY <3>1, <3>2, NPagesIsNat DEF Pages
      <4>4. QED
        BY <3>1, <3>2, <4>1, <4>2, <4>3 DEF IInv, TypeOK
    <3>4. UnmarkedPagesAreSaved'
      BY <3>1, <3>2 DEF IInv, TypeOK, UnmarkedPagesAreSaved
    <3>5. UpdateInProgress'
      <4>1. \A p \in Pages : p < page' => ~bitmapBlocksChg'[p]
        BY <3>1, <3>2, NPagesIsNat DEF IInv, TypeOK, UpdateInProgress, Pages
      <4>2. page' <= bitmapSize'
        BY <3>1, <3>2, NPagesIsNat DEF Pages
      <4>3. QED
        BY <3>1, <3>2, <4>1, <4>2 DEF UpdateInProgress
    <3>6. ValidMeansSaved'
      BY <3>1, <3>2 DEF ValidMeansSaved
    <3>7. QED
      BY <3>3, <3>4, <3>5, <3>6 DEF IInv
  <2>3. QED
    BY <2>1, <2>2
<1>6. CASE SkipBitmapPage
  <2>1. /\ pc = "writing" /\ page < bitmapSize /\ ~bitmapBlocksChg[page]
        /\ page' = page + 1
        /\ UNCHANGED <<bitmapSize, bitmapTable, bitmapBlocksChg, bmPages, bmFlag,
                       pc, rc, saved>>
    BY <1>6 DEF SkipBitmapPage, memory, disk
  <2>2. page \in Pages /\ bitmapSize = NPages
    BY <2>1, NPagesIsNat DEF IInv, TypeOK, Pages
  <2>3. TypeOK'
    BY <2>1, <2>2, NPagesIsNat DEF IInv, TypeOK, Pages
  <2>4. UpdateInProgress'
    BY <2>1, <2>2, NPagesIsNat DEF IInv, TypeOK, UpdateInProgress, Pages
  <2>5. QED
    BY <2>1, <2>3, <2>4 DEF IInv, UnmarkedPagesAreSaved, ValidMeansSaved, OnDisk
<1>7. CASE EndUpdate
  <2>1. CASE Fail
    BY <2>1, FailKeepsIInv
  <2>2. CASE ~Fail
    <3>1. /\ pc = "writing" /\ page = bitmapSize
          /\ bmFlag' = "valid" /\ pc' = "idle" /\ page' = 0
          /\ rc' = "ok" /\ saved' = Free
          /\ UNCHANGED <<bitmapSize, bitmapTable, bitmapBlocksChg, bmPages>>
      BY <1>7, <2>2 DEF EndUpdate, memory
    <3>2. OnDisk' = saved' /\ saved' \subseteq Blocks
      BY <3>1, AllPagesPassed, OnDiskBlocks DEF OnDisk, IInv
    <3>3. TypeOK'
      BY <3>1, <3>2, NPagesIsNat DEF IInv, TypeOK, ReturnCodes
    <3>4. QED
      BY <3>1, <3>2, <3>3 DEF IInv, UnmarkedPagesAreSaved, UpdateInProgress,
                              ValidMeansSaved
  <2>3. QED
    BY <2>1, <2>2
<1>8. CASE Reconnect
  <2>1. /\ \/ bitmapSize' = NPages /\ bitmapTable' = OnDisk
           \/ bitmapSize' = 0 /\ bitmapTable' = {}
        /\ bitmapBlocksChg' = [p \in Pages |-> FALSE]
        /\ pc' = "idle" /\ page' = 0 /\ rc' = "ok"
        /\ UNCHANGED <<bmPages, bmFlag, saved>>
    BY <1>8 DEF Reconnect, disk
  <2>2. TypeOK'
    BY <2>1, NPagesIsNat, OnDiskBlocks DEF IInv, TypeOK, ReturnCodes
  <2>3. UnmarkedPagesAreSaved'
    <3> SUFFICES ASSUME bitmapSize' # 0, NEW p \in Pages
                 PROVE  bmPages'[p] = bitmapTable' \cap PageBlocks(p)
      BY DEF UnmarkedPagesAreSaved
    <3>1. bmPages[p] = OnDisk \cap PageBlocks(p)
      BY DEF IInv, TypeOK, OnDisk, PageBlocks
    <3>2. QED
      BY <2>1, <3>1
  <2>4. QED
    BY <2>1, <2>2, <2>3 DEF IInv, UpdateInProgress, ValidMeansSaved, OnDisk
<1>9. CASE UNCHANGED vars
  BY <1>9 DEF vars, IInv, TypeOK, UnmarkedPagesAreSaved, UpdateInProgress,
              ValidMeansSaved, OnDisk
<1>10. QED
  BY <1>1, <1>2, <1>3, <1>4, <1>5, <1>6, <1>7, <1>8, <1>9 DEF Next

----------------------------------------------------------------------------
(* The theorems.                                                            *)

\* The invariant holds in every state of every behaviour.
THEOREM Invariance == Spec => []IInv
<1>1. Init => IInv
  BY InitIInv
<1>2. IInv /\ [Next]_vars => IInv'
  BY NextIInv
<1>3. QED
  BY <1>1, <1>2, PTL DEF Spec

\* Table, marks, pages and loop counter have their types; in particular the
\* page index of the update loop never leaves the bitmap.
THEOREM TypeCorrect == Spec => []TypeOK
<1>1. IInv => TypeOK
  BY DEF IInv
<1>2. QED
  BY <1>1, Invariance, PTL

\* No path through allocation, release, failed or completed updates leaves a
\* changed page without its mark.
THEOREM NoUnmarkedChange == Spec => []UnmarkedPagesAreSaved
<1>1. IInv => UnmarkedPagesAreSaved
  BY DEF IInv
<1>2. QED
  BY <1>1, Invariance, PTL

\* While the root block's flag says "valid", the disk holds the pool of the
\* last completed update, at whatever write an update failed or was cut off.
THEOREM FlagIsHonest == Spec => []ValidMeansSaved
<1>1. IInv => ValidMeansSaved
  BY DEF IInv
<1>2. QED
  BY <1>1, Invariance, PTL

\* A page write stores exactly the bits of that page's blocks.
LEMMA PageWriteStores ==
  ASSUME IInv, page \in Pages, bitmapSize # 0, UNCHANGED <<bitmapSize, bitmapTable>>,
         bmPages' = [bmPages EXCEPT ![page] = bitmapTable \cap PageBlocks(page)]
  PROVE  /\ OnDisk' = (OnDisk \ PageBlocks(page)) \cup (Free \cap PageBlocks(page))
         /\ Free' = Free
<1>1. /\ \A p \in Pages : bmPages[p] \subseteq PageBlocks(p)
      /\ bmPages \in [Pages -> SUBSET Blocks]
  BY DEF IInv, TypeOK
<1>2. \A p \in Pages : bmPages'[p] = IF p = page THEN bitmapTable \cap PageBlocks(page)
                                                ELSE bmPages[p]
  BY <1>1
<1>3. \A p \in Pages : p # page => PageBlocks(p) \cap PageBlocks(page) = {}
  BY DEF PageBlocks
<1>4. OnDisk' = UNION {bmPages'[p] : p \in Pages}
  BY DEF OnDisk
<1>5. ASSUME NEW b PROVE b \in OnDisk' <=>
          b \in (OnDisk \ PageBlocks(page)) \cup (bitmapTable \cap PageBlocks(page))
  <2>1. b \in OnDisk' <=> \E p \in Pages : b \in bmPages'[p]
    BY <1>4
  <2>2. b \in OnDisk <=> \E p \in Pages : b \in bmPages[p]
    BY DEF OnDisk
  <2>3. QED
    BY <1>1, <1>2, <1>3, <2>1, <2>2
<1>6. QED
  BY <1>5 DEF Free

\* Every step of the bitmap is a step of the pool, or leaves it as it is.
LEMMA NextRefines ==
  IInv /\ [Next]_vars => [Pool!Next]_<<Free, OnDisk, bmFlag>>
<1> SUFFICES ASSUME IInv, [Next]_vars
             PROVE  Pool!Next \/ UNCHANGED <<Free, OnDisk, bmFlag>>
  OBVIOUS
<1>1. ASSUME Fail PROVE UNCHANGED <<Free, OnDisk, bmFlag>>
  BY <1>1 DEF Fail, memory, disk, Free, OnDisk
<1>2. ASSUME NEW n \in 1 .. MaxRequest, adfGetFreeBlocks(n)
      PROVE  Pool!Next \/ UNCHANGED <<Free, OnDisk, bmFlag>>
  <2>1. CASE SetUsed(SectList(n))
    <3>1. SectList(n) \subseteq bitmapTable
      BY DEF SectList, Hits
    <3>2. SectList(n) \in SUBSET Blocks
      BY <3>1 DEF IInv, TypeOK
    <3>3. Pool!Take(SectList(n))
      BY <1>2, <2>1, <3>1 DEF adfGetFreeBlocks, SetUsed, Pool!Take, Free, OnDisk, disk
    <3>4. QED
      BY <3>2, <3>3 DEF Pool!Next
  <2>2. CASE UNCHANGED memory
    BY <1>2, <2>2 DEF adfGetFreeBlocks, memory, disk, Free, OnDisk
  <2>3. QED
    BY <1>2, <2>1, <2>2 DEF adfGetFreeBlocks
<1>3. ASSUME NEW b \in Blocks, adfSetBlockFree(b)
      PROVE  Pool!Next
  <2>1. Pool!Give({b})
    BY <1>3 DEF adfSetBlockFree, SetFree, Pool!Give, Free, OnDisk, disk
  <2>2. QED
    BY <2>1 DEF Pool!Next
<1>4. ASSUME NEW b \in Blocks, adfSetBlockUsed(b)
      PROVE  Pool!Next \/ UNCHANGED <<Free, OnDisk, bmFlag>>
  <2>1. CASE b \in bitmapTable
    <3>1. Pool!Take({b})
      BY <1>4, <2>1 DEF adfSetBlockUsed, SetUsed, Pool!Take, Free, OnDisk, disk
    <3>2. QED
      BY <3>1 DEF Pool!Next
  <2>2. CASE b \notin bitmapTable
    BY <1>4, <2>2 DEF adfSetBlockUsed, SetUsed, Free, OnDisk, disk
  <2>3. QED
    BY <2>1, <2>2
<1>5. CASE BeginUpdate
  <2>1. CASE bmFlag' = "invalid" /\ UNCHANGED <<memory, bmPages>>
    BY <2>1 DEF Pool!Next, Pool!Open, Free, OnDisk, memory
  <2>2. QED
    BY <1>1, <1>5, <2>1 DEF BeginUpdate
<1>6. CASE WriteBitmapPage
  <2>1. CASE ~Fail
    <3>1. /\ pc = "writing" /\ page < bitmapSize
          /\ bmPages' = [bmPages EXCEPT ![page] = bitmapTable \cap PageBlocks(page)]
          /\ UNCHANGED <<bitmapSize, bitmapTable, bmFlag>>
      BY <1>6, <2>1 DEF WriteBitmapPage
    <3>2. page \in Pages /\ bitmapSize # 0 /\ bmFlag = "invalid"
      BY <3>1, NPagesIsNat DEF IInv, TypeOK, UpdateInProgress, Pages
    <3>3. /\ OnDisk' = (OnDisk \ PageBlocks(page)) \cup (Free \cap PageBlocks(page))
          /\ Free' = Free
      BY <3>1, <3>2, PageWriteStores
    <3>4. PageBlocks(page) \in SUBSET Blocks
      BY DEF PageBlocks
    <3>5. Pool!Store
      BY <3>1, <3>2, <3>3, <3>4 DEF Pool!Store
    <3>6. QED
      BY <3>5 DEF Pool!Next
  <2>2. QED
    BY <1>1, <2>1
<1>7. CASE SkipBitmapPage
  BY <1>7 DEF SkipBitmapPage, memory, disk, Free, OnDisk
<1>8. CASE EndUpdate
  <2>1. CASE ~Fail
    <3>1. /\ pc = "writing" /\ page = bitmapSize /\ bmFlag' = "valid"
          /\ UNCHANGED <<bitmapSize, bitmapTable, bmPages>>
      BY <1>8, <2>1 DEF EndUpdate, memory
    <3>2. OnDisk = Free
      BY <3>1, AllPagesPassed
    <3>3. Pool!Commit
      BY <3>1, <3>2 DEF Pool!Commit, Free, OnDisk
    <3>4. QED
      BY <3>3 DEF Pool!Next
  <2>2. QED
    BY <1>1, <2>1
<1>9. CASE Reconnect
  <2>1. Pool!Lose
    BY <1>9 DEF Reconnect, disk, Pool!Lose, Free, OnDisk
  <2>2. QED
    BY <2>1 DEF Pool!Next
<1>10. CASE UNCHANGED vars
  BY <1>10 DEF vars, Free, OnDisk
<1>11. QED
  BY <1>2, <1>3, <1>4, <1>5, <1>6, <1>7, <1>8, <1>9, <1>10 DEF Next

\* The bitmap implements the abstract pool: all-or-nothing requests, pages
\* rewritten under a lowered flag only, the flag raised over exact pages only,
\* and a mount that finds what the disk records.
THEOREM BitmapImplementsPool == Spec => ImplementsBlockPool
<1>1. Init => Pool!Init
  <2> SUFFICES ASSUME Init PROVE Pool!Init
    OBVIOUS
  <2>1. bmFlag = "valid" /\ OnDisk = saved /\ Free = bitmapTable /\ saved = bitmapTable
    BY InitIInv, NPagesIsNat DEF Init, IInv, ValidMeansSaved, Free, OnDisk
  <2>2. Free \subseteq Blocks
    BY InitIInv, OnDiskBlocks DEF IInv
  <2>3. QED
    BY <2>1, <2>2 DEF Pool!Init
<1>2. IInv /\ [Next]_vars => [Pool!Next]_<<Free, OnDisk, bmFlag>>
  BY NextRefines
<1>3. QED
  BY <1>1, <1>2, Invariance, PTL DEF Spec, ImplementsBlockPool, Pool!Spec, Pool!vars
=============================================================================
