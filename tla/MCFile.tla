------------------------------- MODULE MCFile -------------------------------
EXTENDS AdfTruncate

\* Two bytes to a block and two pointers to a list: files grow to a fifth data
\* block and a second extension block, which takes all seven blocks; an FFS file
\* is then asked to grow further, on the full volume.
MCMaxSize == [OFS |-> 9, FFS |-> 11]

\* The code copies bytes and never looks at them, so few writes that differ
\* from all the others are enough to see any byte go astray.
MCFewMarked == Cardinality({i \in DOMAIN Contents : Contents[i] # 1}) <= 1

\* No action looks at the last result, nor at a free block before it is written
\* (BlocksAccounted and HandleAgrees: no free block can be come by).
MCView == <<dosType, hdr, [s \in Blocks \ free |-> disk[s]], free, file, astray, lost>>
=============================================================================
