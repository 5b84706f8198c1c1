----------------------------- MODULE MCFileOFS ------------------------------
EXTENDS AdfFile

\* Six blocks of one byte: an OFS file of four data blocks and an extension
\* block, which has the third and the fourth of them.
MCMaxSize == [OFS |-> 5]
=============================================================================
