------------------------------ MODULE MCFormat ------------------------------
(***************************************************************************)
(* Values for AdfFormat: double density floppies of two and of three       *)
(* cylinders, where the code takes two for granted, and high density ones  *)
(* whose bitmap needs two pages.  The roots are blocks 6, 9 and 10.        *)
(***************************************************************************)
EXTENDS AdfFormat

MCPerCylinder == [DD |-> 6, HD |-> 10]
MCImageCylinders == [DD |-> {2, 3}, HD |-> {2}]

\* Zeros, blocks that are no page, and ones that read as pages: all blocks
\* free, and some.
MCLeftovers == {Page({}), Noise, Page(0 .. 15), Page({1, 4, 5, 8})}
=============================================================================
