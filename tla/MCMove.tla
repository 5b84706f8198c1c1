------------------------------- MODULE MCMove -------------------------------
(***************************************************************************)
(* Values for AdfMove.  The host has a directory with a file of two blocks *)
(* and a hidden one of one block; the volume has a directory with an       *)
(* empty file and a file in its root.                                      *)
(***************************************************************************)
EXTENDS AdfMove

MCNames == {"d", "e", "a", "A", ".h", "DF0"}
MCFold == [n \in MCNames |-> IF n = "A" THEN "a" ELSE n]
MCHash == [n \in MCNames |-> IF n \in {"d", "a", "A"} THEN 1 ELSE 2]
MCOneChar == {"d", "e", "a", "A"}
MCSame == [n \in MCNames |-> n]
MCContents == {"x", "y", "z"}
MCSize == [c \in MCContents |-> IF c = "x" THEN 2 ELSE IF c = "y" THEN 1 ELSE 0]
MCFile(c) == File(c, MCSize[c])

MCInitHost ==
    (<<>> :> Directory) @@ (<<"d">> :> Directory)
      @@ (<<"d", "a">> :> MCFile("x")) @@ (<<"d", ".h">> :> MCFile("y"))
MCInitVolume ==
    (<<>> :> Directory) @@ (<<"e">> :> Directory)
      @@ (<<"e", "A">> :> MCFile("z")) @@ (<<"A">> :> MCFile("y"))
=============================================================================
