------------------------------ MODULE ByteFile ------------------------------
(***************************************************************************)
(* What a connection to a file promises: a file is a sequence of bytes and *)
(* an open connection a position in it.  Writing replaces the bytes from   *)
(* the position on and extends the file, reading delivers the bytes from   *)
(* the position on, seeking moves the position inside the file, and        *)
(* neither opening nor closing a connection changes a byte.  Cutting the   *)
(* file keeps the bytes before the new end.  A turn of a read or write     *)
(* covers at most MaxTurn bytes; a write may be refused.                   *)
(***************************************************************************)
EXTENDS Integers, Sequences

CONSTANTS Values,    \* the bytes
          MaxTurn    \* the most bytes one step reads or writes

VARIABLES bytes,     \* the contents
          pos,       \* the position of the connection, or -1 without one
          read       \* what the last step delivered

Init == bytes = <<>> /\ pos = -1 /\ read = <<>>

Open == /\ pos = -1
        /\ pos' = 0
        /\ read' = <<>>
        /\ UNCHANGED bytes

Close == /\ pos # -1
         /\ pos' = -1
         /\ read' = <<>>
         /\ UNCHANGED bytes

Seek == /\ pos # -1
        /\ pos' \in 0 .. Len(bytes)
        /\ read' = <<>>
        /\ UNCHANGED bytes

Read == \E k \in 1 .. MaxTurn :
            /\ pos # -1 /\ pos' = pos + k /\ pos' <= Len(bytes)
            /\ read' = SubSeq(bytes, pos + 1, pos + k)
            /\ UNCHANGED bytes

\* k bytes of value v are written at the position.
Overwritten(k, v) ==
    LET old == bytes IN
    [i \in 1 .. (IF pos + k > Len(old) THEN pos + k ELSE Len(old)) |->
        IF i \in pos + 1 .. pos + k THEN v ELSE old[i]]

Write == \E k \in 1 .. MaxTurn, v \in Values :
            /\ pos # -1
            /\ pos' = pos + k
            /\ read' = <<>>
            /\ bytes' = Overwritten(k, v)

Remove == /\ pos = -1
          /\ read' = <<>>
          /\ UNCHANGED pos
          /\ bytes' = <<>>

\* The file is cut at p, and the connection is at its new end.
Truncate == \E p \in 0 .. Len(bytes) :
            /\ pos # -1 /\ pos' = p
            /\ p < Len(bytes)
            /\ read' = <<>>
            /\ bytes' = SubSeq(bytes, 1, p)

Next == Open \/ Close \/ Seek \/ Read \/ Write \/ Truncate \/ Remove

Spec == Init /\ [][Next]_<<bytes, pos, read>>
=============================================================================
