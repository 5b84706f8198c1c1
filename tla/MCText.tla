------------------------------- MODULE MCText -------------------------------
EXTENDS AdfText

\* Any file of up to three bytes: two line ends with a rest, two strings, an
\* item of two bytes and half of a second.
MCFiles == UNION {[1 .. k -> Bytes] : k \in 0 .. 3}

\* An item of R has two bytes; the file may also have one or three for it.
MCSizeDef == [what \in Whats |-> IF what = "raw" THEN 1 ELSE 2]
MCSizes == [what \in Whats |-> CASE what = "raw" -> {1}
                                 [] what = "logical" -> {2}
                                 [] what = "integer" -> {1, 2}
                                 [] what = "double" -> {3}]

\* None; one; more strings and items than a file has, and just as many bytes.
MCCounts == {0, 1, 3}

\* The longest of them does not fit even into an empty file.
MCTexts == {<<>>, <<<<>>, <<"x">>>>, <<<<"x", "nl">>, <<"x">>>>}
=============================================================================
