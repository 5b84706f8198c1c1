------------------------------ MODULE AdfText -------------------------------
(***************************************************************************)
(* readLines, readBin, writeLines and writeBin on a connection to a file   *)
(* (adf_readlines, adf_readbin, adf_writelines, adf_writebin).             *)
(*                                                                         *)
(* The file is a sequence of bytes here, as ByteFile promises and AdfFile  *)
(* implements; the volume has room for Capacity of them.  Each step is one *)
(* call of adfFileRead or adfFileWrite.  A connection is opened either for *)
(* reading or for writing, and adf_file_read does not look at what         *)
(* adfFileRead answers: on a connection for writing it reports bytes that  *)
(* were never read and the position stays where it is.                     *)
(*                                                                         *)
(* A byte is a line end, a nul, or some other.  The conversion of a value  *)
(* of one size to another is left out; how many items an answer has, which *)
(* bytes they come from and how often each is reversed is not.             *)
(***************************************************************************)
EXTENDS Integers, Sequences, FiniteSets, SequencesExt

CONSTANTS Capacity,  \* the bytes there is room for
          Limit,     \* the longest string of readBin: 10000
          Block,     \* the most items asked for at once: 8096
          MaxBuffer, \* the longest line there is memory for
          SizeDef,   \* per kind of vector: the bytes of an item of R
          Sizes,     \* per kind: the sizes accepted for an item of the file
          Files,     \* the contents a file may have at first
          Counts,    \* the numbers of lines, strings or items asked for
          Texts      \* the character vectors written

Bytes == {"x", "nl", "nul"}
Whats == {"integer", "double", "raw", "logical"}
All == Capacity + MaxBuffer + 2   \* n = -1: more lines than there are

ASSUME TextAssumption ==
    /\ {Capacity, Limit, Block, MaxBuffer} \subseteq Nat \ {0} /\ MaxBuffer >= Capacity
    /\ Counts \subseteq Nat
    /\ \A file \in Files : file \in Seq(Bytes) /\ Len(file) <= Capacity
    /\ \A text \in Texts : text \in Seq(Seq(Bytes \ {"nul"}))
    /\ \A what \in Whats : SizeDef[what] \in Nat \ {0} /\ Sizes[what] \subseteq Nat \ {0}
    /\ SizeDef["logical"] > 1 /\ Sizes["logical"] = {SizeDef["logical"]}

VARIABLES
    bytes,   \* the contents of the file
    pos,     \* the position of the connection
    mode,    \* "read", "write", or "closed"
    call,    \* the call under way, or NoCall
    last     \* the answer of the last call, until the next begins

vars == <<bytes, pos, mode, call, last>>

NoCall == [op |-> "none"]
NoAnswer == [is |-> "none"]
Failed == [is |-> "error"]

----------------------------------------------------------------------------
(* The connection.                                                          *)

\* adf_file_read: the bytes it reports, whatever has been read.
Reported(k) == IF Len(bytes) - pos < k THEN Len(bytes) - pos ELSE k

\* The bytes adfFileRead delivers.
Delivered(k) == IF mode = "read" THEN SubSeq(bytes, pos + 1, pos + Reported(k)) ELSE <<>>

Advanced(k) == pos + Len(Delivered(k))

\* Variant: the end of the file is only met when the file is empty.
adf_getcAtEnd == IF bytes = <<>> THEN "eof"
                 ELSE IF Delivered(1) # <<>> THEN bytes[pos + 1] ELSE "nul"

\* A byte that is not read stays zero.
adf_getc == IF Reported(1) = 0 THEN "eof"
            ELSE IF mode = "read" THEN bytes[pos + 1] ELSE "nul"

\* adfFileWrite fills what room there is.
Fit(piece) == SubSeq(piece, 1, IF Capacity - pos < Len(piece) THEN Capacity - pos
                                                              ELSE Len(piece))

\* Variant: the file ends behind what was written.
WrittenCutting(piece) == SubSeq(bytes, 1, pos) \o piece

Written(piece) ==
    SubSeq(bytes, 1, pos) \o piece \o SubSeq(bytes, pos + Len(piece) + 1, Len(bytes))

Idle == mode # "closed" /\ call = NoCall

Open == /\ mode = "closed"
        /\ mode' \in {"read", "write"}
        /\ pos' = 0
        /\ last' = NoAnswer
        /\ UNCHANGED <<bytes, call>>

Close == /\ Idle
         /\ mode' = "closed"
         /\ last' = NoAnswer
         /\ UNCHANGED <<bytes, pos, call>>

Seek == /\ Idle
        /\ pos' \in 0 .. Len(bytes)
        /\ last' = NoAnswer
        /\ UNCHANGED <<bytes, mode, call>>

Begins(c) == Idle /\ call' = c /\ last' = NoAnswer /\ UNCHANGED <<bytes, pos, mode>>
Continues(c) == call' = c /\ UNCHANGED <<mode, last>>
Answers(answer) == call' = NoCall /\ last' = answer /\ UNCHANGED mode

----------------------------------------------------------------------------
(* readLines.                                                               *)

adf_readlines(n, ok, skipNul) ==
    Begins([op |-> "lines", n |-> n, ok |-> ok, skipNul |-> skipNul,
            from |-> pos, buf |-> <<>>, result |-> <<>>])

\* What a string in C shows of a buffer: up to the first nul.
CString(buf) == LET k == SelectInSeq(buf, LAMBDA b : b = "nul")
                IN  IF k = 0 THEN buf ELSE SubSeq(buf, 1, k - 1)

Lines(result) == [is |-> "lines", n |-> call.n, skipNul |-> call.skipNul,
                  from |-> call.from, result |-> result]

InLine == call.op = "lines" /\ Len(call.result) < call.n

LineByte ==
    /\ InLine /\ adf_getc \in Bytes \ {"nl"}
    /\ pos' = Advanced(1)
    /\ \/ /\ call.skipNul /\ adf_getc = "nul"
          /\ Continues(call)
       \/ /\ ~(call.skipNul /\ adf_getc = "nul") /\ Len(call.buf) < MaxBuffer
          /\ Continues([call EXCEPT !.buf = Append(@, adf_getc)])
       \/ /\ ~(call.skipNul /\ adf_getc = "nul") /\ Len(call.buf) = MaxBuffer
          /\ Answers(Failed)
    /\ UNCHANGED bytes

LineEnd ==
    /\ InLine /\ adf_getc = "nl"
    /\ pos' = Advanced(1)
    /\ Continues([call EXCEPT !.buf = <<>>, !.result = Append(@, CString(call.buf))])
    /\ UNCHANGED bytes

\* The rest is added before the end is tested for, be it empty or not, but is
\* counted for "too few lines" only when it is not.
NoMoreLines ==
    /\ InLine /\ adf_getc = "eof"
    /\ LET nread == Len(call.result) + (IF call.buf # <<>> THEN 1 ELSE 0) IN
       Answers(IF nread < call.n /\ ~call.ok THEN Failed
               ELSE Lines(Append(call.result, CString(call.buf))))
    /\ UNCHANGED <<bytes, pos>>

LinesRead ==
    /\ call.op = "lines" /\ Len(call.result) = call.n
    /\ Answers(Lines(call.result))
    /\ UNCHANGED <<bytes, pos>>

----------------------------------------------------------------------------
(* readBin of strings.                                                      *)

adf_readbin_character(n) ==
    Begins([op |-> "strings", n |-> n, from |-> pos, buf |-> <<>>, result |-> <<>>])

Strings == [is |-> "strings", n |-> call.n, from |-> call.from, result |-> call.result]

\* What is in a byte that was never read: a nul, or another.
Uninitialised == {"x", "nul"}

\* A string of Limit bytes is not terminated: it goes on with what is behind.
readOneString ==
    /\ call.op = "strings" /\ Len(call.result) < call.n /\ Reported(1) = 1
    /\ pos' = Advanced(1)
    /\ \E b \in IF mode = "read" THEN {bytes[pos + 1]} ELSE Uninitialised :
          LET buf == Append(call.buf, b) IN
          \/ /\ b = "nul"
             /\ Continues([call EXCEPT !.buf = <<>>, !.result = Append(@, call.buf)])
          \/ /\ b # "nul" /\ Len(buf) < Limit
             /\ Continues([call EXCEPT !.buf = buf])
          \/ /\ b # "nul" /\ Len(buf) = Limit
             /\ \E behind \in {<<>>} \cup {<<c>> : c \in Uninitialised \ {"nul"}} :
                   Continues([call EXCEPT !.buf = <<>>, !.result = Append(@, buf \o behind)])
    /\ UNCHANGED bytes

\* What has been read of an incomplete string is dropped.
StringsRead ==
    /\ call.op = "strings"
    /\ Len(call.result) = call.n \/ Reported(1) = 0
    /\ Answers(Strings)
    /\ UNCHANGED <<bytes, pos>>

----------------------------------------------------------------------------
(* readBin of items.                                                        *)

\* "logical" is the code of complex numbers: its own branch comes too late.
IsComplex(what) == what = "logical"

adf_readbin(what, n, size, swap) ==
    /\ size \in Sizes[what]
    /\ Begins([op |-> "items", what |-> what, n |-> n, size |-> size, swap |-> swap,
               from |-> pos, left |-> n, m |-> 0, got |-> <<>>])

\* "numeric" and "complex" are not known.
adf_readbin_invalid ==
    Idle /\ last' = Failed /\ UNCHANGED <<bytes, pos, mode, call>>

\* Read as they are, or converted one by one.
AsIs(c) == c.size = SizeDef[c.what]

Asked == IF call.left < Block THEN call.left ELSE Block

Got(k) == [call EXCEPT !.m = @ + k, !.got = @ \o Delivered(call.size * Asked)]

\* Variant: a block that is just complete ends the reading.
ShortLoose(m0) == m0 <= Asked

\* The bytes read are compared with the items asked for.
Short(m0) == m0 < Asked

\* The answer: m is a number of bytes when the items are read as they are.
Items(c) ==
    [is |-> "items", what |-> c.what, n |-> c.n, size |-> c.size, from |-> c.from,
     got |-> c.got, swap |-> c.swap /\ c.size > 1,
     length |-> IF c.m < c.n /\ ~IsComplex(c.what) THEN c.m ELSE c.n,
     swapped |-> IF c.swap /\ c.size > 1 THEN c.m ELSE 0]

ReadBlock ==
    /\ call.op = "items" /\ AsIs(call) /\ call.left > 0
    /\ pos' = Advanced(call.size * Asked)
    /\ LET m0 == Reported(call.size * Asked) IN
       \/ Short(m0) /\ Answers(Items(Got(m0)))
       \/ ~Short(m0) /\ Continues([Got(m0) EXCEPT !.left = @ - Asked])
    /\ UNCHANGED bytes

ReadItem ==
    /\ call.op = "items" /\ ~AsIs(call) /\ call.left > 0
    /\ pos' = Advanced(call.size)
    /\ LET s == Reported(call.size) IN
       \/ s = 0 /\ Answers(Items(call))
       \/ s > 0 /\ Continues([call EXCEPT !.m = @ + 1, !.left = @ - 1,
                                          !.got = @ \o Delivered(call.size)])
    /\ UNCHANGED bytes

ItemsRead ==
    /\ call.op = "items" /\ call.left = 0
    /\ Answers(Items(call))
    /\ UNCHANGED <<bytes, pos>>

----------------------------------------------------------------------------
(* Writing.  pieces are the calls of adfFileWrite to come; whole, from and  *)
(* before are kept for the properties.                                      *)

Writing(op, pieces) ==
    /\ mode = "write"
    /\ Begins([op |-> op, pieces |-> pieces, whole |-> FlattenSeq(pieces),
               from |-> pos, before |-> bytes, warned |-> FALSE])

CannotWrite ==
    /\ mode = "read" /\ call = NoCall
    /\ last' = Failed
    /\ UNCHANGED <<bytes, pos, mode, call>>

\* Each line and each separator is a call.
adf_writelines(text, sep) ==
    Writing("writelines", FlattenSeq([i \in DOMAIN text |-> <<text[i], sep>>]))

\* Each string is written with its nul; a vector of items in a single call.
adf_writebin_character(text) ==
    Writing("writestrings", [i \in DOMAIN text |-> Append(text[i], "nul")])

\* swapb, on every item: here each is an "x" and nuls.
Item(size, swap) == LET item == <<"x">> \o [i \in 1 .. size - 1 |-> "nul"]
                    IN  IF swap THEN Reverse(item) ELSE item

adf_writebin(n, size, swap) ==
    n > 0 /\ Writing("writeitems", <<FlattenSeq([i \in 1 .. n |-> Item(size, swap)])>>)

\* Only strings are given up at the first that is refused; only a count of
\* bytes below that of items is warned about.
WritePiece ==
    /\ "pieces" \in DOMAIN call /\ call.pieces # <<>>
    /\ LET piece == Head(call.pieces)
           nwrite == Len(Fit(piece))
           stop == call.op = "writestrings" /\ nwrite = 0
           items == Cardinality({i \in DOMAIN piece : piece[i] = "x"})
       IN  /\ bytes' = Written(Fit(piece))
           /\ pos' = pos + nwrite
           /\ Continues([call EXCEPT !.pieces = IF stop THEN <<>> ELSE Tail(@),
                                     !.warned = stop \/ (call.op = "writeitems" /\ nwrite < items)])

WriteDone ==
    /\ "pieces" \in DOMAIN call /\ call.pieces = <<>>
    /\ Answers([is |-> "written", from |-> call.from, whole |-> call.whole,
                before |-> call.before, warned |-> call.warned])
    /\ UNCHANGED <<bytes, pos>>

----------------------------------------------------------------------------
Turn == LineByte \/ LineEnd \/ NoMoreLines \/ LinesRead \/ readOneString \/ StringsRead
        \/ ReadBlock \/ ReadItem \/ ItemsRead \/ WritePiece \/ WriteDone

Request ==
    \/ Open \/ Close \/ Seek \/ CannotWrite \/ adf_readbin_invalid
    \/ \E n \in Counts \cup {All}, ok, skipNul \in BOOLEAN : adf_readlines(n, ok, skipNul)
    \/ \E n \in Counts : adf_readbin_character(n)
    \/ \E what \in Whats, n \in Counts, swap \in BOOLEAN :
          \E size \in Sizes[what] : adf_readbin(what, n, size, swap)
    \/ \E text \in Texts, sep \in {<<"nl">>, <<>>} : adf_writelines(text, sep)
    \/ \E text \in Texts : adf_writebin_character(text)
    \/ \E n \in Counts, what \in Whats, swap \in BOOLEAN :
          \E size \in Sizes[what] : adf_writebin(n, size, swap)

Init == bytes \in Files /\ pos = 0 /\ mode = "closed" /\ call = NoCall /\ last = NoAnswer
Next == Turn \/ Request

\* A call that was begun runs until it returns.
Spec == Init /\ [][Next]_vars /\ WF_vars(Turn)

----------------------------------------------------------------------------
(* Properties.                                                              *)

LineEnds(from) == {i \in from + 1 .. Len(bytes) : bytes[i] = "nl"}
Nth(S, k) == CHOOSE i \in S : Cardinality({j \in S : j <= i}) = k

WithoutNuls(line) ==
    FlattenSeq([i \in DOMAIN line |-> IF line[i] = "nul" THEN <<>> ELSE <<line[i]>>])

\* The k-th line behind a position, without what the caller wants skipped.
Line(from, k, skipNul) ==
    LET ends == LineEnds(from) \cup {Len(bytes) + 1}
        begin == IF k = 1 THEN from + 1 ELSE Nth(ends, k - 1) + 1
        line == SubSeq(bytes, begin, Nth(ends, k) - 1)
    IN  IF skipNul THEN WithoutNuls(line) ELSE CString(line)

Least(i, j) == IF i < j THEN i ELSE j

\* An empty rest of the file is answered as a line or left out.
LinesAreThere ==
    LET n == Len(last.result)
        all == Cardinality(LineEnds(last.from)) + 1
    IN  /\ last.result = [k \in 1 .. n |-> Line(last.from, k, last.skipNul)]
        /\ \/ /\ n = Least(last.n, all)
              /\ pos = IF n = 0 THEN last.from
                       ELSE Least(Len(bytes), Nth(LineEnds(last.from) \cup {Len(bytes) + 1}, n))
           \/ /\ n = all - 1 /\ n < last.n /\ pos = Len(bytes)
              /\ Line(last.from, all, last.skipNul) = <<>>

StringsAreThere ==
    LET found == FlattenSeq([k \in DOMAIN last.result |-> Append(last.result[k], "nul")])
        rest == SubSeq(bytes, last.from + Len(found) + 1, pos)
    IN  /\ found \o rest = SubSeq(bytes, last.from + 1, pos)
        /\ "nul" \notin ToSet(rest)
        /\ Len(last.result) = last.n => rest = <<>>
        /\ Len(last.result) < last.n => pos = Len(bytes)

ItemsAreThere ==
    /\ last.got = SubSeq(bytes, last.from + 1, pos)
    /\ Len(last.got) = Least(last.n * last.size, Len(bytes) - last.from)
    /\ Len(last.got) = last.n * last.size => last.length = last.n
    /\ last.size = 1 => last.length = Len(last.got)

\* What a read answers is what the file holds from where it began, split as
\* asked for, and the position is behind it: lines in their order, none of them
\* twice or left out; strings up to their nul; items with all their bytes.
\* How many an answer has is said of whole items only.  At the end of the file the
\* code answers a line and an item more than base R, which its documentation
\* promises: an empty line behind the last line end, and what is left of an item.
ReadsWhatIsThere ==
    /\ last.is = "lines" => LinesAreThere
    /\ last.is = "strings" /\ mode = "read" /\ (\A k \in DOMAIN last.result :
           Len(last.result[k]) < Limit) => StringsAreThere
    /\ last.is = "items" /\ mode = "read" => ItemsAreThere

\* A write that returns has put its text at the position it began at, piece
\* behind piece and nothing in between, has left the rest of the file as it
\* was, and has dropped something only because the volume was full.
WritesItsText ==
    last.is = "written" =>
        LET n == pos - last.from IN
        /\ SubSeq(bytes, last.from + 1, pos) = SubSeq(last.whole, 1, n)
        /\ n < Len(last.whole) => pos = Capacity
        /\ SubSeq(bytes, 1, last.from) = SubSeq(last.before, 1, last.from)
        /\ SubSeq(bytes, pos + 1, Len(bytes)) = SubSeq(last.before, pos + 1, Len(last.before))

\* A read of a connection that can be read returns.  (Of a connection for
\* writing it need not: adf_getc answers a nul for ever.)
ReadingEnds ==
    (call.op \in {"lines", "strings", "items"} /\ mode = "read") ~> (call = NoCall)

=============================================================================
