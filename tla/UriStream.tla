------------------------------ MODULE UriStream ------------------------------
(***************************************************************************)
(* uri_stream: the lines of a file, read through a buffer that is moved    *)
(* and refilled.  The file is a row of characters; libxml, whose buffer it *)
(* is, reads a chunk of it at a time.  Positions count from 0, and the     *)
(* buffer ends with a null character.                                      *)
(***************************************************************************)
EXTENDS Integers, Sequences, FiniteSets

\* The character at a position of the buffer.
ContentAt(s, i) == IF i < Len(s.content) THEN s.content[i + 1] ELSE "NUL"

\* xmlParserInputBufferGrow: the next chunk of the file, nothing at its end.
Grow(s) ==
  LET length == IF s.chunk < Len(s.unread) THEN s.chunk ELSE Len(s.unread)
  IN  [s EXCEPT !.content = @ \o SubSeq(s.unread, 1, length), !.unread = SubSeq(@, length + 1, Len(@))]

\* xmlBufShrink: so many characters are taken off the front; none if there are not as many.
Shrunk(s, n) == IF n > Len(s.content) THEN 0 ELSE n

\* The constructor, which throws if there is no file.
Open(file, chunk) ==
  Grow([file |-> file, content |-> <<>>, unread |-> file, chunk |-> chunk, startpos |-> 0, endpos |-> 0,
        eof |-> FALSE, done |-> file = <<>>, left |-> FALSE])

\* Mutant: the start of the line is not moved with the buffer.
RefillStartKept(s) ==
  LET removed == Shrunk(s, IF s.startpos >= 1 THEN s.startpos - 1 ELSE 0)
  IN  Grow([s EXCEPT !.content = SubSeq(@, removed + 1, Len(@)), !.endpos = @ - removed, !.eof = s.unread = <<>>])

\* What is behind the line that is being read is moved to the front, all but one character.
Refill(s) ==
  LET removed == Shrunk(s, IF s.startpos >= 1 THEN s.startpos - 1 ELSE 0)
  IN  Grow([s EXCEPT !.content = SubSeq(@, removed + 1, Len(@)),
                     !.startpos = @ - removed, !.endpos = @ - removed, !.eof = s.unread = <<>>])

\* readline begins a line; at the end of the buffer more is read.
LineBegun(s) ==
  LET begun == [s EXCEPT !.endpos = s.startpos, !.left = FALSE]
  IN  IF begun.endpos >= Len(begun.content) THEN Refill(begun) ELSE begun

\* The loop goes on to a line feed; left tells that it was left at the end of the file.
IsAtEnd(s) == s.left \/ ContentAt(s, s.endpos) = "\n"

\* A turn of the loop.
LookedOn(s) ==
  LET next == [s EXCEPT !.endpos = @ + 1]
  IN  IF next.endpos < Len(s.content) THEN next
      ELSE IF s.eof THEN [next EXCEPT !.left = TRUE]
      ELSE Refill(next)

\* Behind the loop: whether there is a line; the line, without the carriage return before
\* its line feed; and the stream behind it.
HasLine(s) == s.startpos < Len(s.content)

LineRead(s) ==
  LET end == IF s.endpos >= 1 /\ ContentAt(s, s.endpos - 1) = "\r" THEN s.endpos - 1 ELSE s.endpos
  IN  SubSeq(s.content, s.startpos + 1, IF end < Len(s.content) THEN end ELSE Len(s.content))

LineEnded(s) == [s EXCEPT !.startpos = s.endpos + 1]
-----------------------------------------------------------------------------
\* The lines of a file, for the properties, by the places where they end: at a line feed, or
\* behind the file if its last line has none.
LineEnds(file) ==
  {n \in DOMAIN file : file[n] = "\n"} \cup
  (IF file = <<>> \/ file[Len(file)] = "\n" THEN {} ELSE {Len(file) + 1})

LineStart(file, end) ==
  CHOOSE n \in 1 .. end : (n = 1 \/ file[n - 1] = "\n") /\ \A i \in n .. end - 1 : file[i] # "\n"

\* A line as getline returns it, and as it is meant: a carriage return before its line feed
\* does not count.
RawLine(file, end) == SubSeq(file, LineStart(file, end), end - 1)

LineText(file, end) ==
  LET hasReturn == end <= Len(file) /\ LineStart(file, end) < end /\ file[end - 1] = "\r"
  IN  SubSeq(file, LineStart(file, end), IF hasReturn THEN end - 2 ELSE end - 1)

\* Lines in the order of the file.
InOrder(ends) ==
  CHOOSE row \in [1 .. Cardinality(ends) -> ends] : \A m, n \in DOMAIN row : m < n => row[m] < row[n]
=============================================================================
