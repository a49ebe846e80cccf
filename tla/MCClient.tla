------------------------------- MODULE MCClient -------------------------------
(***************************************************************************)
(* Commands: every pair of trees and some lists of sources, without a view;*)
(* lists of files, read in chunks of several sizes; and deltas, displayed  *)
(* with every kind of view.                                                *)
(***************************************************************************)
EXTENDS Client, MCSourceManager

LOCAL INSTANCE SequencesExt

Command(list, file, chunk, v) == [sources |-> list, file |-> file, chunk |-> chunk, view |-> v]

\* Rows of at most n elements of a set.
Rows(set, n) == UNION {[1 .. k -> set] : k \in 0 .. n}

Strung(row) == FlattenSeq(row)
-----------------------------------------------------------------------------
(***************************************************************************)
(* Lists of files: a and b exist, c does not.                              *)
(***************************************************************************)
MCExisting == (<<"a">> :> AFile) @@ (<<"b">> :> ADirectory)

Ends == {<<"\n">>, <<"\r", "\n">>}

Names == {<<"a", "|", "b">>, <<" ", "a", "|">>, <<"|", "c">>, <<"a">>, <<"#", "a">>, <<>>}

\* Files of three lines; the last one may have no line feed.
FilesOf(end) ==
  {lines[1] \o end \o lines[2] \o end \o lines[3] \o last :
     lines \in [1 .. 3 -> Names], last \in {end, SubSeq(end, 1, Len(end) - 1)}}

Files == {file \in UNION {FilesOf(end) : end \in Ends} : IsAccepted(file)}

\* Some of them come with a pair on the command line.
FileCommands ==
  {Command(<<>>, file, chunk, NoView) : file \in Files, chunk \in {1, 20}}
    \cup {Command(Pair(1, AFile, AFile), file, 20, NoView) : file \in {f \in Files : f[1] = "|"}}
-----------------------------------------------------------------------------
(***************************************************************************)
(* Deltas.  What is changed is in an element of its own, and changed       *)
(* blanks are in another one.                                              *)
(***************************************************************************)
Element(name, nodes) == <<StartNode(name)>> \o nodes \o <<EndNode(name)>>
Word1 == <<TextNode(<<"x">>)>>
Ws(blank) == Element("diff:ws", <<TextNode(<<blank>>)>>)
Deleted(nodes) == Element("diff:delete", nodes)
Inserted(nodes) == Element("diff:insert", nodes)

\* Lines: common ones, changed ones, and common ones with a change.
CommonLine == <<TextNode(<<"x", "\n">>)>>
DeletedLine == Deleted(Word1 \o Ws("\n"))
InsertedLine == Inserted(Word1 \o Ws("\n"))
ChangedLine == Word1 \o Deleted(Word1) \o Inserted(Word1) \o <<TextNode(<<"\n">>)>>

LongDeltas == {Strung(row) : row \in [1 .. 5 -> {CommonLine, DeletedLine, ChangedLine}]}
LongerDeltas == {Strung(row) : row \in [1 .. 7 -> {CommonLine, ChangedLine}]}

\* The last line may have no line feed.
ShortDeltas(lines) ==
  {Strung(row) \o last : row \in Rows(lines, 2), last \in {<<>>, Word1, Deleted(Word1)}}

FirstDeltas == ShortDeltas({CommonLine, InsertedLine, ChangedLine})
SecondDeltas == ShortDeltas({CommonLine, ChangedLine})

Function(nodes) == Element("function", nodes)

FunctionDeltas ==
  {Strung(row) : row \in [1 .. 3 -> {CommonLine, CommonLine \o CommonLine \o CommonLine, ChangedLine,
                                      Function(CommonLine \o CommonLine), Function(CommonLine \o ChangedLine \o CommonLine)}]}

Comment(nodes) == Element("comment", nodes)

Segments ==
  {Word1, <<TextNode(<<" ">>)>>, <<TextNode(<<"\n">>)>>, Deleted(Word1 \o Ws(" ")), Deleted(Ws("\n") \o Word1),
   Inserted(Ws(" ") \o Word1), Inserted(Word1 \o Ws("\n") \o Element("diff:common", Word1)), Deleted(Comment(Word1)),
   Comment(Inserted(Word1 \o Ws(" ")) \o Word1)}

MixedDeltas == {Strung(row) : row \in [1 .. 3 -> Segments]}

\* By pair; 1 and 2 are displayed one after the other.
MCDeltas == [pair \in 1 .. 13 |->
               CASE pair = 10 -> LongDeltas [] pair = 11 -> FunctionDeltas [] pair = 12 -> MixedDeltas
                 [] pair = 13 -> LongerDeltas [] pair = 2 -> SecondDeltas [] OTHER -> FirstDeltas]

Plain == Unified!ViewOptions(FALSE, FALSE, FALSE)

AllOptions ==
  {Plain} \cup {Unified!ViewOptions(TRUE, FALSE, FALSE), Unified!ViewOptions(FALSE, TRUE, FALSE),
                Unified!ViewOptions(FALSE, FALSE, TRUE)}

Lines(n) == Unified!Context(n, {"LINE"})
Functions == Unified!Context(3, {"LINE", "FUNCTION"})

UnifiedViews(options, contexts) == {Unified!New(o, c) : o \in options, c \in contexts}
SideBySideViews(options) == {SideBySide!New(o) : o \in options}

Shows(list, views) == {Command(list, <<>>, 1, v) : v \in views}

ViewCommands ==
  Shows(<<Single(10, FALSE)>>, UnifiedViews({Plain}, {Lines(1)}))
    \cup Shows(<<Single(13, FALSE)>>, UnifiedViews({Plain}, {Lines(2)}))
    \cup Shows(<<Single(11, FALSE)>>, UnifiedViews({Plain}, {Functions}))
    \cup Shows(<<Single(12, FALSE)>>, UnifiedViews(AllOptions, {Lines(1)}) \cup SideBySideViews(AllOptions))
    \cup Shows(Pair(1, AFile, AFile) \o <<Single(2, FALSE)>>,
               UnifiedViews({Plain}, {Lines(-1), Lines(0), Lines(1)}) \cup SideBySideViews({Plain}))

MCCommands == {Command(list, <<>>, 1, NoView) : list \in MCInputs} \cup FileCommands \cup ViewCommands

MCUnsignedWidth == 4
MCSizeWidth == 5
=============================================================================
