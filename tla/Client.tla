-------------------------------- MODULE Client --------------------------------
(***************************************************************************)
(* The program srcdiff: the list of files, the sources, and the views.  A  *)
(* delta that was made, or read back, goes to the view tag by tag, before  *)
(* anything else is consumed.  What deltor makes of two files is any of    *)
(* the deltas of the pair.                                                 *)
(***************************************************************************)
EXTENDS SourceManager, UriStream, Views

LOCAL INSTANCE SequencesExt
LOCAL INSTANCE Functions

CONSTANTS
  Commands,   \* command lines: sources, the list of files, and the view
  Existing,   \* what is at the paths that exist
  Deltas      \* what can be made of a pair, or is in its file: lists of nodes

VARIABLES
  stream,   \* the list of files, while phase is "read" or "look"
  view,
  delta,    \* what of a delta is still to be displayed
  shown     \* the deltas that were displayed, for the properties

clientVars == <<sources, current, phase, given, reported, stream, view, delta, shown>>

ASSUME CommandsAssumption ==
  \A command \in Commands :
    /\ command.file \in Seq(STRING) /\ command.chunk \in Nat \ {0}
    /\ IsList(command.sources)
    /\ command.file # <<>> =>
         \A s \in ToSet(command.sources) : s.pair <= Len(command.sources) \div 2

ASSUME ExistingAssumption ==
  \A name \in DOMAIN Existing :
    IsTree(Existing[name]) /\ <<>> \in DOMAIN Existing[name] /\ Existing[name][<<>>] # "output"

ASSUME WidthAssumption ==
  UnsignedWidth \in Nat /\ SizeWidth \in Nat /\ UnsignedWidth < SizeWidth
-----------------------------------------------------------------------------
(***************************************************************************)
(* --files-from: process_files_from, one line at a time.                   *)
(***************************************************************************)
\* The blanks in front of a line are passed over.
Stripped(line) == SubSeq(line, SelectInSeq(line \o <<"">>, LAMBDA c : c # " "), Len(line))

IsPassedOver(line) == Stripped(line) = <<>> \/ Stripped(line)[1] = "#"

\* A path by its name, which may be empty.
SourceOf(name, pair, side) ==
  IF name = <<>> THEN Source("null", FALSE, pair, side, <<>>)
  ELSE IF name \in DOMAIN Existing THEN Source("local", FALSE, pair, side, Existing[name])
  ELSE Source("local", TRUE, pair, side, <<>>)

\* The two names of a line; without a separator, both are the whole line.
SourcesOf(line, pair) ==
  LET text == Stripped(line)
      separator == SelectInSeq(text, LAMBDA c : c = "|")
      original == IF separator = 0 THEN text ELSE SubSeq(text, 1, separator - 1)
  IN  <<SourceOf(original, pair, "original"), SourceOf(SubSeq(text, separator + 1, Len(text)), pair, "modified")>>

\* option_files_from, which checks the first two lines that count.
IsAccepted(file) ==
  LET lines == InOrder({end \in LineEnds(file) : ~ IsPassedOver(RawLine(file, end))})
  IN  /\ lines # <<>>
      /\ \A n \in DOMAIN lines :
           n <= 2 => Len(SelectSeq(RawLine(file, lines[n]), LAMBDA c : c = "|")) = 1

ReadsOn == UNCHANGED <<current, reported, view, delta, shown>>

\* readline, and one turn of its loop; an empty file has no lines.
BeginLine ==
  /\ phase = "read"
  /\ stream' = LineBegun(stream)
  /\ phase' = IF stream.done THEN "consume" ELSE "look"
  /\ UNCHANGED <<sources, given>> /\ ReadsOn

Look ==
  /\ phase = "look" /\ ~ IsAtEnd(stream)
  /\ stream' = LookedOn(stream)
  /\ UNCHANGED <<sources, given, phase>> /\ ReadsOn

\* The end of readline, and what is made of the line.
EndLine ==
  /\ phase = "look" /\ IsAtEnd(stream)
  /\ LET added == IF ~ HasLine(stream) \/ IsPassedOver(LineRead(stream)) THEN <<>>
                  ELSE SourcesOf(LineRead(stream), Len(sources) \div 2 + 1)
     IN  /\ sources' = sources \o added
         /\ given' = given \o added
  /\ stream' = IF HasLine(stream) THEN LineEnded(stream) ELSE stream
  /\ phase' = IF HasLine(stream) THEN "read" ELSE "consume"
  /\ ReadsOn
-----------------------------------------------------------------------------
(***************************************************************************)
(* process_unit                                                            *)
(***************************************************************************)
Display ==
  /\ delta # <<>>
  /\ view' = Handle(view, Head(delta))
  /\ delta' = Tail(delta)
  /\ UNCHANGED <<sources, current, phase, given, reported, stream, shown>>

\* A delta is transformed by the view; without one it is written.
ProcessUnit(pair) ==
  /\ IF view.kind = "none" THEN UNCHANGED <<delta, shown>>
     ELSE \E d \in Deltas[pair] : /\ delta' = <<StartNode("unit")>> \o d \o <<EndNode("unit")>>
                                  /\ shown' = Append(shown, d)
  /\ UNCHANGED <<stream, view>>

NoUnit == UNCHANGED <<stream, view, delta, shown>>

\* A call of consume; what it displays comes before the next one.
CompareFile == ProcessFile /\ (IF Language THEN ProcessUnit(current["original"].pair) ELSE NoUnit)

ReadDelta == ConsumeSingle /\ (IF sources[1].missing THEN NoUnit ELSE ProcessUnit(sources[1].pair))

Work ==
  /\ delta = <<>>
  /\ \/ CompareFile
     \/ ReadDelta
     \/ (Consume \/ ConsumeMissing \/ ProcessDirectory \/ NoFile) /\ NoUnit

ClientInit ==
  /\ \E command \in Commands :
       /\ given = command.sources
       /\ stream = Open(command.file, command.chunk)
       /\ phase = IF command.file = <<>> THEN "consume" ELSE "read"
       /\ view = command.view
  /\ sources = given
  /\ current = [side \in Both |-> Nothing]
  /\ reported = <<>>
  /\ delta = <<>>
  /\ shown = <<>>

ClientNext == BeginLine \/ Look \/ EndLine \/ Display \/ Work

ClientSpec == ClientInit /\ [][ClientNext]_clientVars /\ WF_clientVars(ClientNext)
-----------------------------------------------------------------------------
(***************************************************************************)
(* What a delta says, character by character: of which operation each one  *)
(* is, whether it is in a comment, and in which outermost function.        *)
(***************************************************************************)
OperationOf == [n \in {"diff:common", "diff:delete", "diff:insert"} |->
                  CASE n = "diff:common" -> "COMMON" [] n = "diff:delete" -> "DELETE" [] OTHER -> "INSERT"]

ReadNode(r, n) ==
  CASE n.type = "TEXT" ->
         [r EXCEPT !.said = @ \o [i \in DOMAIN n.content |->
                                    [char |-> n.content[i], operation |-> Last(r.operations),
                                     is_comment |-> r.is_comment,
                                     function |-> IF r.depth = 0 THEN 0 ELSE r.functions]]]
    [] n.type # "TEXT" /\ n.name \in DOMAIN OperationOf ->
         [r EXCEPT !.operations = IF n.type = "START" THEN Append(@, OperationOf[n.name]) ELSE Front(@)]
    [] n.type # "TEXT" /\ n.name = "comment" -> [r EXCEPT !.is_comment = n.type = "START"]
    [] n.type # "TEXT" /\ n.name = "function" ->
         [r EXCEPT !.depth = IF n.type = "START" THEN @ + 1 ELSE @ - 1,
                   !.functions = IF n.type = "START" /\ r.depth = 0 THEN @ + 1 ELSE @]
    [] OTHER -> r

Text(d) ==
  FoldLeft(ReadNode, [operations |-> <<"COMMON">>, is_comment |-> FALSE, depth |-> 0, functions |-> 0, said |-> <<>>],
           d).said

\* The texts of all deltas, each character with the number of its delta and of the line
\* feeds before it.
Texts ==
  LET text == FlattenSeq([k \in DOMAIN shown |->
                            LET said == Text(shown[k]) IN [n \in DOMAIN said |-> said[n] @@ [document |-> k]]])
  IN  [p \in DOMAIN text |-> text[p] @@ [feeds |-> Cardinality({n \in 1 .. p - 1 : text[n].char = "\n"})]]

IsBlank(c) == c.char \in {" ", "\n"}

IsChanged(c) == c.operation # "COMMON"

\* Whether a character is to be ignored, and has to be seen as changed, by the options.
IsIgnored(c) ==
  \/ IsBlank(c) /\ (view.options.ignore_whitespace \/ view.options.ignore_all_whitespace)
  \/ c.is_comment /\ view.options.ignore_comments

IsSignificant(c) == IsChanged(c) /\ ~ IsIgnored(c)

IgnoresNothing == view.options = Unified!ViewOptions(FALSE, FALSE, FALSE)

\* Line feeds from p up to, but not at, q; and those between p and q.
Feeds(p, q) == q.feeds - p.feeds

FeedsBetween(p, q) == Feeds(p, q) - (IF p.char = "\n" THEN 1 ELSE 0)
-----------------------------------------------------------------------------
(***************************************************************************)
(* The unified view                                                        *)
(***************************************************************************)
IsShowing(kind) == view.kind = kind /\ delta = <<>> /\ shown # <<>>

CountsLines == view.modes = {"LINE"} /\ view.number_context_lines > 0

IsNear(text, p) ==
  \E q \in DOMAIN text :
    /\ IsChanged(text[q])
    /\ \/ p <= q /\ Feeds(text[p], text[q]) <= view.number_context_lines
       \/ q < p /\ FeedsBetween(text[q], text[p]) <= view.number_context_lines

\* The unified view shows every change, once and in its place, as what it is.  Of what is
\* common it shows, for a number of lines, at least as many lines before a change, and
\* nothing that is further from any change than that; for functions, all of a function
\* in which something is changed; and when all is asked for, all of a delta with a change.
\* (unified_view.cpp:260-424; client_options.cpp:442-444)
ChangesInContext ==
  IsShowing("unified") =>
    LET text == Texts
        items == SelectSeq(view.output, LAMBDA o : o.position # 0)
        positions == {items[n].position : n \in DOMAIN items}
        IsOfFunction(p, q) == "FUNCTION" \in view.modes /\ p.function = q.function /\ q.function # 0
        IsBefore(p, q) == CountsLines /\ 0 <= Feeds(p, q) /\ Feeds(p, q) <= view.number_context_lines
    IN  /\ \A n \in DOMAIN items :
             LET said == text[items[n].position]
             IN  /\ n > 1 => items[n - 1].position < items[n].position
                 /\ IsChanged(items[n]) => items[n].operation = said.operation
                 /\ IsSignificant(said) /\ said.char # "\n" => IsChanged(items[n])
        /\ \A q \in DOMAIN text :
             /\ IsSignificant(text[q]) => q \in positions
             /\ IgnoresNothing /\ IsChanged(text[q]) =>
                  \A p \in DOMAIN text \ positions :
                    text[p].document = text[q].document =>
                      /\ view.number_context_lines # -1
                      /\ ~ (p < q /\ IsBefore(text[p], text[q]))
                      /\ ~ IsOfFunction(text[p], text[q])
        /\ IgnoresNothing /\ CountsLines => \A p \in positions : IsNear(text, p)

\* A header of the unified view has the numbers, in both versions, of the line behind it.
\* Wherever lines are left out there is one.  (A changed line feed that is ignored counts
\* as one of both versions; and the end of a document without a line feed, if it was
\* not shown, is shown with the next document.)
\* (unified_view.cpp:104-139)
HeadersTell ==
  (IsShowing("unified") /\ ~ view.options.ignore_all_whitespace /\ ~ view.options.ignore_comments) =>
    LET text == Texts
        Line(p, side) ==
          1 + Cardinality({n \in 1 .. p - 1 : /\ text[n].document = text[p].document /\ text[n].char = "\n"
                                              /\ text[n].operation # side})
        Item(n) == view.output[n]
        IsHeader(n) == Item(n).position = 0
        IsFirst(p) == p = 1 \/ text[p - 1].document # text[p].document
        IsLeft(p) == \A n \in p .. Len(text) :
                       text[n].document = text[p].document => text[n].char # "\n" /\ ~ IsChanged(text[n])
    IN  \A n \in DOMAIN view.output :
          IF IsHeader(n)
          THEN LET behind == SubSeq(view.output, n + 1, Len(view.output))
                   first == SelectInSeq(behind, LAMBDA o : o.position = 0 \/ ~ IsLeft(o.position))
               IN  /\ first # 0 /\ behind[first].position # 0
                   /\ Item(n).delete = Line(behind[first].position, "INSERT")
                   /\ Item(n).insert = Line(behind[first].position, "DELETE")
          ELSE \/ IsFirst(Item(n).position) \/ IsLeft(Item(n).position)
               \/ n > 1 /\ (IsHeader(n - 1) \/ Item(n - 1).position = Item(n).position - 1)
               \/ view.number_context_lines = -1
-----------------------------------------------------------------------------
(***************************************************************************)
(* The side-by-side view                                                   *)
(***************************************************************************)
\* The columns of the side-by-side view hold the two versions: a line of the delta is a
\* row, in which each version has what it has in that line, under the number of the line
\* and, where it is changed, in the colour of the change; and the mark between them tells
\* what is changed in it.
\* (side_by_side_view.cpp:62-141, 267-424)
RowsRead ==
  IsShowing("side-by-side") =>
    \A k \in DOMAIN shown :
      LET text == SelectSeq(Texts, LAMBDA c : c.document = k)
          rows == view.output[k]
          Has(c, column) == c.operation # (IF column = "original" THEN "INSERT" ELSE "DELETE")
          Line(n) == {p \in DOMAIN text : Feeds(text[1], text[p]) = n - 1}
          Counts(c) == IF IgnoresNothing THEN c.char # "\n" \/ IsChanged(c) ELSE ~ IsBlank(c)
          Version(n, column) ==
            LET said == SelectSeq(text, LAMBDA c : Feeds(text[1], c) = n - 1 /\ Has(c, column) /\ Counts(c))
            IN  [i \in DOMAIN said |-> IF said[i].char = "\n" THEN "CR" ELSE said[i].char]
          Column(n, column) ==
            LET characters == SelectSeq(rows[n].text[column], LAMBDA c : IgnoresNothing \/ c.char \notin {" ", "CR"})
            IN  [i \in DOMAIN characters |-> characters[i].char]
          Number(n, column) ==
            1 + Cardinality({p \in UNION {Line(i) : i \in 1 .. n - 1} : text[p].char = "\n" /\ Has(text[p], column)})
          Told(n) ==
            LET Tells(c) == \/ ~ IsIgnored(c)
                            \/ c.char = "\n" /\ (~ IsChanged(c) \/ view.options.ignore_whitespace)
            IN  {text[p].operation : p \in {p \in Line(n) : Tells(text[p])}}
      IN  /\ Len(rows) = 1 + Cardinality({p \in DOMAIN text : text[p].char = "\n"})
          /\ \A n \in DOMAIN rows, column \in {"original", "modified"} :
               /\ Column(n, column) = Version(n, column)
               /\ \A c \in ToSet(rows[n].text[column]) :
                    LET said == Texts[c.position]
                    IN  /\ IsChanged(c) => c.operation = said.operation
                        /\ IsSignificant(said) /\ ~ view.options.ignore_all_whitespace => IsChanged(c)
               /\ rows[n].number[column] \in {0, Number(n, column)}
               /\ rows[n].number[column] = 0 => \A p \in Line(n) : IsSignificant(text[p]) => ~ Has(text[p], column)
          /\ ~ view.options.ignore_all_whitespace =>
               \A n \in DOMAIN rows :
                 rows[n].mark = (CASE Told(n) = {"DELETE"} -> "<"
                                   [] Told(n) = {"INSERT"} -> ">"
                                   [] Told(n) \subseteq {"COMMON"} -> " "
                                   [] OTHER -> "|")
-----------------------------------------------------------------------------
(***************************************************************************)
(* The list of files                                                       *)
(***************************************************************************)
\* What the lines that end at these places add behind some pairs.
Listed(file, ends, before) ==
  LET lines == InOrder(ends)
  IN  FlattenSeq([n \in DOMAIN lines |-> SourcesOf(LineText(file, lines[n]), before + n)])

\* The command lines with a list of files.
ListCommands == {command \in Commands : command.file # <<>>}

KeptEnds(file) == {end \in LineEnds(file) : ~ IsPassedOver(LineText(file, end))}

\* The list adds, line by line, a pair for each line that is not blank or a comment, behind
\* the sources of the command line, wherever the chunks end in which it is read, and whatever
\* ends its lines.
\* (uri_stream.tcc:55-168; input_source_manager.cpp:106-142)
ListRead ==
  (stream.file # <<>> /\ phase \notin {"read", "look"}) =>
    \E command \in ListCommands :
      /\ command.file = stream.file
      /\ given = command.sources \o Listed(stream.file, KeptEnds(stream.file), Len(command.sources) \div 2)
=============================================================================
