---------------------------- MODULE SideBySideView ----------------------------
(***************************************************************************)
(* side_by_side_view: the two versions in two columns, with a mark between *)
(* them.  A delta is laid out line by line, and shown at its end.  The     *)
(* width of a column and the size of a tab are left out.                   *)
(***************************************************************************)
EXTENDS View

LOCAL INSTANCE SequencesExt

Columns == {"original", "modified"}

ColumnsOf(operation) ==
  (IF operation # "INSERT" THEN {"original"} ELSE {}) \cup (IF operation # "DELETE" THEN {"modified"} ELSE {})

InBoth(value) == [column \in Columns |-> value]

\* An entry of line_operations, original_lines and modified_lines: what is in the line,
\* and by how much the numbers of the lines grow behind it.
EmptyRow == [operations |-> {}, text |-> InBoth(<<>>), line_incr |-> InBoth(0)]

Fresh ==
  [rows |-> <<>>, last_character_operation |-> InBoth("COMMON"),
   change_starting_line |-> InBoth(TRUE), change_ending_space |-> InBoth(<<>>)]

\* The constructor and reset_internal
New(options) == NewView("side-by-side", options) @@ Fresh

Reset(s) == Fresh @@ ResetView(s)

AddNewLine(s) ==
  [s EXCEPT !.rows = Append(@, EmptyRow),
            !.last_character_operation = InBoth("UNSET"), !.change_starting_line = InBoth(TRUE)]

\* A changed line feed is shown by a symbol.
CarriageReturnSymbol(c) == Character("CR", c.position)
-----------------------------------------------------------------------------
(***************************************************************************)
(* output_characters, for a token: its first character tells whether it is *)
(* blank.  There is a row, for start_unit adds one.                        *)
(***************************************************************************)
StillStarting(s, token) ==
  [column \in Columns |-> s.change_starting_line[column] /\ IsSpace(token[1])]

InIgnoredComment(s) == s.options.ignore_comments /\ s.in_comment

\* Mutant: blanks count.
IsIgnoredComment(s, token) == InIgnoredComment(s)

IsIgnored(s, token) ==
  \/ IsSpace(token[1]) /\ (s.options.ignore_all_whitespace \/ s.options.ignore_whitespace)
  \/ InIgnoredComment(s)

\* real_operation, which goes on from the original to the modified column.
IsShownAsCommon(s, token, operation, column) ==
  \/ IsSpace(token[1]) /\ s.options.ignore_all_whitespace
  \/ InIgnoredComment(s)
  \/ /\ s.options.ignore_whitespace /\ operation # "COMMON"
     /\ \E c \in ColumnsOf(operation) \cap {column, "original"} : StillStarting(s, token)[c]

RealOperation(s, token, operation) ==
  [column \in ColumnsOf(operation) |->
     IF IsShownAsCommon(s, token, operation, column) THEN "COMMON" ELSE operation]

OutputCharacters(s, token, operation) ==
  LET real == RealOperation(s, token, operation)
  IN  [s EXCEPT
         !.rows[Len(s.rows)].text =
           [column \in DOMAIN real |-> @[column] \o ShownAll(token, real[column])] @@ @,
         !.rows[Len(s.rows)].operations = IF IsIgnored(s, token) THEN @ ELSE (@ \cup {operation}) \ {"UNSET"},
         !.last_character_operation = real @@ @,
         !.change_starting_line = [column \in DOMAIN real |-> StillStarting(s, token)[column]] @@ @]

\* The blanks at the end of a change, which were held back; never those of both columns.
OutputEndingSpace(s, column, operation) ==
  IF s.change_ending_space[column] = <<>> THEN s
  ELSE [OutputCharacters(s, s.change_ending_space[column], operation) EXCEPT
          !.change_ending_space[column] = <<>>]
-----------------------------------------------------------------------------
(***************************************************************************)
(* start_unit, end_unit, start_element, end_element                        *)
(***************************************************************************)
StartUnit(s) == AddNewLine(s)

StartElement(s, name) ==
  IF name \notin DOMAIN OperationNames THEN s
  ELSE [Entered(s, OperationNames[name]) EXCEPT
          !.change_starting_line = [column \in ColumnsOf(OperationNames[name]) |-> TRUE] @@ @]

EndElement(s, name) == IF name \in DOMAIN OperationNames THEN Left(s) ELSE s

Mark(row) ==
  CASE row.operations = {"DELETE"} -> "<"
    [] row.operations = {"INSERT"} -> ">"
    [] row.operations \subseteq {"COMMON"} -> " "
    [] OTHER -> "|"

\* The number of a row's line in a column, 0 if it has none.
LineNumber(rows, n, column) ==
  IF rows[n].operations = {IF column = "original" THEN "INSERT" ELSE "DELETE"} THEN 0
  ELSE 1 + FoldLeft(LAMBDA sum, row : sum + row.line_incr[column], 0, SubSeq(rows, 1, n - 1))

\* output_html numbers the lines and output_bash marks them.
OutputRows(rows) ==
  [n \in DOMAIN rows |-> [mark |-> Mark(rows[n]), text |-> rows[n].text,
                          number |-> [column \in Columns |-> LineNumber(rows, n, column)]]]

EndUnit(s) ==
  LET ended == OutputEndingSpace(OutputEndingSpace(s, "original", "COMMON"), "modified", "COMMON")
  IN  [ended EXCEPT !.output = Append(@, OutputRows(ended.rows))]
-----------------------------------------------------------------------------
(***************************************************************************)
(* characters                                                              *)
(***************************************************************************)
IgnoresSpace(s) == s.options.ignore_whitespace /\ IsChange(s)

\* A line feed is a token.  Otherwise blanks to be ignored are taken together, others
\* one by one with the word behind them.
BeginsToken(s, characters, n) ==
  \/ n = 1
  \/ "\n" \in {characters[n - 1].char, characters[n].char}
  \/ IF IgnoresSpace(s) THEN IsSpace(characters[n - 1]) # IsSpace(characters[n]) ELSE IsSpace(characters[n])

Tokens(s, characters) ==
  LET begins == SetToSortSeq({n \in DOMAIN characters : BeginsToken(s, characters, n)}, <)
  IN  [k \in DOMAIN begins |->
         SubSeq(characters, begins[k], IF k < Len(begins) THEN begins[k + 1] - 1 ELSE Len(characters))]

EndLine(s, c) ==
  LET operation == Operation(s)
      ended == IF s.options.ignore_all_whitespace \/ s.options.ignore_whitespace \/ ~ IsChange(s)
               THEN [s EXCEPT !.rows[Len(s.rows)].operations = @ \cup {operation}]
               ELSE OutputCharacters(s, <<CarriageReturnSymbol(c)>>, operation)
  IN  AddNewLine([ended EXCEPT !.rows[Len(s.rows)].line_incr =
                    [column \in Columns |-> @[column] + (IF column \in ColumnsOf(operation) THEN 1 ELSE 0)]])

\* Blanks that are to be ignored are held back, unless they are at the start of a line.
IgnoredSpace(s, token) ==
  LET back == {column \in Columns : ColumnsOf(Operation(s)) = {column} /\ ~ s.change_starting_line[column]}
  IN  IF back = {} THEN OutputCharacters(s, token, Operation(s))
      ELSE [s EXCEPT !.change_ending_space = [column \in back |-> @[column] \o token] @@ @]

Word(s, token) ==
  LET original == OutputEndingSpace(s, "original", s.last_character_operation["original"])
      modified == OutputEndingSpace(original, "modified", original.last_character_operation["modified"])
  IN  OutputCharacters(modified, token, Operation(s))

OutputToken(s, token) ==
  IF token[1].char = "\n" THEN EndLine(s, token[1])
  ELSE IF IsSpace(token[1]) /\ IgnoresSpace(s) THEN IgnoredSpace(s, token)
  ELSE Word(s, token)

Characters(s, content) ==
  LET original == IF Operation(s) # "DELETE" THEN OutputEndingSpace(s, "original", "COMMON") ELSE s
      modified == IF Operation(s) # "INSERT" THEN OutputEndingSpace(original, "modified", "COMMON") ELSE original
  IN  Passed(FoldLeft(OutputToken, modified, Tokens(s, CharactersOf(s, content))), content)
=============================================================================
