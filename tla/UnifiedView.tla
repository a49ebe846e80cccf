----------------------------- MODULE UnifiedView -----------------------------
(***************************************************************************)
(* unified_view: the changes, with some lines of context around them.      *)
(* Lines before a change are kept back in additional_context, the one that *)
(* is being read in context; lines after a change are counted.             *)
(***************************************************************************)
EXTENDS View

LOCAL INSTANCE SequencesExt

CONSTANTS
  UnsignedWidth,   \* bits of unsigned
  SizeWidth        \* bits of size_t

AsSize(n) == n % (2 ^ SizeWidth)

\* number_context_lines and modes: a number of lines, -1 for all, or functions.
Context(lines, modes) == [number_context_lines |-> lines, modes |-> modes]

Fresh ==
  [last_character_operation |-> "UNSET", line_number_delete |-> 0, line_number_insert |-> 0,
   is_after_change |-> FALSE, wait_change |-> TRUE, in_function |-> 0, additional_context |-> <<>>,
   is_after_additional |-> FALSE, after_edit_count |-> 0, last_context_line |-> 2 ^ UnsignedWidth - 1,
   change_starting_line |-> FALSE, change_ending_space |-> <<>>, change_ending_operation |-> "UNSET"]

\* The constructor.
New(options, context) == NewView("unified", options) @@ context @@ Fresh @@ [context |-> <<>>]

\* The header of a hunk, in the output, where it has no position.
Header(delete, insert) == [position |-> 0, delete |-> delete, insert |-> insert]

\* Mutant: the state of the last hunk is kept.
ResetButWaiting(u) ==
  [Fresh EXCEPT !.last_context_line = AsSize(-1), !.wait_change = u.wait_change] @@ ResetView(u)

\* reset and reset_internal, which leave the line that was being read.
Reset(u) == [Fresh EXCEPT !.last_context_line = AsSize(-1)] @@ ResetView(u)
-----------------------------------------------------------------------------
InMode(u, mode) == mode \in u.modes

CountsLines(u) == InMode(u, "LINE") /\ (~ InMode(u, "FUNCTION") \/ u.in_function = 0)

OutputCharacters(u, characters, operation) ==
  [u EXCEPT !.output = @ \o ShownAll(characters, operation), !.last_character_operation = operation]

\* The blanks at the end of a change, which were held back.
OutputEndingSpace(u, operation) ==
  IF u.change_ending_space = <<>> THEN u
  ELSE [OutputCharacters(u, u.change_ending_space, operation) EXCEPT
          !.change_ending_space = <<>>, !.change_ending_operation = "UNSET"]

\* Mutant: the lines kept back are not counted off.
HeaderOfChange(u) == <<Header(AsSize(u.line_number_delete + 1), AsSize(u.line_number_insert + 1))>>

\* The header of the hunk that begins with the lines kept back.
HunkHeader(u) ==
  <<Header(AsSize(u.line_number_delete + 1 - Len(u.additional_context)),
           AsSize(u.line_number_insert + 1 - Len(u.additional_context)))>>

IsNewHunk(u) ==
  u.number_context_lines # -1 /\ u.wait_change /\ u.last_context_line # AsSize(u.line_number_delete - 1)

OutputAdditionalContext(u) ==
  [u EXCEPT !.output = @ \o (IF IsNewHunk(u) THEN HunkHeader(u) ELSE <<>>) \o FlattenSeq(u.additional_context),
            !.additional_context = <<>>]
-----------------------------------------------------------------------------
(***************************************************************************)
(* start_element and end_element                                           *)
(***************************************************************************)
\* A comment that is ignored is common, whatever is in it.
StartElement(u, name) ==
  IF IsDiffName(name)
  THEN IF u.options.ignore_comments /\ u.in_comment THEN u
       ELSE IF name # "diff:ws" THEN Entered(u, OperationNames[name])
       ELSE IF u.options.ignore_all_whitespace THEN Entered(u, "COMMON")
       ELSE u
  ELSE IF name = "comment" /\ u.options.ignore_comments THEN Entered(u, "COMMON")
  ELSE IF name = "function" /\ InMode(u, "FUNCTION")
       THEN [u EXCEPT !.in_function = @ + 1, !.additional_context = IF u.in_function = 0 THEN <<>> ELSE @]
  ELSE u

EndElement(u, name) ==
  IF IsDiffName(name)
  THEN IF u.options.ignore_comments /\ u.in_comment THEN u
       ELSE IF name # "diff:ws" \/ u.options.ignore_all_whitespace THEN Left(u)
       ELSE u
  ELSE IF name = "comment" /\ u.options.ignore_comments THEN Left(u)
  ELSE IF name = "function" /\ InMode(u, "FUNCTION")
       THEN [u EXCEPT !.in_function = @ - 1, !.additional_context = IF u.in_function = 1 THEN <<>> ELSE @]
  ELSE u

\* A delta without a change is shown only when everything is asked for.
EndUnit(u) ==
  LET ended == OutputEndingSpace(u, "COMMON")
  IN  IF ended.number_context_lines # -1 /\ ended.wait_change THEN ended ELSE OutputAdditionalContext(ended)
-----------------------------------------------------------------------------
(***************************************************************************)
(* characters                                                              *)
(***************************************************************************)
EndsHunk(u) ==
  \/ CountsLines(u) /\ u.after_edit_count + 1 = AsSize(u.number_context_lines)
  \/ InMode(u, "FUNCTION") /\ u.in_function = 0

KeepsBack(u) ==
  /\ u.wait_change
  /\ \/ CountsLines(u) /\ u.number_context_lines # 0
     \/ InMode(u, "FUNCTION") /\ u.in_function > 0

Kept(u) ==
  Append(IF CountsLines(u) /\ Len(u.additional_context) >= AsSize(u.number_context_lines)
         THEN Tail(u.additional_context) ELSE u.additional_context, u.context)

\* What the end of a line is to the context: the first one behind a change ends the
\* line of the change, the others are counted.
CountLine(u) ==
  CASE u.is_after_change -> [u EXCEPT !.is_after_change = FALSE, !.is_after_additional = TRUE]
    [] ~ u.is_after_change /\ u.is_after_additional ->
         IF EndsHunk(u)
         THEN [u EXCEPT !.is_after_additional = FALSE, !.after_edit_count = 0, !.wait_change = TRUE,
                        !.last_context_line = u.line_number_delete, !.last_character_operation = "UNSET"]
         ELSE [u EXCEPT !.after_edit_count = @ + 1]
    [] ~ u.is_after_change /\ ~ u.is_after_additional /\ KeepsBack(u) ->
         [u EXCEPT !.additional_context = Kept(u), !.last_character_operation = "UNSET"]
    [] OTHER -> u

EndLine(u) ==
  LET line == CountLine([OutputEndingSpace(u, "COMMON") EXCEPT !.change_starting_line = @ \/ IsChange(u)])
  IN  [line EXCEPT !.line_number_delete = IF Operation(u) # "INSERT" THEN @ + 1 ELSE @,
                   !.line_number_insert = IF Operation(u) # "DELETE" THEN @ + 1 ELSE @,
                   !.context = <<>>]

\* A blank of a change that is to be ignored: common at the start of a line, or held back
\* until it is known whether it is the last one.
IgnoredSpace(u, c) ==
  IF u.change_starting_line THEN OutputCharacters(u, <<c>>, "COMMON")
  ELSE [u EXCEPT !.change_ending_space = Append(@, c), !.change_ending_operation = Operation(u)]

\* One turn of the loop.  Rows of other characters than blanks, which the code takes at
\* once, are taken one by one.
OutputOne(u, c) ==
  LET ignored == IsSpace(c) /\ u.options.ignore_whitespace /\ IsChange(u)
      before == IF ignored THEN IgnoredSpace(u, c)
                ELSE IF IsSpace(c) THEN u
                ELSE [OutputEndingSpace(u, Operation(u)) EXCEPT !.change_starting_line = FALSE]
      shown == IF u.wait_change
               THEN [before EXCEPT !.context = Append(@, Shown(c, "COMMON")), !.last_character_operation = "COMMON"]
               ELSE IF ignored THEN before
               ELSE OutputCharacters(before, <<c>>, IF c.char = "\n" THEN "COMMON" ELSE Operation(u))
  IN  IF c.char = "\n" THEN EndLine(shown) ELSE shown

\* The beginning of a change ends the waiting: what was kept back is shown.
BeginChange(u) ==
  IF ~ IsChange(u) THEN u
  ELSE LET shown == OutputAdditionalContext(u)
       IN  [shown EXCEPT !.is_after_additional = FALSE, !.is_after_change = FALSE, !.wait_change = FALSE,
                         !.output = @ \o u.context, !.context = <<>>]

Characters(u, content) ==
  LET begun == BeginChange(u)
      ended == IF begun.change_ending_operation # Operation(u) THEN OutputEndingSpace(begun, "COMMON") ELSE begun
      started == [ended EXCEPT !.change_starting_line =
                    @ \/ (/\ ended.last_character_operation \in {"UNSET", "COMMON"}
                          /\ IsChange(u) /\ u.options.ignore_whitespace)]
      done == FoldLeft(OutputOne, started, CharactersOf(u, content))
  IN  [Passed(done, content) EXCEPT !.is_after_change = @ \/ IsChange(u)]
=============================================================================
