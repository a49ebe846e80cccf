-------------------------------- MODULE View --------------------------------
(***************************************************************************)
(* view_t: what the unified and the side-by-side view have in common.  A   *)
(* view is a handler for the tags and texts of a delta, which is a list of *)
(* nodes as output_stream writes them.                                     *)
(*                                                                         *)
(* A character is shown by its position among the characters of all deltas *)
(* that were displayed, and in the colour of an operation.  Themes,        *)
(* keywords and escaping are left out.  So is save_name: it is set below   *)
(* an element of the name diff:delete-type-replace, and the diff elements  *)
(* of a delta are common, delete, insert and ws.                           *)
(***************************************************************************)
EXTENDS Nodes

LOCAL INSTANCE SequencesExt

\* The options of the command line that make a difference.
ViewOptions(all_whitespace, whitespace, comments) ==
  [ignore_all_whitespace |-> all_whitespace, ignore_whitespace |-> whitespace, ignore_comments |-> comments]

Character(char, position) == [char |-> char, position |-> position]

IsSpace(c) == c.char \in {" ", "\n"}

Shown(c, operation) == [char |-> c.char, position |-> c.position, operation |-> operation]

ShownAll(characters, operation) == [n \in DOMAIN characters |-> Shown(characters[n], operation)]

\* The members of view_t: the operations of the open diff elements, and whether a
\* comment is open; output is what was shown.  length counts the characters of all
\* deltas, for the properties.
NewView(kind, options) ==
  [kind |-> kind, options |-> options, diff_stack |-> <<>>, in_comment |-> FALSE, output |-> <<>>, length |-> 0]

\* reset, at the end of transform
ResetView(v) == [v EXCEPT !.diff_stack = <<>>, !.in_comment = FALSE]

\* The operation that is displayed.
Operation(v) == Last(v.diff_stack)

IsChange(v) == Operation(v) # "COMMON"

Entered(v, operation) == [v EXCEPT !.diff_stack = Append(@, operation)]

Left(v) == [v EXCEPT !.diff_stack = Front(@)]

\* What the diff elements stand for.
OperationNames == [n \in {"diff:common", "diff:delete", "diff:insert"} |->
                     CASE n = "diff:common" -> "COMMON" [] n = "diff:delete" -> "DELETE" [] OTHER -> "INSERT"]

IsDiffName(name) == name \in DOMAIN OperationNames \cup {"diff:ws"}

\* startElement and endElement, before they go to the view that derives from this one.
OpenElement(v, name) == IF name = "comment" THEN [v EXCEPT !.in_comment = TRUE] ELSE v

CloseElement(v, name) == IF name = "comment" THEN [v EXCEPT !.in_comment = FALSE] ELSE v

\* The characters of a text node, and a view that has passed them.
CharactersOf(v, content) == [n \in DOMAIN content |-> Character(content[n], v.length + n)]

Passed(v, content) == [v EXCEPT !.length = @ + Len(content)]
=============================================================================
