----------------------------- MODULE OutputStream -----------------------------
(***************************************************************************)
(* output_stream: one document for two versions.  A node is written under  *)
(* an operation.  The stream keeps the tags that are open as a stack of    *)
(* sets, one set for each change of the operation; the end of a diff       *)
(* element is held back, because the next node may go on with it, and so   *)
(* is the end of a whitespace element.                                     *)
(*                                                                         *)
(* The state is one record, which the operators take and return: the       *)
(* differs make many calls in a row.  Here any caller may make any call.   *)
(***************************************************************************)
EXTENDS Nodes

LOCAL INSTANCE SequencesExt

DiffOperations == {"COMMON", "DELETE", "INSERT"}

\* The two inputs, and the output: who keeps a stack of open tags.
Sides == {"DELETE", "INSERT"}
Streams == Sides \cup {"OUTPUT"}

DiffName == [COMMON |-> "diff:common", DELETE |-> "diff:delete", INSERT |-> "diff:insert"]

DiffStart(operation) == StartNode(DiffName[operation])
DiffEnd(operation) == EndNode(DiffName[operation])
WsStart == StartNode("diff:ws")
WsEnd == EndNode("diff:ws")

DiffEnds == {DiffEnd(operation) : operation \in DiffOperations}

DiffSet(operation, open_tags) == [operation |-> operation, open_tags |-> open_tags]

(***************************************************************************)
(* A new stream, primed.  A version that does not exist has no nodes; its  *)
(* stack then begins with a diff tag instead of the unit.  The first node  *)
(* is the unit, which start_unit writes.                                   *)
(***************************************************************************)
Primed(nodes) ==
  [nodes |-> nodes,
   last_output |-> [side \in Sides |-> 1],
   open_diff |->
     [stream \in Streams |->
        <<DiffSet("COMMON",
                  IF stream \in Sides /\ nodes[stream] = <<>> THEN <<"diff:common">> ELSE <<"unit">>)>>],
   delay |-> "NONE",
   delay_ws_end |-> FALSE,
   unit |-> <<>>,
   move_id |-> 0,
   status |-> "running"]

OpenDiff(s) == Last(s.open_diff["OUTPUT"])

\* output_state
OutputState(s) == OpenDiff(s).operation

InnermostTag(s) == Last(OpenDiff(s).open_tags)

\* is_delay_type
IsDelayType(s, operation) == s.delay = operation
-----------------------------------------------------------------------------
\* Mutant: a set of which the last tag is taken off stays.
UpdateDiffStackKeepingEmpty(open_diffs, node, operation) ==
  LET diffs == IF Last(open_diffs).operation # operation
               THEN Append(open_diffs, DiffSet(operation, <<>>)) ELSE open_diffs
      tags == Last(diffs).open_tags
  IN  IF IsText(node) THEN open_diffs
      ELSE IF node.type = "START"
      THEN Append(Front(diffs), DiffSet(operation, Append(tags, node.name)))
      ELSE IF tags = <<>> \/ (Len(diffs) = 1 /\ Len(tags) = 1) THEN diffs
      ELSE Append(Front(diffs), DiffSet(operation, Front(tags)))

\* update_diff_stack.  An end pops a tag of the innermost set, even when the end
\* belongs to another operation and the set was made for it.
UpdateDiffStack(open_diffs, node, operation) ==
  LET diffs == IF Last(open_diffs).operation # operation
               THEN Append(open_diffs, DiffSet(operation, <<>>)) ELSE open_diffs
      tags == Last(diffs).open_tags
      updated == IF node.type = "START" THEN Append(tags, node.name) ELSE Front(tags)
  IN  IF IsText(node) THEN open_diffs
      ELSE IF node.type = "END" /\ Len(diffs) = 1 /\ Len(tags) = 1 THEN diffs
      ELSE IF updated = <<>> THEN Front(diffs)
      ELSE Append(Front(diffs), DiffSet(operation, updated))

\* update_diff_stacks
UpdateDiffStacks(s, node, operation) ==
  [s EXCEPT !.open_diff =
     [stream \in Streams |->
        IF stream = "OUTPUT" \/ operation \in {"COMMON", stream}
        THEN UpdateDiffStack(@[stream], node, operation) ELSE @[stream]]]

\* The private output_node: a whitespace element that ends and begins again goes on.
Write(s, node) ==
  IF s.delay_ws_end /\ node = WsStart THEN [s EXCEPT !.delay_ws_end = FALSE]
  ELSE [s EXCEPT !.unit = @ \o (IF s.delay_ws_end THEN <<WsEnd>> ELSE <<>>)
                            \o (IF node = WsEnd THEN <<>> ELSE <<node>>),
                 !.delay_ws_end = node = WsEnd]

\* Mutants: the end is written and the stacks are not told; they are told under the
\* operation that follows.
UndelayUntold(s, operation) ==
  IF s.delay \notin {"NONE", operation} /\ InnermostTag(s) = DiffName[s.delay]
  THEN [Write(s, DiffEnd(s.delay)) EXCEPT !.delay = "NONE"]
  ELSE [s EXCEPT !.delay = "NONE"]

UndelayUnderNext(s, operation) ==
  IF s.delay \notin {"NONE", operation} /\ InnermostTag(s) = DiffName[s.delay]
  THEN [UpdateDiffStacks(Write(s, DiffEnd(s.delay)), DiffEnd(s.delay), operation) EXCEPT !.delay = "NONE"]
  ELSE [s EXCEPT !.delay = "NONE"]

\* A diff element whose end is held back ends when another operation follows.
Undelay(s, operation) ==
  IF s.delay \notin {"NONE", operation} /\ InnermostTag(s) = DiffName[s.delay]
  THEN [UpdateDiffStacks(Write(s, DiffEnd(s.delay)), DiffEnd(s.delay), s.delay) EXCEPT !.delay = "NONE"]
  ELSE [s EXCEPT !.delay = "NONE"]

(***************************************************************************)
(* output_node.  The end of an element that is not the innermost one is    *)
(* dropped; the end of a diff element is held back unless it is forced;    *)
(* the start of one that is open already is dropped unless it is forced.   *)
(***************************************************************************)
\* Mutant: the end of a diff element is held back whatever is innermost.
OutputEndUnchecked(s, node, force_output) ==
  IF ~ force_output /\ node \in DiffEnds THEN [s EXCEPT !.delay = OutputState(s)]
  ELSE IF InnermostTag(s) # node.name THEN s
  ELSE UpdateDiffStacks(Write(s, node), node, OutputState(s))

OutputEnd(s, node, force_output) ==
  IF InnermostTag(s) # node.name THEN s
  ELSE IF ~ force_output /\ node \in DiffEnds THEN [s EXCEPT !.delay = OutputState(s)]
  ELSE UpdateDiffStacks(Write(s, node), node, OutputState(s))

OutputUndelayed(s, node, operation, force_output) ==
  IF node.type = "END" THEN OutputEnd(s, node, force_output)
  ELSE IF ~ force_output /\ node = DiffStart(OutputState(s)) THEN s
  ELSE UpdateDiffStacks(Write(s, node), node, operation)

OutputNode(s, node, operation, force_output) ==
  OutputUndelayed(Undelay(s, operation), node, operation, force_output)

\* end_unit: an empty text, for what is held back to be written; the end of the unit
\* is written by the library.
EndUnit(s) == OutputNode(s, TextNode(<<>>), "COMMON", FALSE)

-----------------------------------------------------------------------------
(***************************************************************************)
(* The tags open in a stack from the outermost to the innermost, with the  *)
(* operation each was opened under.                                        *)
(***************************************************************************)
OpenTags(open_diffs) ==
  FlattenSeq([n \in DOMAIN open_diffs |->
                [k \in DOMAIN open_diffs[n].open_tags |->
                   [operation |-> open_diffs[n].operation, name |-> open_diffs[n].open_tags[k]]]])

Names(tags) == [n \in DOMAIN tags |-> tags[n].name]

\* Of these tags the ones that the stack of a version is to hold.
OfVersion(tags, side) ==
  LET held[n \in 0 .. Len(tags)] ==
        IF n = 0 THEN <<>>
        ELSE IF tags[n].operation \in {"COMMON", side} THEN Append(held[n - 1], tags[n])
        ELSE held[n - 1]
  IN  held[Len(tags)]

\* What is open behind a node, and the elements open in what is written.
OpenBehind(open, node) ==
  IF node.type = "START" THEN Append(open, node.name)
  ELSE IF node.type = "END" THEN Front(open)
  ELSE open

OpenElements(nodes) ==
  LET open[n \in 0 .. Len(nodes)] ==
        IF n = 0 THEN <<"unit">> ELSE OpenBehind(open[n - 1], nodes[n])
  IN  open[Len(nodes)]
=============================================================================
