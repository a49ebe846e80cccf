--------------------------- MODULE WhitespaceStream ---------------------------
(***************************************************************************)
(* whitespace_stream: the blanks behind the cursors (last_output) of the   *)
(* two versions.  Blanks that both have are common, the others are marked  *)
(* up as deleted and inserted whitespace.                                  *)
(***************************************************************************)
EXTENDS OutputStream

\* A call of output_node, and a row of calls.
Call(node, operation, force_output) ==
  [node |-> node, operation |-> operation, force_output |-> force_output]

RECURSIVE Output(_, _)
Output(s, calls) ==
  IF calls = <<>> THEN s
  ELSE Output(OutputNode(s, Head(calls).node, Head(calls).operation, Head(calls).force_output), Tail(calls))

Plain(nodes, operation) == [n \in DOMAIN nodes |-> Call(nodes[n], operation, FALSE)]

\* Nodes in a diff element of the operation; blanks, in a whitespace element in it.
Enclosed(nodes, operation) ==
  Plain(<<DiffStart(operation)>> \o nodes \o <<DiffEnd(operation)>>, operation)

Within(nodes, operation) == IF nodes = <<>> THEN <<>> ELSE Enclosed(nodes, operation)

Blanks(nodes, operation) ==
  IF nodes = <<>> THEN <<>> ELSE Enclosed(<<WsStart>> \o nodes \o <<WsEnd>>, operation)

MaxOf(a, b) == IF a >= b THEN a ELSE b
MinOf(a, b) == IF a <= b THEN a ELSE b

\* The longest prefix, and the longest suffix, of two rows of nodes that is the same.
SharedPrefix(one, two) ==
  CHOOSE n \in 0 .. MinOf(Len(one), Len(two)) :
    /\ \A k \in 1 .. n : Same(one[k], two[k])
    /\ n < MinOf(Len(one), Len(two)) => ~ Same(one[n + 1], two[n + 1])

SharedSuffix(one, two) ==
  CHOOSE n \in 0 .. MinOf(Len(one), Len(two)) :
    /\ \A k \in 0 .. n - 1 : Same(one[Len(one) - k], two[Len(two) - k])
    /\ n < MinOf(Len(one), Len(two)) => ~ Same(one[Len(one) - n], two[Len(two) - n])

Advance(s, ends) ==
  [s EXCEPT !.last_output = [side \in Sides |-> MaxOf(ends[side], @[side])]]

\* The ends of the blanks behind the cursors.
BlankEnds(s) ==
  [side \in Sides |-> SkipWhitespace(s.nodes[side], s.last_output[side], Len(s.nodes[side]))]

\* The last part of markup_whitespace: the blanks of each version behind the shared
\* ones, of which the last are shared too.  What is inserted goes first where the
\* output is in an insertion.
MarkupRest(s, rest, suffix) ==
  LET Own(side) == Blanks(SubSeq(rest[side], 1, Len(rest[side]) - suffix), side)
      common == SubSeq(rest["DELETE"], Len(rest["DELETE"]) - suffix + 1, Len(rest["DELETE"]))
  IN  Output(s, (IF OutputState(s) = "INSERT" THEN Own("INSERT") \o Own("DELETE")
                 ELSE Own("DELETE") \o Own("INSERT")) \o Within(common, "COMMON"))

\* Mutant: the blank where the search for the shared suffix stops is not compared.
MarkupBlanksUncompared(s, blanks, prefix) ==
  LET rest == [side \in Sides |-> SubSeq(blanks[side], prefix + 1, Len(blanks[side]))]
      suffix == SharedSuffix(rest["DELETE"], rest["INSERT"])
  IN  MarkupRest(Output(s, Within(SubSeq(blanks["DELETE"], 1, prefix), "COMMON")),
                 rest, MinOf(suffix + 1, MinOf(Len(rest["DELETE"]), Len(rest["INSERT"]))))

MarkupBlanks(s, blanks, prefix) ==
  LET rest == [side \in Sides |-> SubSeq(blanks[side], prefix + 1, Len(blanks[side]))]
  IN  MarkupRest(Output(s, Within(SubSeq(blanks["DELETE"], 1, prefix), "COMMON")),
                 rest, SharedSuffix(rest["DELETE"], rest["INSERT"]))

\* markup_whitespace, of the blanks up to the ends.
MarkupWhitespace(s, ends) ==
  LET blanks == [side \in Sides |-> Slice(s.nodes[side], s.last_output[side], ends[side])]
  IN  Advance(MarkupBlanks(s, blanks, SharedPrefix(blanks["DELETE"], blanks["INSERT"])), ends)

\* output_all, with the blanks of one version for DELETE and INSERT; output_nested is
\* output_all of the outer version.
OutputAll(s, operation) ==
  MarkupWhitespace(s, [side \in Sides |-> IF operation \in {"COMMON", side} THEN BlankEnds(s)[side]
                                          ELSE s.last_output[side]])

\* Common blanks, which both versions have behind their cursors.
OutputShared(s, length) ==
  IF length = 0 THEN s
  ELSE LET start == s.last_output
           common == Slice(s.nodes["DELETE"], start["DELETE"], start["DELETE"] + length)
       IN  Advance(Output(s, Within(common, "COMMON")), [side \in Sides |-> start[side] + length])

\* The blanks up to the last line feed in them, or all of them if there is none and
\* neither version is at the beginning of a line.
PrefixLength(s, shared) ==
  LET lines == {n \in 1 .. shared : IsNewLine(At(s.nodes["DELETE"], s.last_output["DELETE"] + n - 1))}
      at_line(side) == IsNewLine(At(s.nodes[side], s.last_output[side] - 1))
  IN  IF lines # {} THEN CHOOSE n \in lines : \A m \in lines : m <= n
      ELSE IF \E side \in Sides : at_line(side) THEN 0 ELSE shared

\* output_prefix
OutputPrefix(s) ==
  LET blanks == [side \in Sides |-> Slice(s.nodes[side], s.last_output[side], BlankEnds(s)[side])]
  IN  OutputShared(s, PrefixLength(s, SharedPrefix(blanks["DELETE"], blanks["INSERT"])))
=============================================================================
