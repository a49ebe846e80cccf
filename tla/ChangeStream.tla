----------------------------- MODULE ChangeStream -----------------------------
(***************************************************************************)
(* change_stream: what is deleted, and then what is inserted, from the     *)
(* cursors to two ends.  A construct with a move number is written by      *)
(* move_detector::output in a diff element of its own.                     *)
(***************************************************************************)
EXTENDS CommonStream

LOCAL INSTANCE SequencesExt

Forced(node, operation) == <<Call(node, operation, TRUE)>>

\* A node of a row of nodes that go out under the operation: with a blank go all the
\* blanks that follow it.  next is the position of the node that is to go next.
Gone(w, s, next) == [w EXCEPT !.s = s, !.next = next]

GoneToCursor(w, s, operation) == Gone(w, s, s.last_output[operation])

OutputAt(w, i, operation) ==
  IF IsWhitespace(At(w.s.nodes[operation], i))
  THEN GoneToCursor(w, OutputAll([w.s EXCEPT !.last_output[operation] = i], operation), operation)
  ELSE Gone(w, Output(w.s, Plain(<<At(w.s.nodes[operation], i)>>, operation)), i + 1)

Positions(i, n) == [k \in 1 .. n - i |-> i + k - 1]

\* move_detector::output: the nodes from i to the next one with its move number.
OutputMove(w, i, operation) ==
  LET nodes == w.s.nodes[operation]
      end == CHOOSE j \in i + 1 .. Len(nodes) - 1 :
               /\ At(nodes, j).move = At(nodes, i).move
               /\ \A k \in i + 1 .. j - 1 : At(nodes, k).move # At(nodes, i).move
      start == Gone(w, Output(w.s, Forced(DiffStart(operation), operation)
                                     \o Plain(<<At(nodes, i)>>, operation)), i + 1)
      Inside(v, k) == IF k < v.next THEN v ELSE OutputAt(v, k, operation)
      End(v) == Gone(v, Output(v.s, Plain(<<At(nodes, end)>>, operation)
                                      \o Forced(DiffEnd(operation), operation)), end + 1)
  IN  End(FoldLeft(Inside, start, Positions(i + 1, end)))

\* The output is in the operation no more.
Leave(s, operation) ==
  IF OutputState(s) = operation THEN Output(s, Plain(<<DiffEnd(operation)>>, operation)) ELSE s

CursorAt(s, position, operation) == [s EXCEPT !.last_output[operation] = position]

\* One side of output.  The diff element is opened for the first node, but for a move
\* only if the change is a replacement; its start and end are forced if it is.
OutputSide(s, end, operation, is_replace) ==
  LET begin == s.last_output[operation]
      open(v) == IF v.opened THEN v
                 ELSE [v EXCEPT !.s = Output(@, <<Call(DiffStart(operation), operation, is_replace)>>),
                                !.opened = TRUE]
      one(v, i) == IF i < v.next THEN v
                   ELSE IF At(s.nodes[operation], i).move = 0 THEN OutputAt(open(v), i, operation)
                   ELSE OutputMove(IF is_replace THEN open(v) ELSE v, i, operation)
      close(v) == IF v.opened THEN Output(v.s, <<Call(DiffEnd(operation), operation, is_replace)>>) ELSE v.s
      row == FoldLeft(one, [s |-> s, next |-> begin, opened |-> FALSE], Positions(begin, end))
  IN  IF begin >= end THEN s ELSE CursorAt(Leave(close(row), operation), end, operation)

\* output, and output_change.  The deletion before a replacement is ended, not
\* continued.
OutputChange(s, ends) ==
  LET is_replace == \A side \in Sides : ends[side] > s.last_output[side]
      t == IF is_replace /\ IsDelayType(s, "DELETE")
           THEN Output(s, Forced(DiffEnd("DELETE"), "DELETE")) ELSE s
  IN  OutputSide(OutputSide(t, ends["DELETE"], "DELETE", is_replace), ends["INSERT"], "INSERT", is_replace)

\* differ::output_pure and output_change_whitespace
OutputChangeWhitespace(s, ends) == OutputChange(OutputPrefix(s), ends)

\* differ::output_replace_inner_whitespace: two constructs of which the first nodes are
\* the same.
OutputReplaceInnerWhitespace(s, start_original, ends, common_offset) ==
  LET last == [side \in Sides |-> ends[side] - 1]
      common == Slice(s.nodes["DELETE"], start_original, start_original + common_offset)
      Beyond(t) == [t EXCEPT !.last_output = [side \in Sides |-> @[side] + common_offset]]
      begun == Beyond(Output(OutputAll(s, "COMMON"), Plain(<<DiffStart("COMMON")>> \o common, "COMMON")))
  IN  Output(OutputCommon(OutputChangeWhitespace(begun, last), ends), Plain(<<DiffEnd("COMMON")>>, "COMMON"))
=============================================================================
