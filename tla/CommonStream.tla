----------------------------- MODULE CommonStream -----------------------------
(***************************************************************************)
(* common_stream: constructs that are equal but for blanks.  The two rows  *)
(* of nodes are walked together; a text may be cut into nodes differently. *)
(* Nodes that differ otherwise end the program, and characters that differ *)
(* would be looked at forever.                                             *)
(***************************************************************************)
EXTENDS WhitespaceStream

IsSpace(c) == c \in {" ", "\n"}

\* What a walk comes to: the calls it makes, and whether the program goes on.
Walked(calls, status) == [calls |-> calls, status |-> status]

First(calls, walk) == [walk EXCEPT !.calls = calls \o @]

\* The end of the run of texts, or of characters, that begins at i.
RunEnd(Holds(_), i, n) ==
  IF i >= n THEN i
  ELSE CHOOSE j \in i .. n : (\A k \in i .. j - 1 : Holds(k)) /\ (j < n => ~ Holds(j))

Text(nodes) ==
  LET said == Said(nodes) IN [n \in DOMAIN said |-> said[n][2]]

SpaceEnd(text, i) == RunEnd(LAMBDA k : IsSpace(text[k + 1]), i, Len(text))

\* The blanks that a text has at i, as nodes of one character.
Spaces(text, i) == [n \in 1 .. SpaceEnd(text, i) - i |-> TextNode(<<text[i + n]>>)]

\* Two texts, character by character.  Of what is left of one of them only the blanks
\* it begins with are written.
MarkupTexts(one, two) ==
  LET Rest(text, i, operation) ==
        IF i = Len(text) THEN <<>> ELSE Enclosed(Spaces(text, i), operation)
      W[i \in 0 .. Len(one), j \in 0 .. Len(two)] ==
        IF i = Len(one) \/ j = Len(two)
        THEN Walked(Rest(one, i, "DELETE") \o Rest(two, j, "INSERT"), "running")
        ELSE IF one[i + 1] = two[j + 1]
        THEN First(Plain(<<TextNode(<<one[i + 1]>>)>>, "COMMON"), W[i + 1, j + 1])
        ELSE IF IsSpace(one[i + 1]) \/ IsSpace(two[j + 1])
        THEN First(Within(Spaces(one, i), "DELETE") \o Within(Spaces(two, j), "INSERT"),
                   W[SpaceEnd(one, i), SpaceEnd(two, j)])
        ELSE Walked(<<>>, "stuck")
  IN  W[0, 0]

\* The loop of markup_common from the cursors to the ends, and the nodes left over.
Walk(s, ends) ==
  LET one == s.nodes["DELETE"]
      two == s.nodes["INSERT"]
      oend == ends["DELETE"]
      nend == ends["INSERT"]
      W[i \in 0 .. Len(one), j \in 0 .. Len(two)] ==
        LET o == At(one, i)
            m == At(two, j)
            oblank == SkipWhitespace(one, i, oend)
            nblank == SkipWhitespace(two, j, nend)
            otext == RunEnd(LAMBDA k : IsText(At(one, k)), i, oend)
            ntext == RunEnd(LAMBDA k : IsText(At(two, k)), j, nend)
        IN  IF i >= oend \/ j >= nend
            THEN Walked(Within(Slice(one, i, oend), "DELETE") \o
                        (IF i < oend THEN <<>> ELSE Within(Slice(two, j, nend), "INSERT")), "running")
            ELSE IF Same(o, m)
            THEN First(Plain(<<o>>, "COMMON"), W[i + 1, j + 1])
            ELSE IF IsWhitespace(o) /\ IsWhitespace(m)
            THEN LET suffix == SharedSuffix(Slice(one, i, oblank), Slice(two, j, nblank))
                 IN  First(Blanks(Slice(one, i, oblank - suffix), "DELETE")
                             \o Blanks(Slice(two, j, nblank - suffix), "INSERT")
                             \o Plain(Slice(one, oblank - suffix, oblank), "COMMON"),
                           W[oblank, nblank])
            ELSE IF IsWhitespace(o) THEN First(Blanks(Slice(one, i, oblank), "DELETE"), W[oblank, j])
            ELSE IF IsWhitespace(m) THEN First(Blanks(Slice(two, j, nblank), "INSERT"), W[i, nblank])
            ELSE IF IsText(o) /\ IsText(m)
            THEN LET texts == MarkupTexts(Text(Slice(one, i, otext)), Text(Slice(two, j, ntext)))
                 IN  IF texts.status = "running" THEN First(texts.calls, W[otext, ntext]) ELSE texts
            ELSE Walked(<<>>, "fatal")
  IN  W[s.last_output["DELETE"], s.last_output["INSERT"]]

OutputWalk(s, walk, ends) ==
  [Advance(Output(s, walk.calls), ends) EXCEPT !.status = walk.status]

\* markup_common
MarkupCommon(s, ends) == IF s.status = "running" THEN OutputWalk(s, Walk(s, ends), ends) ELSE s

Passed(s, ends) == \A side \in Sides : s.last_output[side] >= ends[side]

\* output_common, where blanks have been written.
OutputCommonNodes(s, ends) ==
  IF Passed(s, ends) THEN s
  ELSE Output(MarkupCommon(Output(s, Plain(<<DiffStart("COMMON")>>, "COMMON")), ends),
              Plain(<<DiffEnd("COMMON")>>, "COMMON"))

\* output, and output_common
OutputCommon(s, ends) == IF Passed(s, ends) THEN s ELSE OutputCommonNodes(OutputAll(s, "COMMON"), ends)
=============================================================================
