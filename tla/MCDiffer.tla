------------------------------- MODULE MCDiffer -------------------------------
(***************************************************************************)
(* Short versions: rows of names, texts and blanks, and statements in      *)
(* statements.                                                             *)
(***************************************************************************)
EXTENDS Differ

LOCAL INSTANCE SequencesExt

\* An element around nodes.
Element(name, inner) == <<StartNode(name)>> \o inner \o <<EndNode(name)>>

Word(c) == <<TextNode(<<c>>)>>

Name(c) == Element("name", Word(c))

UnitOf(rows) == Element("unit", FlattenSeq(rows))

Rows(items, n) == UNION {[1 .. k -> items] : k \in 0 .. n}

VersionsOf(units) == [Sides -> units]
-----------------------------------------------------------------------------
\* Names are only compared with each other: the first name of the original is an "a".
StartsWithA(unit) == \A n \in DOMAIN unit : unit[n] = TextNode(<<"b">>) => \E k \in 1 .. n : unit[k] = TextNode(<<"a">>)

\* Three names and texts, for moves and for edits that the edit_corrector breaks;
\* two with blanks.
RowInputs ==
  {v \in VersionsOf({UnitOf(rows) : rows \in Rows({Name("a"), Name("b"), Word(";")}, 3)})
           \cup VersionsOf({UnitOf(rows) : rows \in Rows({Name("a"), Name("b"), Word(" "), Word("\n")}, 2)}) :
     StartsWithA(v["DELETE"])}
-----------------------------------------------------------------------------
\* Statements, to match, convert and nest.
Expr(c) == Element("expr_stmt", Name(c) \o Word(";"))

ReturnOf(c) == Element("return", Word("r") \o Word(" ") \o Name(c) \o Word(";"))

Block(inner) == Element("block", Word("{") \o Element("block_content", inner) \o Word("}"))

While(c, inner) == Element("while", Word("w") \o Element("condition", Name(c)) \o Block(inner))

If(c, inner) == Element("if", Word("i") \o Element("condition", Name(c)) \o Block(inner))

Else(inner) == Element("else", Word("e") \o Block(inner))

Class(c, inner) ==
  Element("class", Word("c") \o Name(c)
                     \o Element("block", Word("{") \o Element("public", inner) \o Word("}")))

Comment(words) == Element("comment", FlattenSeq(words))

StatementInputs ==
  LET leaves == {Expr("a"), ReturnOf("b"), Word("\n") \o Expr("b")}
      loops == {While("a", b) : b \in leaves}
      conditions == {Element("if_stmt", If("a", b)) : b \in leaves \cup {<<>>}}
      classes == {Class("a", b) : b \in {<<>>, ReturnOf("b")}}
  IN  VersionsOf({UnitOf(<<s>>) : s \in leaves \cup loops \cup conditions})
        \cup VersionsOf({UnitOf(<<c>>) : c \in classes \cup {Class("b", Class("a", <<>>)), Expr("a")}})
        \cup VersionsOf({UnitOf(<<Comment(words)>>) : words \in Rows({Word("a"), Word("b")}, 3)})

DeltaInputs == RowInputs \cup StatementInputs
-----------------------------------------------------------------------------
\* An expression statement of which a return makes use, while an empty statement passes
\* from behind it to before it.  All but one word of them are the same.
PassedInputs ==
  LET words == Name("a") \o Name("b") \o Word(";")
      empty == Element("empty_stmt", Word(";"))
  IN  {[DELETE |-> UnitOf(<<Element("expr_stmt", words), empty>>),
        INSERT |-> UnitOf(<<empty, Element("return", Word("r") \o words)>>)]}

\* A condition with an else that becomes a loop.
ElseInputs ==
  {[DELETE |-> UnitOf(<<Element("if_stmt", If("a", <<>>) \o Else(<<>>))>>),
    INSERT |-> UnitOf(<<While("a", <<>>)>>)]}
=============================================================================
