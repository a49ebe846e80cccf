-------------------------------- MODULE Nodes --------------------------------
(***************************************************************************)
(* A version of a program: a list of srcML nodes, and the constructs of    *)
(* it that are compared.  A text is a sequence of characters; the          *)
(* converter makes every blank and every line feed a node of its own and   *)
(* writes an empty element as a start and an end.  Attributes, prefixes    *)
(* and the pseudo elements of elseif are left out.                         *)
(*                                                                         *)
(* Positions are those of the code, which count from 0.                    *)
(***************************************************************************)
EXTENDS Integers, Sequences, FiniteSets

LOCAL INSTANCE SequencesExt

\* move is the number of the move the node takes part in, 0 if none.
Node(type, name, content) == [type |-> type, name |-> name, content |-> content, move |-> 0]

StartNode(name) == Node("START", name, <<>>)
EndNode(name) == Node("END", name, <<>>)
TextNode(content) == Node("TEXT", "text", content)

IsText(n) == n.type = "TEXT"
IsWhitespace(n) == n.type = "TEXT" /\ n.content[1] \in {" ", "\n"}
IsNewLine(n) == n.type = "TEXT" /\ n.content[1] = "\n"

\* node::operator==, which does not look at the move.
Same(n, m) == n.type = m.type /\ n.name = m.name /\ n.content = m.content

At(nodes, i) == nodes[i + 1]

\* The nodes i .. j - 1.
Slice(nodes, i, j) == SubSeq(nodes, i + 1, j)

\* The end of the run of whitespace that begins at i, at most n.
SkipWhitespace(nodes, i, n) ==
  IF i >= n THEN i
  ELSE CHOOSE j \in i .. n : /\ \A k \in i .. j - 1 : IsWhitespace(At(nodes, k))
                             /\ j < n => ~ IsWhitespace(At(nodes, j))
-----------------------------------------------------------------------------
(***************************************************************************)
(* A construct is an element or a text: the span of its nodes.             *)
(***************************************************************************)
Construct(start, end) == [start_position |-> start, end_position |-> end]

\* How many elements opened from i on are open behind j - 1.
Depth(nodes, i, j) ==
  Cardinality({k \in i .. j - 1 : At(nodes, k).type = "START"})
    - Cardinality({k \in i .. j - 1 : At(nodes, k).type = "END"})

\* The constructor: from a start to the end that closes it.
ConstructAt(nodes, i) ==
  IF IsText(At(nodes, i)) THEN Construct(i, i)
  ELSE Construct(i, CHOOSE j \in i + 1 .. Len(nodes) - 1 :
                      /\ Depth(nodes, i, j + 1) = 0
                      /\ \A k \in i + 1 .. j : Depth(nodes, i, k) > 0)

\* get_descendents: the constructs from start up to end that are in no other one of
\* these.  The end of an element that is open at start is passed over.
Descendents(nodes, start, end) ==
  LET Begins(i) == /\ At(nodes, i).type # "END" /\ ~ IsWhitespace(At(nodes, i))
                   /\ \A k \in start .. i : Depth(nodes, start, k) >= Depth(nodes, start, i)
  IN  [n \in 1 .. Cardinality({i \in start .. end - 1 : Begins(i)}) |->
         ConstructAt(nodes, CHOOSE i \in start .. end - 1 :
                              /\ Begins(i)
                              /\ Cardinality({k \in start .. i : Begins(k)}) = n)]

Children(nodes, c) == Descendents(nodes, c.start_position + 1, c.end_position)

Root(nodes, c) == At(nodes, c.start_position)

\* get_terms: the positions of the construct's nodes that are not whitespace.
Terms(nodes, c) ==
  SelectSeq([n \in 1 .. c.end_position - c.start_position + 1 |-> c.start_position + n - 1],
            LAMBDA i : ~ IsWhitespace(At(nodes, i)))

\* What nodes say: tags and characters, whatever texts the characters are in.
Said(nodes) ==
  FoldLeft(LAMBDA said, n : said \o (IF IsText(n) THEN [i \in DOMAIN n.content |-> <<"TEXT", n.content[i]>>]
                                     ELSE <<<<n.type, n.name>>>>),
           <<>>, nodes)

\* construct::operator==, by the hash first: consecutive texts are strung together
\* and whitespace does not count.
EqualConstructs(original, c, modified, d) ==
  LET Content(nodes, e) ==
        Said(SelectSeq(Slice(nodes, e.start_position, e.end_position + 1),
                       LAMBDA n : ~ IsWhitespace(n)))
  IN  Content(original, c) = Content(modified, d)
=============================================================================
