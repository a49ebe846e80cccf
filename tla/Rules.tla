--------------------------------- MODULE Rules ---------------------------------
(***************************************************************************)
(* The names by which constructs may nest in one another or be converted   *)
(* into one another.  Whether two that may are similar enough is left      *)
(* open; of the names, those of statements, classes and blocks are here.   *)
(***************************************************************************)
EXTENDS Nodes

\* nest::block: what may nest in statements and blocks.
BlockNestable ==
  {"goto", "expr_stmt", "decl_stmt", "return", "comment", "block",
   "if_stmt", "if", "while", "for", "foreach", "else", "switch", "do",
   "try", "catch", "finally", "synchronized", "continue", "break", "throw", "typedef",
   "class", "struct", "union", "enum", "class_decl", "struct_decl", "union_decl", "enum_decl"}

BlockNests ==
  {"function", "while", "if_stmt", "if", "elseif", "for", "foreach", "block", "block_content",
   "try", "catch", "finally", "synchronized"}

\* class_nest
ClassNestable ==
  {"function", "constructor", "destructor", "function_decl", "constructor_decl", "destructor_decl",
   "decl_stmt", "typedef", "class", "struct", "union", "enum",
   "class_decl", "struct_decl", "union_decl", "enum_decl"}

ClassNests ==
  {"namespace", "class", "struct", "union", "enum", "interface", "public", "private", "protected"}

\* The tables of generate_factory.
NestsByName(outer, inner) ==
  \/ outer \in BlockNests /\ inner \in BlockNestable
  \/ outer \in ClassNests /\ inner \in ClassNestable

\* is_class_type
ClassTypes == {"class", "class_decl", "struct", "struct_decl", "union", "union_decl", "enum"}

\* The innermost element around a construct.
ParentName(nodes, c) ==
  LET around == {i \in 0 .. c.start_position - 1 :
                   At(nodes, i).type = "START" /\ ConstructAt(nodes, i).end_position > c.end_position}
  IN  At(nodes, CHOOSE i \in around : \A k \in around : k <= i).name

\* find_best_descendent finds one of these, or nothing.
HasDescendent(nodes, outer, root) ==
  \E i \in outer.start_position + 1 .. outer.end_position - 1 :
    At(nodes, i).type = "START" /\ Same(At(nodes, i), root)

\* can_nest, and a descendent that the inner construct may be compared with.  A block
\* nests in a block only if that is in a block itself.
MayNest(outer_nodes, outer, inner_nodes, inner) ==
  LET o == Root(outer_nodes, outer)
      i == Root(inner_nodes, inner)
  IN  /\ o.move = 0 /\ i.move = 0
      /\ NestsByName(o.name, i.name)
      /\ o.name = "block" /\ i.name = "block" => ParentName(outer_nodes, outer) = "block"
      /\ HasDescendent(outer_nodes, outer, i)

\* The names of the convert rules, as an equivalence.
Convertible ==
  {{"if_stmt", "while", "for", "foreach"}, {"expr_stmt", "return", "decl_stmt"},
   {"class", "struct", "union", "enum", "interface"},
   {"public", "private", "protected"}, {"extends", "implements", "permits"}}

\* is_tag_convertable
IsTagConvertible(o, m) ==
  o.type = "START" /\ m.type = "START" /\ o.name # m.name
    /\ \E names \in Convertible : {o.name, m.name} \subseteq names
=============================================================================
