---------------------------- MODULE MCSourceManager ----------------------------
(***************************************************************************)
(* Trees with two names and two levels; the name 2 is of no language.      *)
(***************************************************************************)
EXTENDS SourceManager

\* A tree with these files and directories, and the output file if it is there.
Tree(files, directories, output) ==
  [p \in {<<>>} \cup files \cup directories \cup output |->
     IF p \in files THEN "file" ELSE IF p \in output THEN "output" ELSE "directory"]

\* What is at a name: nothing, a file, the output, or a directory with some files.
NodesAt(name) ==
  {<<{}, {}, {}>>, <<{<<name>>}, {}, {}>>, <<{}, {}, {<<name>>}>>}
    \cup {<<{<<name, file>> : file \in files}, {<<name>>}, {}>> : files \in SUBSET {1, 2}}

Trees ==
  {Tree({<<>>}, {}, {})}
    \cup {Tree(m[1] \cup n[1], m[2] \cup n[2], m[3] \cup n[3]) : m \in NodesAt(1), n \in NodesAt(2)}

Pair(number, original, modified) ==
  <<Source("local", FALSE, number, "original", original), Source("local", FALSE, number, "modified", modified)>>

AFile == Tree({<<>>}, {}, {})
ADirectory == Tree({<<1>>, <<2, 1>>}, {<<2>>}, {})
Missing(number, side) == Source("local", TRUE, number, side, <<>>)
Null(number, side) == Source("null", FALSE, number, side, <<>>)
Single(number, missing) == Source("single", missing, number, "original", <<>>)

\* Every pair of trees, and lists of several comparisons.
MCInputs ==
  {Pair(1, original, modified) : original, modified \in Trees}
    \cup {<<Missing(1, "original"), Source("local", FALSE, 1, "modified", tree)>> \o Pair(2, tree, AFile)
             \o <<Null(3, "original"), Source("local", FALSE, 3, "modified", tree)>>
             \o <<Null(4, "original"), Null(4, "modified")>> : tree \in {AFile, ADirectory}}
    \cup {<<Single(1, missing)>> \o Pair(2, ADirectory, ADirectory) \o <<Single(3, ~ missing)>> : missing \in BOOLEAN}

\* A file next to a directory on one side only.
MCUnlikeDirectories == {Pair(1, Tree({<<2>>, <<1, 1>>}, {<<1>>}, {}), Tree({<<1, 1>>}, {<<1>>}, {}))}

MCRecognised == {1}
=============================================================================
