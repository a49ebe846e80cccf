--------------------------- MODULE MCChangeMatcher ---------------------------
(***************************************************************************)
(* ChangeMatcher on every table of a few verdicts.                         *)
(***************************************************************************)
EXTENDS ChangeMatcher

Verdict(operation, similarity, better_nested) ==
  [operation |-> operation, similarity |-> similarity, better_nested |-> better_nested]

\* Pairs that differ, and pairs that are versions of each other, alike or converted.
MCPlainVerdicts == {Verdict("NONE", 0, FALSE), Verdict("MATCH", 1, FALSE),
                    Verdict("CONVERT", 3, FALSE)}

\* With pairs that nest, or that match and would nest better elsewhere.
MCVerdicts == MCPlainVerdicts \cup {Verdict("NEST", 2, FALSE), Verdict("MATCH", 5, TRUE)}

\* No construct is a move, or the first original and the last modified are.
MCMoves == {[original |-> {}, modified |-> {}],
            [original |-> {0}, modified |-> {ModifiedSize - 1}]}
=============================================================================
