---------------------------- MODULE EditCorrector ----------------------------
(***************************************************************************)
(* edit_corrector: where a single common construct lies between two short  *)
(* edits, and a pair of constructs across it is similar, the list is       *)
(* broken: the pair becomes a COMMON edit, to be compared by a match       *)
(* differ, and the common construct is deleted and inserted.  Whether a    *)
(* pair is similar enough is the measurers' business: any may be.          *)
(*                                                                         *)
(* An iterator of the list is its position, and Len(edits) + 1 is end().   *)
(* One action is one iteration of the loop over the edits.                 *)
(***************************************************************************)
EXTENDS EditCorrections, FiniteSets

LOCAL INSTANCE SequencesExt

CONSTANTS
  OriginalSize, ModifiedSize,  \* sets_original, sets_modified
  EditListsFor(_)              \* what compute may return for a relation

Start == Point(0, 0)
End == Point(OriginalSize, ModifiedSize)

ASSUME ConstantsAssumption ==
  OriginalSize \in Nat /\ ModifiedSize \in Nat

\* compute returns an edit list.
ASSUME EditListsAssumption ==
  \A e \in SUBSET Cells(Start, End) :
    \A es \in EditListsFor(e) : IsEditList(e, es, Start, End)

VARIABLES
  equal,  \* the pairs of equal constructs; never changes
  edits,  \* the list
  edit,   \* the iterator of correct()
  done    \* correct() has returned

vars == <<equal, edits, edit, done>>
-----------------------------------------------------------------------------
Init ==
  /\ equal \in SUBSET Cells(Start, End)
  /\ edits \in EditListsFor(equal)
  /\ edit = 1
  /\ done = FALSE

\* Mutant: end() is always followed by the first edit again.
IncrementToFirst(n, es) == IF n >= Len(es) THEN 1 ELSE n + 1

\* ++edit.  The list is circular: the element behind end() is the first one.
Increment(n, es) == IF n = Len(es) + 1 THEN 1 ELSE n + 1

Candidates == edit < Len(edits) /\ IsCandidate(edits[edit], edits[edit + 1])

\* The guards fail, or no pair is similar enough.
Leave ==
  /\ ~ done /\ edit <= Len(edits)
  /\ edit' = Increment(edit, edits)
  /\ UNCHANGED <<equal, edits, done>>

\* The two edits are replaced, and correct_common looks for equal pairs in the
\* changes that are left.  It returns the last edit it made of a change on the
\* right, but the edit after a deletion or an insertion on the right, which may
\* be end(); the loop goes on after what it returns.
Break ==
  /\ ~ done /\ Candidates
  /\ LET e == edits[edit]
         f == edits[edit + 1]
     IN  \E n \in Across(e, f) :
           LET list == Broken(equal, edits, edit, n)
               right == SplitChange(Subject(e, f), n)[3]
               rest == Len(edits) - edit - 1
               returned == IF right.operation = "CHANGE" THEN Len(list) - rest
                           ELSE Len(list) - rest + 1
           IN  /\ edits' = list
               /\ edit' = Increment(returned, list)
  /\ UNCHANGED <<equal, done>>

Return ==
  /\ ~ done /\ edit = Len(edits) + 1
  /\ done' = TRUE
  /\ UNCHANGED <<equal, edits, edit>>

Next == Leave \/ Break \/ Return

Spec == Init /\ [][Next]_vars /\ WF_vars(Next)
-----------------------------------------------------------------------------
\* Breaking loses no construct and doubles none, on neither side, and whatever is
\* left to be output as common without being compared still is equal; and every edit has
\* the lengths of its operation.
\* (edit_corrector.cpp:209-257, 28-94)
StaysAScript == IsEditList(equal, edits, Start, End)

\* No edit of the list covers the pair: it is on the way from an edit to the next one.
Passes(es, from, to, p) ==
  \E n \in 0 .. Len(es) :
    /\ p[1] - Behind(es, n, from).x = p[2] - Behind(es, n, from).y
    /\ p[1] \in Behind(es, n, from).x .. Ahead(es, n, to).x - 1

Untouched == {p \in Cells(Start, End) : Passes(edits, Start, End, p)}

\* A pair is given up only for another one: breaking takes the one pair between
\* the two edits out of the common ones and makes at least one pair an edit.
\* It never touches any other, so that there is an end to it even though
\* the loop may start over.
BreaksOnePair ==
  [][edits' # edits =>
       /\ Untouched' \subseteq Untouched
       /\ Cardinality(Untouched \ Untouched') = 1
       /\ \E n \in DOMAIN edits' : edits'[n].operation = "COMMON" /\ edits'[n] \notin ToSet(edits)]_vars

\* correct() returns, although it may increment end() and start over.
Termination == <>done
=============================================================================
