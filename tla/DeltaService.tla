----------------------------- MODULE DeltaService -----------------------------
(***************************************************************************)
(* What a delta promises: at any time what a reader of a version has of it *)
(* is a beginning of that version, and in the end it is all of it.         *)
(***************************************************************************)
EXTENDS Sequences

CONSTANT Sides

VARIABLES
  version,  \* what each version says; never changes
  read,     \* what the reader of each version has read
  done      \* the delta is complete

LOCAL INSTANCE SequencesExt

Init ==
  /\ read = [side \in Sides |-> <<>>]
  /\ done = FALSE

Write ==
  /\ ~ done
  /\ \A side \in Sides : IsPrefix(read[side], read'[side]) /\ IsPrefix(read'[side], version[side])
  /\ UNCHANGED <<version, done>>

Finish ==
  /\ ~ done
  /\ read' = version
  /\ done' = TRUE
  /\ UNCHANGED version

Next == Write \/ Finish

Spec == Init /\ [][Next]_<<version, read, done>>
=============================================================================
