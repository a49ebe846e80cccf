-------------------------- MODULE OutputStreamCalls --------------------------
(***************************************************************************)
(* The calls that the differs may make of an output_stream, in any order:  *)
(* elements, texts and blanks under an operation that a diff element has   *)
(* been opened for, starts and ends of diff elements under their own       *)
(* operation, forced or not.  An end may be asked for that is not the      *)
(* innermost, as the differs do when a range of nodes holds the end of an  *)
(* element whose start went out under another operation.                   *)
(***************************************************************************)
EXTENDS Reader

CONSTANTS
  ElementNames,  \* the elements of the versions
  Inputs,        \* which versions exist
  MaxUnit        \* bound on what is written

ASSUME ElementsAssumption ==
  ElementNames \cap ({"unit", "diff:ws"} \cup {DiffName[operation] : operation \in DiffOperations}) = {}

VARIABLE out

Init == out \in {Primed(nodes) : nodes \in Inputs}

\* A diff element is open for the operation, once what is held back is written.
Ready(operation) == OutputState(Undelay(out, operation)) = operation

StartDiff ==
  \E operation \in DiffOperations, force_output \in BOOLEAN :
    out' = OutputNode(out, DiffStart(operation), operation, force_output)

EndDiff ==
  \E operation \in DiffOperations, force_output \in BOOLEAN :
    out' = OutputNode(out, DiffEnd(operation), operation, force_output)

StartNodeOf ==
  \E operation \in DiffOperations, name \in ElementNames :
    /\ Ready(operation)
    /\ out' = OutputNode(out, StartNode(name), operation, FALSE)

EndNodeOf ==
  \E operation \in DiffOperations, name \in ElementNames :
    out' = OutputNode(out, EndNode(name), operation, FALSE)

Text ==
  \E operation \in DiffOperations :
    /\ Ready(operation)
    /\ out' = OutputNode(out, TextNode(<<"a">>), operation, FALSE)

Blanks ==
  \E operation \in Sides, node \in {WsStart, WsEnd} :
    /\ Ready(operation)
    /\ out' = OutputNode(out, node, operation, FALSE)

Next ==
  /\ Len(out.unit) < MaxUnit
  /\ StartDiff \/ EndDiff \/ StartNodeOf \/ EndNodeOf \/ Text \/ Blanks

Spec == Init /\ [][Next]_out
-----------------------------------------------------------------------------
\* Every set of open tags that back() is called on holds a tag, and a set is made
\* only where the operation changes; no pop_back() empties a stack.
\* (output_stream.cpp:190-223)
StackSound ==
  \A stream \in Streams :
    LET stack == out.open_diff[stream]
    IN  /\ stack # <<>>
        /\ stack[1].operation = "COMMON"
        /\ \A n \in DOMAIN stack : stack[n].open_tags # <<>>
        /\ \A n \in 2 .. Len(stack) : stack[n].operation # stack[n - 1].operation

\* What the stream takes to be open is what is open in the document, although
\* ends are held back, dropped and written late.
DocumentMirrored ==
  OpenElements(out.unit)
    = Names(OpenTags(out.open_diff["OUTPUT"])) \o IF out.delay_ws_end THEN <<"diff:ws">> ELSE <<>>

\* The stack of each version holds the tags of its own and of both, in the order
\* they were opened; an end is taken off where it was put on.
InputsMirrored ==
  \A side \in Sides :
    Tail(OpenTags(out.open_diff[side])) = Tail(OfVersion(OpenTags(out.open_diff["OUTPUT"]), side))

\* A held back end is the end of the innermost element.
HeldBackIsInnermost == out.delay # "NONE" => InnermostTag(out) = DiffName[out.delay]

\* What is written next under an operation is read as of that operation, by the
\* reader of either version: the operations the stream is in are those the reader
\* is in.
ReadAsWritten ==
  \A side \in Sides :
    LET r == Reading(side, out.unit) IN r.op_mode[Len(r.op_mode)] = OutputState(out)
=============================================================================
