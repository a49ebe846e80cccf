---------------------------- MODULE MCOutputStream ----------------------------
(***************************************************************************)
(* Any row of calls, with one element name; both versions exist, or one.   *)
(***************************************************************************)
EXTENDS OutputStreamCalls

Some == <<StartNode("unit"), EndNode("unit")>>

MCInputs == [Sides -> {Some, <<>>}] \ {[side \in Sides |-> <<>>]}
=============================================================================
