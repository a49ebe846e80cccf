-------------------------- MODULE OutputStreamProofs --------------------------
(***************************************************************************)
(* Proofs about the output_stream, for any names of elements, any versions *)
(* and rows of calls of any length.                                        *)
(***************************************************************************)
EXTENDS OutputStreamCalls, SharedTheorems

LOCAL INSTANCE SequencesExt

\* The tags that may be opened under an operation: of the diff tags only its own.
TagsOf(operation) == ElementNames \cup {"unit", "diff:ws", DiffName[operation]}

DiffSets ==
  {set \in [operation : DiffOperations, open_tags : UNION {Seq(TagsOf(operation)) : operation \in DiffOperations}] :
     set.open_tags \in Seq(TagsOf(set.operation))}

\* A stack as StackSound wants it, but for the innermost set, which may be empty.
Alternating(stack) ==
  /\ stack \in Seq(DiffSets)
  /\ stack # <<>>
  /\ stack[1].operation = "COMMON"
  /\ \A n \in 1 .. Len(stack) - 1 : stack[n].open_tags # <<>>
  /\ \A n \in 2 .. Len(stack) : stack[n].operation # stack[n - 1].operation

Sound(stack) == Alternating(stack) /\ Last(stack).open_tags # <<>>

\* What the calls pass.
Passable(node, operation) ==
  /\ node.type \in {"START", "END", "TEXT"}
  /\ node.type = "START" => node.name \in TagsOf(operation)

LEMMA DiffSetType ==
  ASSUME NEW operation \in DiffOperations, NEW tags \in Seq(TagsOf(operation))
  PROVE  /\ DiffSet(operation, tags) \in DiffSets
         /\ DiffSet(operation, tags).operation = operation
         /\ DiffSet(operation, tags).open_tags = tags
<1>1. tags \in UNION {Seq(TagsOf(any)) : any \in DiffOperations}
  OBVIOUS
<1> QED
  BY <1>1 DEF DiffSet, DiffSets

\* The last element of a row, and the others.
LEMMA FrontLast ==
  ASSUME NEW S, NEW s \in Seq(S), s # <<>>
  PROVE  /\ Len(s) \in Nat \ {0}
         /\ Last(s) = s[Len(s)]
         /\ Last(s) \in S
         /\ Front(s) \in Seq(S)
         /\ Len(Front(s)) = Len(s) - 1
         /\ \A n \in 1 .. Len(s) - 1 : Front(s)[n] = s[n]
<1>1. Len(s) \in Nat \ {0}
  BY EmptySeq, LenProperties
<1>2. Front(s) = SubSeq(s, 1, Len(s) - 1) /\ Last(s) = s[Len(s)]
  BY DEF Last, Front
<1>3. s[Len(s)] \in S
  BY <1>1, ElementOfSeq
<1>4. \A n \in 1 .. Len(s) - 1 : s[n] \in S
  BY <1>1, ElementOfSeq
<1>5. /\ SubSeq(s, 1, Len(s) - 1) \in Seq(S)
      /\ Len(SubSeq(s, 1, Len(s) - 1)) = IF 1 <= Len(s) - 1 THEN Len(s) - 1 - 1 + 1 ELSE 0
      /\ \A n \in 1 .. Len(s) - 1 - 1 + 1 : SubSeq(s, 1, Len(s) - 1)[n] = s[1 + n - 1]
  <2>1. 1 \in Int /\ Len(s) - 1 \in Int
    BY <1>1
  <2> QED
    BY ONLY <2>1, <1>4, SubSeqProperties
<1>6. Len(SubSeq(s, 1, Len(s) - 1)) = Len(s) - 1
  <2>1. \A k \in Nat \ {0} : (IF 1 <= k - 1 THEN k - 1 - 1 + 1 ELSE 0) = k - 1
    OBVIOUS
  <2> QED
    BY <1>1, <1>5, <2>1, Zenon
<1>7. ASSUME NEW n \in 1 .. Len(s) - 1
      PROVE  SubSeq(s, 1, Len(s) - 1)[n] = s[n]
  <2>1. n \in 1 .. Len(s) - 1 - 1 + 1 /\ 1 + n - 1 = n
    BY <1>1
  <2> QED
    BY <1>5, <2>1
<1> QED
  BY <1>1, <1>2, <1>3, <1>5, <1>6, <1>7

\* A tag may be taken off an empty row, which stays empty.
LEMMA FrontOfAny ==
  ASSUME NEW S, NEW s \in Seq(S)
  PROVE  Front(s) \in Seq(S)
<1>1. CASE s # <<>>
  BY <1>1, FrontLast
<1>2. CASE s = <<>>
  <2>1. Front(s) = SubSeq(s, 1, -1)
    BY <1>2 DEF Front
  <2>2. SubSeq(s, 1, -1) = <<>>
    BY SubSeqEmpty
  <2> QED
    BY <2>1, <2>2
<1> QED
  BY <1>1, <1>2

(***************************************************************************)
(* update_diff_stack keeps a stack sound, whatever node it is told of.     *)
(***************************************************************************)

\* A stack without its innermost set, when there is another one.
LEMMA FrontSound ==
  ASSUME NEW stack, Alternating(stack), Len(stack) >= 2
  PROVE  Sound(Front(stack))
<1>1. /\ stack \in Seq(DiffSets) /\ stack # <<>>
      /\ Len(stack) \in Nat \ {0}
      /\ Front(stack) \in Seq(DiffSets)
      /\ Len(Front(stack)) = Len(stack) - 1
      /\ \A n \in 1 .. Len(stack) - 1 : Front(stack)[n] = stack[n]
  BY FrontLast DEF Alternating
<1>2. Front(stack) # <<>>
  BY <1>1, EmptySeq
<1>3. Last(Front(stack)) = stack[Len(stack) - 1]
  <2>1. Last(Front(stack)) = Front(stack)[Len(Front(stack))]
    BY <1>1, <1>2, FrontLast
  <2> QED
    BY <1>1, <2>1
<1>4. Front(stack)[1].operation = "COMMON"
  BY <1>1 DEF Alternating
<1>5. \A n \in 1 .. Len(Front(stack)) - 1 : Front(stack)[n].open_tags # <<>>
  BY <1>1 DEF Alternating
<1>6. \A n \in 2 .. Len(Front(stack)) : Front(stack)[n].operation # Front(stack)[n - 1].operation
  <2> SUFFICES ASSUME NEW n \in 2 .. Len(Front(stack))
               PROVE  Front(stack)[n].operation # Front(stack)[n - 1].operation
    OBVIOUS
  <2>1. n \in 1 .. Len(stack) - 1 /\ n - 1 \in 1 .. Len(stack) - 1 /\ n \in 2 .. Len(stack)
    BY <1>1
  <2> QED
    BY <1>1, <2>1 DEF Alternating
<1>7. Last(Front(stack)).open_tags # <<>>
  BY <1>1, <1>3 DEF Alternating
<1> QED
  BY <1>1, <1>2, <1>4, <1>5, <1>6, <1>7 DEF Sound, Alternating

\* A set of another operation on top of a sound stack.
LEMMA PushAlternates ==
  ASSUME NEW stack, Sound(stack), NEW set \in DiffSets, set.operation # Last(stack).operation
  PROVE  /\ Alternating(Append(stack, set))
         /\ Len(Append(stack, set)) = Len(stack) + 1
         /\ Last(Append(stack, set)) = set
<1>1. /\ stack \in Seq(DiffSets) /\ stack # <<>>
      /\ Len(stack) \in Nat \ {0}
      /\ Last(stack) = stack[Len(stack)]
  BY FrontLast DEF Sound, Alternating
<1> DEFINE pushed == Append(stack, set)
<1>2. /\ pushed \in Seq(DiffSets)
      /\ Len(pushed) = Len(stack) + 1
      /\ \A n \in 1 .. Len(stack) : pushed[n] = stack[n]
      /\ pushed[Len(stack) + 1] = set
  BY <1>1, AppendProperties
<1>3. pushed # <<>>
  BY <1>1, <1>2, EmptySeq
<1>4. Last(pushed) = set
  <2>1. Last(pushed) = pushed[Len(pushed)]
    BY <1>2, <1>3, FrontLast
  <2> QED
    BY <1>2, <2>1
<1>5. pushed[1].operation = "COMMON"
  BY <1>1, <1>2 DEF Sound, Alternating
<1>6. ASSUME NEW n \in 1 .. Len(stack)
      PROVE  pushed[n].open_tags # <<>>
  <2>1. n = Len(stack) \/ n \in 1 .. Len(stack) - 1
    BY <1>1
  <2> QED
    BY <1>1, <1>2, <2>1 DEF Sound, Alternating
<1>7. ASSUME NEW n \in 2 .. Len(stack) + 1
      PROVE  pushed[n].operation # pushed[n - 1].operation
  <2>1. CASE n = Len(stack) + 1
    <3>1. pushed[n] = set /\ pushed[n - 1] = stack[Len(stack)]
      BY <1>1, <1>2, <2>1
    <3> QED
      BY <1>1, <3>1
  <2>2. CASE n \in 2 .. Len(stack)
    <3>1. pushed[n] = stack[n] /\ pushed[n - 1] = stack[n - 1]
      BY <1>1, <1>2, <2>2
    <3> QED
      BY <2>2, <3>1 DEF Sound, Alternating
  <2> QED
    BY <1>1, <2>1, <2>2
<1>8. Len(pushed) - 1 = Len(stack)
  BY <1>1, <1>2
<1> QED
  BY <1>2, <1>3, <1>4, <1>5, <1>6, <1>7, <1>8 DEF Alternating

\* The innermost set with other tags.
LEMMA ReplaceSound ==
  ASSUME NEW stack, Alternating(stack), NEW operation \in DiffOperations,
         NEW tags \in Seq(TagsOf(operation)), tags # <<>>, Last(stack).operation = operation
  PROVE  Sound(Append(Front(stack), DiffSet(operation, tags)))
<1> DEFINE set == DiffSet(operation, tags)
<1>1. set \in DiffSets /\ set.operation = operation /\ set.open_tags = tags
  BY DiffSetType
<1>2. /\ stack \in Seq(DiffSets) /\ stack # <<>>
      /\ Len(stack) \in Nat \ {0}
      /\ Last(stack) = stack[Len(stack)]
      /\ Front(stack) \in Seq(DiffSets)
      /\ Len(Front(stack)) = Len(stack) - 1
  BY FrontLast DEF Alternating
<1>3. CASE Len(stack) >= 2
  <2>1. Sound(Front(stack))
    BY <1>3, FrontSound
  <2>2. Last(Front(stack)) = stack[Len(stack) - 1]
    <3>1. Last(Front(stack)) = Front(stack)[Len(Front(stack))]
      BY <2>1, FrontLast DEF Sound, Alternating
    <3>2. \A n \in 1 .. Len(stack) - 1 : Front(stack)[n] = stack[n]
      BY <1>2, FrontLast
    <3> QED
      BY <1>2, <1>3, <3>1, <3>2
  <2>3. stack[Len(stack) - 1].operation # stack[Len(stack)].operation
    BY <1>2, <1>3 DEF Alternating
  <2>4. set.operation # Last(Front(stack)).operation
    BY <1>1, <1>2, <2>2, <2>3
  <2> QED
    BY <1>1, <2>1, <2>4, PushAlternates DEF Sound
<1>4. CASE Len(stack) = 1
  <2>1. Front(stack) = <<>>
    BY <1>2, <1>4, EmptySeq
  <2>2. operation = "COMMON"
    BY <1>2, <1>4 DEF Alternating
  <2> DEFINE made == Append(Front(stack), set)
  <2>3. made \in Seq(DiffSets) /\ Len(made) = 1 /\ made[1] = set
    BY <1>1, <1>2, <1>4, AppendProperties
  <2> HIDE DEF made
  <2>4. made # <<>>
    <3>1. ASSUME made = <<>>
          PROVE  Len(made) = 0
      BY <3>1, EmptySeq
    <3> QED
      BY <2>3, <3>1
  <2>5. Last(made) = set
    BY <2>3, <2>4, FrontLast
  <2>6. Sound(made)
    BY <1>1, <2>2, <2>3, <2>4, <2>5 DEF Sound, Alternating
  <2> QED
    BY <2>6 DEF made
<1> QED
  BY <1>2, <1>3, <1>4

LEMMA UpdateKeepsSound ==
  ASSUME NEW stack, Sound(stack), NEW node, NEW operation \in DiffOperations, Passable(node, operation)
  PROVE  Sound(UpdateDiffStack(stack, node, operation))
<1> DEFINE diffs == IF Last(stack).operation # operation
                    THEN Append(stack, DiffSet(operation, <<>>)) ELSE stack
           tags == Last(diffs).open_tags
           updated == IF node.type = "START" THEN Append(tags, node.name) ELSE Front(tags)
<1>1. DiffSet(operation, <<>>) \in DiffSets /\ DiffSet(operation, <<>>).operation = operation
        /\ DiffSet(operation, <<>>).open_tags = <<>>
  BY EmptySeq, DiffSetType
<1>2. stack \in Seq(DiffSets) /\ stack # <<>> /\ Len(stack) \in Nat \ {0} /\ Alternating(stack)
        /\ Last(stack) \in DiffSets
  BY FrontLast DEF Sound, Alternating
<1>3. Alternating(diffs) /\ Last(diffs).operation = operation /\ Last(diffs) \in DiffSets
  BY <1>1, <1>2, PushAlternates
<1>4. Len(diffs) \in Nat \ {0} /\ (Len(diffs) = 1 => tags # <<>>)
  <2>1. CASE Last(stack).operation # operation
    <3>1. Len(diffs) = Len(stack) + 1
      BY <1>1, <2>1, PushAlternates
    <3> QED
      BY <1>2, <3>1
  <2>2. CASE Last(stack).operation = operation
    BY <1>2, <2>2 DEF Sound
  <2> QED
    BY <2>1, <2>2
<1>5. UpdateDiffStack(stack, node, operation) =
        IF IsText(node) THEN stack
        ELSE IF node.type = "END" /\ Len(diffs) = 1 /\ Len(tags) = 1 THEN diffs
        ELSE IF updated = <<>> THEN Front(diffs)
        ELSE Append(Front(diffs), DiffSet(operation, updated))
  BY DEF UpdateDiffStack
<1> HIDE DEF diffs
<1>6. /\ tags \in Seq(TagsOf(operation))
      /\ node.type \in {"START", "END", "TEXT"}
      /\ node.type = "START" => node.name \in TagsOf(operation)
  BY <1>3 DEF DiffSets, Passable
<1>7. updated \in Seq(TagsOf(operation)) /\ (node.type = "START" => updated # <<>>)
  <2>1. CASE node.type = "START"
    <3>1. Append(tags, node.name) \in Seq(TagsOf(operation)) /\ Len(Append(tags, node.name)) = Len(tags) + 1
      BY <1>6, <2>1, AppendProperties
    <3>2. Len(Append(tags, node.name)) # 0
      BY <1>6, <3>1, LenProperties
    <3>3. Append(tags, node.name) # <<>>
      BY <3>2, EmptySeq
    <3> QED
      BY <2>1, <3>1, <3>3
  <2>2. CASE node.type # "START"
    BY <1>6, <2>2, FrontOfAny
  <2> QED
    BY <2>1, <2>2
<1>8. CASE IsText(node)
  BY <1>5, <1>8
<1>9. CASE ~ IsText(node) /\ node.type = "END" /\ Len(diffs) = 1 /\ Len(tags) = 1
  <2>1. tags # <<>>
    BY <1>4, <1>9
  <2> QED
    BY <1>3, <1>5, <1>9, <2>1 DEF Sound
<1>10. CASE ~ IsText(node) /\ ~ (node.type = "END" /\ Len(diffs) = 1 /\ Len(tags) = 1) /\ updated = <<>>
  <2>1. node.type = "END" /\ updated = Front(tags)
    BY <1>6, <1>7, <1>10 DEF IsText
  <2>2. tags = <<>> \/ Len(tags) = 1
    <3>1. ASSUME tags # <<>>
          PROVE  Len(tags) = 1
      <4>1. Len(Front(tags)) = Len(tags) - 1 /\ Len(tags) \in Nat
        BY <1>6, <3>1, FrontLast
      <4>2. Len(Front(tags)) = 0
        <5>1. Front(tags) = <<>>
          BY <1>10, <2>1
        <5> QED
          BY <5>1, EmptySeq
      <4> HIDE DEF tags
      <4> QED
        BY <4>1, <4>2
    <3> QED
      BY <3>1
  <2>3. Len(diffs) >= 2
    <3> HIDE DEF tags, updated
    <3>1. Len(diffs) # 1
      BY <1>4, <1>10, <2>1, <2>2
    <3>2. \A n \in Nat \ {0} : n # 1 => n >= 2
      OBVIOUS
    <3> QED
      BY <1>4, <3>1, <3>2
  <2>4. Sound(Front(diffs))
    BY <1>3, <2>3, FrontSound
  <2> QED
    BY <1>5, <1>10, <2>4
<1>11. CASE ~ IsText(node) /\ ~ (node.type = "END" /\ Len(diffs) = 1 /\ Len(tags) = 1) /\ updated # <<>>
  <2>1. Sound(Append(Front(diffs), DiffSet(operation, updated)))
    BY <1>3, <1>7, <1>11, ReplaceSound
  <2> QED
    BY <1>5, <1>11, <2>1
<1> QED
  BY <1>8, <1>9, <1>10, <1>11

(***************************************************************************)
(* The state, and what every call of output_node keeps.                    *)
(***************************************************************************)
Fields == {"open_diff", "delay", "delay_ws_end", "unit"}

\* All three stacks, before and after the end that is held back is dealt with.
Stacks(s) == Fields \subseteq DOMAIN s /\ \A stream \in Streams : Sound(s.open_diff[stream])

IInv(s) ==
  /\ Stacks(s)
  /\ s.delay \in DiffOperations \cup {"NONE"}
  /\ s.delay # "NONE" => InnermostTag(s) = DiffName[s.delay]

LEMMA WriteKeeps ==
  ASSUME NEW s, Stacks(s), NEW node
  PROVE  /\ Stacks(Write(s, node))
         /\ Write(s, node).open_diff = s.open_diff
         /\ Write(s, node).delay = s.delay
BY DEF Write, Stacks, Fields

LEMMA UpdateKeeps ==
  ASSUME NEW s, Stacks(s), NEW node, NEW operation \in DiffOperations, Passable(node, operation)
  PROVE  /\ Stacks(UpdateDiffStacks(s, node, operation))
         /\ UpdateDiffStacks(s, node, operation).delay = s.delay
<1>1. ASSUME NEW stream \in Streams
      PROVE  Sound(UpdateDiffStack(s.open_diff[stream], node, operation))
  BY UpdateKeepsSound DEF Stacks
<1> QED
  BY <1>1 DEF UpdateDiffStacks, Stacks, Fields

LEMMA DiffNodes ==
  ASSUME NEW operation \in DiffOperations
  PROVE  /\ Passable(DiffStart(operation), operation)
         /\ Passable(DiffEnd(operation), operation)
         /\ DiffStart(operation).type = "START" /\ DiffEnd(operation).type = "END"
         /\ DiffStart(operation).name = DiffName[operation]
         /\ DiffEnd(operation).name = DiffName[operation]
BY DEF DiffStart, DiffEnd, StartNode, EndNode, Node, Passable, TagsOf, DiffName, DiffOperations

\* A tag of a diff element is that of the operation it was opened under.
LEMMA InnermostTagType ==
  ASSUME NEW s, Stacks(s)
  PROVE  /\ OutputState(s) \in DiffOperations
         /\ InnermostTag(s) \in TagsOf(OutputState(s))
<1> DEFINE stack == s.open_diff["OUTPUT"]
<1>1. Sound(stack)
  BY DEF Stacks, Streams
<1>2. Last(stack) \in DiffSets /\ Last(stack).open_tags # <<>>
  BY <1>1, FrontLast DEF Sound, Alternating
<1>3. Last(stack).operation \in DiffOperations /\ Last(stack).open_tags \in Seq(TagsOf(Last(stack).operation))
  BY <1>2 DEF DiffSets
<1>4. Last(Last(stack).open_tags) \in TagsOf(Last(stack).operation)
  BY <1>2, <1>3, FrontLast
<1> QED
  BY <1>3, <1>4 DEF OutputState, InnermostTag, OpenDiff

LEMMA UndelayKeeps ==
  ASSUME NEW s, IInv(s), NEW operation \in DiffOperations
  PROVE  Stacks(Undelay(s, operation)) /\ Undelay(s, operation).delay = "NONE"
<1>1. CASE s.delay \notin {"NONE", operation} /\ InnermostTag(s) = DiffName[s.delay]
  <2> DEFINE written == Write(s, DiffEnd(s.delay))
             told == UpdateDiffStacks(written, DiffEnd(s.delay), s.delay)
  <2>1. s.delay \in DiffOperations
    BY <1>1 DEF IInv
  <2>2. Stacks(told)
    BY <2>1, DiffNodes, WriteKeeps, UpdateKeeps DEF IInv
  <2>3. Undelay(s, operation) = [told EXCEPT !.delay = "NONE"]
    BY <1>1 DEF Undelay
  <2> HIDE DEF told
  <2> QED
    BY <2>2, <2>3 DEF Stacks, Fields
<1>2. CASE ~ (s.delay \notin {"NONE", operation} /\ InnermostTag(s) = DiffName[s.delay])
  <2>1. Undelay(s, operation) = [s EXCEPT !.delay = "NONE"]
    BY <1>2 DEF Undelay
  <2> QED
    BY <2>1 DEF IInv, Stacks, Fields
<1> QED
  BY <1>1, <1>2

LEMMA OutputEndKeeps ==
  ASSUME NEW s, Stacks(s), s.delay = "NONE", NEW node, node.type = "END", NEW force_output \in BOOLEAN
  PROVE  IInv(OutputEnd(s, node, force_output))
<1>1. CASE InnermostTag(s) # node.name
  BY <1>1 DEF OutputEnd, IInv
<1>2. CASE InnermostTag(s) = node.name /\ ~ force_output /\ node \in DiffEnds
  <2> DEFINE held == [s EXCEPT !.delay = OutputState(s)]
  <2>1. PICK operation \in DiffOperations : node = DiffEnd(operation)
    BY <1>2 DEF DiffEnds
  <2>2. node.name = DiffName[operation]
    BY <2>1, DiffNodes
  <2>3. DiffName[operation] \notin ElementNames \cup {"unit", "diff:ws"}
    BY ElementsAssumption DEF DiffName, DiffOperations
  <2>4. InnermostTag(s) = DiffName[OutputState(s)]
    BY <1>2, <2>2, <2>3, InnermostTagType DEF TagsOf
  <2>5. held.open_diff = s.open_diff /\ held.delay = OutputState(s) /\ Stacks(held)
    BY DEF Stacks, Fields
  <2>6. InnermostTag(held) = InnermostTag(s)
    BY <2>5 DEF InnermostTag, OpenDiff
  <2>7. OutputEnd(s, node, force_output) = held
    BY <1>2 DEF OutputEnd
  <2> HIDE DEF held
  <2> QED
    BY <2>4, <2>5, <2>6, <2>7, InnermostTagType DEF IInv
<1>3. CASE InnermostTag(s) = node.name /\ ~ (~ force_output /\ node \in DiffEnds)
  <2> DEFINE operation == OutputState(s)
  <2>1. Passable(node, operation) /\ operation \in DiffOperations
    BY InnermostTagType DEF Passable
  <2>2. /\ Stacks(UpdateDiffStacks(Write(s, node), node, operation))
        /\ UpdateDiffStacks(Write(s, node), node, operation).delay = "NONE"
    BY <2>1, WriteKeeps, UpdateKeeps
  <2>3. OutputEnd(s, node, force_output) = UpdateDiffStacks(Write(s, node), node, operation)
    BY <1>3 DEF OutputEnd
  <2> QED
    BY <2>2, <2>3 DEF IInv
<1> QED
  BY <1>1, <1>2, <1>3

LEMMA OutputNodeKeeps ==
  ASSUME NEW s, IInv(s), NEW operation \in DiffOperations, NEW node, Passable(node, operation),
         NEW force_output \in BOOLEAN
  PROVE  IInv(OutputNode(s, node, operation, force_output))
<1> DEFINE u == Undelay(s, operation)
<1>1. Stacks(u) /\ u.delay = "NONE"
  BY UndelayKeeps
<1>2. OutputNode(s, node, operation, force_output) = OutputUndelayed(u, node, operation, force_output)
  BY DEF OutputNode
<1> HIDE DEF u
<1>3. CASE node.type = "END"
  BY <1>1, <1>2, <1>3, OutputEndKeeps DEF OutputUndelayed
<1>4. CASE node.type # "END" /\ ~ force_output /\ node = DiffStart(OutputState(u))
  BY <1>1, <1>2, <1>4 DEF OutputUndelayed, IInv
<1>5. CASE node.type # "END" /\ ~ (~ force_output /\ node = DiffStart(OutputState(u)))
  <2>1. /\ Stacks(UpdateDiffStacks(Write(u, node), node, operation))
        /\ UpdateDiffStacks(Write(u, node), node, operation).delay = "NONE"
    BY <1>1, WriteKeeps, UpdateKeeps
  <2>2. OutputUndelayed(u, node, operation, force_output)
          = UpdateDiffStacks(Write(u, node), node, operation)
    BY <1>5 DEF OutputUndelayed
  <2> QED
    BY <1>2, <2>1, <2>2 DEF IInv
<1> QED
  BY <1>3, <1>4, <1>5

(***************************************************************************)
(* The stacks stay sound.                                                  *)
(***************************************************************************)
LEMMA InitIInv == ASSUME Init PROVE IInv(out)
<1>1. PICK nodes \in Inputs : out = Primed(nodes)
  BY DEF Init
<1>2. ASSUME NEW tag \in {"unit", "diff:common"}
      PROVE  Sound(<<DiffSet("COMMON", <<tag>>)>>)
  <2> DEFINE stack == <<DiffSet("COMMON", <<tag>>)>>
  <2>1. <<tag>> \in Seq(TagsOf("COMMON")) /\ <<tag>> # <<>> /\ "COMMON" \in DiffOperations
    BY DEF TagsOf, DiffName, DiffOperations
  <2>2. /\ DiffSet("COMMON", <<tag>>) \in DiffSets
        /\ DiffSet("COMMON", <<tag>>).operation = "COMMON"
        /\ DiffSet("COMMON", <<tag>>).open_tags = <<tag>>
    BY <2>1, DiffSetType
  <2>3. stack \in Seq(DiffSets) /\ stack # <<>> /\ Len(stack) = 1 /\ stack[1] = DiffSet("COMMON", <<tag>>)
    BY <2>2
  <2>4. Last(stack) = stack[1]
    BY <2>3, FrontLast
  <2> HIDE DEF stack
  <2>5. Sound(stack)
    BY <2>1, <2>2, <2>3, <2>4 DEF Sound, Alternating
  <2> QED
    BY <2>5 DEF stack
<1>3. ASSUME NEW stream \in Streams
      PROVE  Sound(out.open_diff[stream])
  <2>1. \/ out.open_diff[stream] = <<DiffSet("COMMON", <<"unit">>)>>
        \/ out.open_diff[stream] = <<DiffSet("COMMON", <<"diff:common">>)>>
    BY <1>1 DEF Primed
  <2> QED
    BY <1>2, <2>1
<1>4. Fields \subseteq DOMAIN out /\ out.delay = "NONE"
  BY <1>1 DEF Primed, Fields
<1> QED
  BY <1>3, <1>4 DEF IInv, Stacks

LEMMA NextIInv == ASSUME IInv(out), [Next]_out PROVE IInv(out')
<1>1. CASE UNCHANGED out
  BY <1>1
<1>2. CASE StartDiff
  BY <1>2, DiffNodes, OutputNodeKeeps DEF StartDiff
<1>3. CASE EndDiff
  BY <1>3, DiffNodes, OutputNodeKeeps DEF EndDiff
<1>4. CASE StartNodeOf
  <2>1. PICK operation \in DiffOperations, name \in ElementNames :
          out' = OutputNode(out, StartNode(name), operation, FALSE)
    BY <1>4 DEF StartNodeOf
  <2>2. Passable(StartNode(name), operation)
    BY DEF Passable, StartNode, Node, TagsOf
  <2> QED
    BY <2>1, <2>2, OutputNodeKeeps
<1>5. CASE EndNodeOf
  <2>1. PICK operation \in DiffOperations, name \in ElementNames :
          out' = OutputNode(out, EndNode(name), operation, FALSE)
    BY <1>5 DEF EndNodeOf
  <2>2. Passable(EndNode(name), operation)
    BY DEF Passable, EndNode, Node
  <2> QED
    BY <2>1, <2>2, OutputNodeKeeps
<1>6. CASE Text
  <2>1. PICK operation \in DiffOperations : out' = OutputNode(out, TextNode(<<"a">>), operation, FALSE)
    BY <1>6 DEF Text
  <2>2. Passable(TextNode(<<"a">>), operation)
    BY DEF Passable, TextNode, Node
  <2> QED
    BY <2>1, <2>2, OutputNodeKeeps
<1>7. CASE Blanks
  <2>1. PICK operation \in Sides, node \in {WsStart, WsEnd} : out' = OutputNode(out, node, operation, FALSE)
    BY <1>7 DEF Blanks
  <2>2. Passable(node, operation) /\ operation \in DiffOperations
    BY DEF Passable, WsStart, WsEnd, StartNode, EndNode, Node, TagsOf, Sides, DiffOperations
  <2> QED
    BY <2>1, <2>2, OutputNodeKeeps
<1> QED
  BY <1>1, <1>2, <1>3, <1>4, <1>5, <1>6, <1>7 DEF Next

\* Whatever calls are made, all three stacks of open tags stay such that back() and
\* pop_back() are defined on them.  (output_stream.cpp:190-249)
THEOREM StacksStaySound == Spec => []StackSound
<1>1. Init => IInv(out)
  BY InitIInv
<1>2. IInv(out) /\ [Next]_out => IInv(out)'
  BY NextIInv
<1>3. IInv(out) => StackSound
  <2> SUFFICES ASSUME IInv(out), NEW stream \in Streams
               PROVE  LET stack == out.open_diff[stream]
                      IN  /\ stack # <<>>
                          /\ stack[1].operation = "COMMON"
                          /\ \A n \in DOMAIN stack : stack[n].open_tags # <<>>
                          /\ \A n \in 2 .. Len(stack) : stack[n].operation # stack[n - 1].operation
    BY DEF StackSound
  <2> DEFINE stack == out.open_diff[stream]
  <2>1. Sound(stack)
    BY DEF IInv, Stacks
  <2>2. Len(stack) \in Nat \ {0} /\ Last(stack) = stack[Len(stack)] /\ DOMAIN stack = 1 .. Len(stack)
    BY <2>1, FrontLast, LenProperties DEF Sound, Alternating
  <2> HIDE DEF stack
  <2>3. ASSUME NEW n \in DOMAIN stack
        PROVE  stack[n].open_tags # <<>>
    <3>1. n = Len(stack) \/ n \in 1 .. Len(stack) - 1
      BY <2>2
    <3> QED
      BY <2>1, <2>2, <3>1 DEF Sound, Alternating
  <2>4. /\ stack # <<>>
        /\ stack[1].operation = "COMMON"
        /\ \A n \in 2 .. Len(stack) : stack[n].operation # stack[n - 1].operation
    BY <2>1 DEF Sound, Alternating
  <2> QED
    BY <2>3, <2>4 DEF stack
<1> QED
  BY <1>1, <1>2, <1>3, PTL DEF Spec

\* What is held back can be written when another operation follows: nothing has been
\* opened behind it, and it is the end of the innermost element.
\* (output_stream.cpp:294-355)
THEOREM HeldBackStaysInnermost == Spec => []HeldBackIsInnermost
<1>1. Init => IInv(out)
  BY InitIInv
<1>2. IInv(out) /\ [Next]_out => IInv(out)'
  BY NextIInv
<1>3. IInv(out) => HeldBackIsInnermost
  BY DEF IInv, HeldBackIsInnermost
<1> QED
  BY <1>1, <1>2, <1>3, PTL DEF Spec

(***************************************************************************)
(* What is computed along what is written, node by node.                   *)
(***************************************************************************)
AllTags == ElementNames \cup {"unit", "diff:ws"} \cup {DiffName[operation] : operation \in DiffOperations}

\* What the calls may write.
Written == {StartNode(name) : name \in AllTags} \cup {EndNode(name) : name \in AllTags} \cup {TextNode(<<"a">>)}

LEMMA WrittenNodes ==
  ASSUME NEW node \in Written
  PROVE  /\ node.type \in {"START", "END", "TEXT"}
         /\ node.type \in {"START", "END"} => node.name \in AllTags
         /\ IsText(node) <=> node.type = "TEXT"
         /\ node.type = "END" => node = EndNode(node.name)
         /\ node.type = "START" => node = StartNode(node.name)
BY DEF Written, StartNode, EndNode, TextNode, Node, IsText

\* One more node in a row.
LEMMA AppendRow ==
  ASSUME NEW S, NEW s \in Seq(S), NEW x \in S
  PROVE  /\ Append(s, x) \in Seq(S) /\ Len(s) \in Nat /\ Len(Append(s, x)) = Len(s) + 1
         /\ Append(s, x) # <<>>
         /\ \A n \in 1 .. Len(s) : Append(s, x)[n] = s[n]
         /\ Append(s, x)[Len(s) + 1] = x
<1>1. /\ Append(s, x) \in Seq(S) /\ Len(s) \in Nat /\ Len(Append(s, x)) = Len(s) + 1
      /\ \A n \in 1 .. Len(s) : Append(s, x)[n] = s[n]
      /\ Append(s, x)[Len(s) + 1] = x
  BY AppendProperties, LenProperties
<1>2. Append(s, x) # <<>>
  <2>1. Len(Append(s, x)) # 0
    BY <1>1
  <2> QED BY <2>1, EmptySeq
<1> QED BY <1>1, <1>2

LEMMA OpenBehindType ==
  ASSUME NEW open \in Seq(AllTags), NEW node \in Written
  PROVE  OpenBehind(open, node) \in Seq(AllTags)
<1>1. CASE node.type = "START"
  BY <1>1, WrittenNodes, AppendRow DEF OpenBehind
<1>2. CASE node.type = "END"
  BY <1>2, FrontOfAny DEF OpenBehind
<1> QED BY <1>1, <1>2 DEF OpenBehind

Opens(nodes, f) ==
  f = [n \in 0 .. Len(nodes) |-> IF n = 0 THEN <<"unit">> ELSE OpenBehind(f[n - 1], nodes[n])]

LEMMA OpenElementsIs ==
  ASSUME NEW nodes \in Seq(Written)
  PROVE  \E f \in [0 .. Len(nodes) -> Seq(AllTags)] :
           /\ f[0] = <<"unit">>
           /\ \A n \in 1 .. Len(nodes) : f[n] = OpenBehind(f[n - 1], nodes[n])
           /\ OpenElements(nodes) = f[Len(nodes)]
<1> DEFINE N == Len(nodes)
           S == Seq(AllTags)
           first == <<"unit">>
           step == [n \in 1 .. N |-> [open \in S |-> OpenBehind(open, nodes[n])]]
<1>1. N \in Nat /\ \A n \in 1 .. N : nodes[n] \in Written
  OBVIOUS
<1>2. first \in S
  BY DEF AllTags
<1>3. step \in [1 .. N -> [S -> S]]
  <2>1. \A n \in 1 .. N : \A open \in S : OpenBehind(open, nodes[n]) \in S
    BY <1>1, OpenBehindType
  <2> HIDE DEF S
  <2> QED BY <2>1
<1>4. PICK f \in [0 .. N -> S] : IsFold(f, first, step, N)
  <2> HIDE DEF N, S, first, step
  <2> QED BY <1>1, <1>2, <1>3, FoldExists
<1>5. /\ f[0] = <<"unit">>
      /\ \A n \in 1 .. N : f[n] = OpenBehind(f[n - 1], nodes[n])
  <2>1. \A n \in 0 .. N : f[n] = IF n = 0 THEN first ELSE step[n][f[n - 1]]
    BY <1>4 DEF IsFold
  <2>2. ASSUME NEW n \in 1 .. N PROVE f[n] = OpenBehind(f[n - 1], nodes[n])
    <3>1. n \in 0 .. N /\ n # 0 /\ n - 1 \in 0 .. N
      BY <1>1
    <3>2. f[n - 1] \in S
      BY <3>1
    <3>3. f[n] = step[n][f[n - 1]]
      BY <2>1, <3>1
    <3> HIDE DEF S
    <3> QED BY <3>2, <3>3
  <2>3. 0 \in 0 .. N
    BY <1>1
  <2> QED BY <2>1, <2>2, <2>3
<1>6. Opens(nodes, f)
  <2>1. f = [n \in 0 .. N |-> f[n]]
    BY <1>4
  <2>2. \A n \in 0 .. N : f[n] = IF n = 0 THEN <<"unit">> ELSE OpenBehind(f[n - 1], nodes[n])
    <3>1. \A n \in 0 .. N : n # 0 => n \in 1 .. N
      BY <1>1
    <3> QED BY <1>5, <3>1
  <2> HIDE DEF N, S
  <2> QED BY <2>1, <2>2 DEF Opens, N
<1> DEFINE g == CHOOSE g : Opens(nodes, g)
<1>7. Opens(nodes, g)
  BY <1>6
<1>8. OpenElements(nodes) = g[N]
  BY DEF OpenElements, Opens
<1> HIDE DEF g
<1>9. f[N] = g[N]
  <2>1. \A n \in 0 .. N : g[n] = IF n = 0 THEN <<"unit">> ELSE OpenBehind(g[n - 1], nodes[n])
    BY <1>7 DEF Opens
  <2>2. \A n \in 1 .. N : n \in 0 .. N /\ n # 0
    BY <1>1
  <2>3. 0 \in 0 .. N
    BY <1>1
  <2>4. g[0] = f[0] /\ \A n \in 1 .. N : f[n - 1] = g[n - 1] => f[n] = g[n]
    BY <2>1, <2>2, <2>3, <1>5
  <2> HIDE DEF N
  <2> QED BY <2>4, <1>1, SameSteps
<1> QED BY <1>4, <1>5, <1>8, <1>9

LEMMA OpenElementsStep ==
  ASSUME NEW nodes \in Seq(Written), NEW node \in Written
  PROVE  /\ OpenElements(nodes) \in Seq(AllTags)
         /\ OpenElements(Append(nodes, node)) = OpenBehind(OpenElements(nodes), node)
<1> DEFINE N == Len(nodes)
           more == Append(nodes, node)
<1>1. /\ more \in Seq(Written) /\ N \in Nat /\ Len(more) = N + 1
      /\ (\A n \in 1 .. N : more[n] = nodes[n]) /\ more[N + 1] = node
  BY AppendRow
<1>2. PICK f \in [0 .. N -> Seq(AllTags)] :
        /\ f[0] = <<"unit">>
        /\ \A n \in 1 .. N : f[n] = OpenBehind(f[n - 1], nodes[n])
        /\ OpenElements(nodes) = f[N]
  BY OpenElementsIs
<1> HIDE DEF more
<1>3. PICK g \in [0 .. Len(more) -> Seq(AllTags)] :
        /\ g[0] = <<"unit">>
        /\ \A n \in 1 .. Len(more) : g[n] = OpenBehind(g[n - 1], more[n])
        /\ OpenElements(more) = g[Len(more)]
  BY <1>1, OpenElementsIs
<1> HIDE DEF N
<1>4. f[N] = g[N]
  <2>1. \A n \in 1 .. N : n \in 1 .. Len(more) /\ more[n] = nodes[n]
    BY <1>1
  <2>2. \A n \in 1 .. N : f[n - 1] = g[n - 1] => f[n] = g[n]
    BY <2>1, <1>2, <1>3
  <2>3. f[0] = g[0] /\ N \in Nat
    BY <1>1, <1>2, <1>3
  <2> QED BY ONLY <2>2, <2>3, SameSteps
<1>5. N \in 0 .. N /\ N + 1 \in 1 .. Len(more) /\ N + 1 - 1 = N
  BY <1>1
<1>6. g[N + 1] = OpenBehind(g[N], node)
  BY <1>1, <1>3, <1>5
<1>7. f[N] \in Seq(AllTags)
  BY <1>2, <1>5
<1> QED BY <1>1, <1>2, <1>3, <1>4, <1>6, <1>7 DEF more

Readers == [operation : Sides, op_mode : Seq(DiffOperations), read : Seq(Written)]

LEMMA OperationOfTag ==
  ASSUME NEW name, OperationOf(name) # "NONE"
  PROVE  OperationOf(name) \in DiffOperations /\ name = DiffName[OperationOf(name)]
BY DEF OperationOf

LEMMA ReadNodeType ==
  ASSUME NEW r \in Readers, NEW node \in Written
  PROVE  ReadNode(r, node) \in Readers
<1>1. Append(r.read, node) \in Seq(Written) /\ Front(r.op_mode) \in Seq(DiffOperations)
  BY AppendRow, FrontOfAny DEF Readers
<1>2. [r EXCEPT !.read = Append(@, node)] \in Readers
  BY <1>1 DEF Readers
<1>3. [r EXCEPT !.op_mode = Front(@)] \in Readers
  BY <1>1 DEF Readers
<1>4. OperationOf(node.name) # "NONE" => [r EXCEPT !.op_mode = Append(@, OperationOf(node.name))] \in Readers
  <2> SUFFICES ASSUME OperationOf(node.name) # "NONE"
               PROVE  [r EXCEPT !.op_mode = Append(@, OperationOf(node.name))] \in Readers
    OBVIOUS
  <2>1. Append(r.op_mode, OperationOf(node.name)) \in Seq(DiffOperations)
    BY OperationOfTag, AppendRow DEF Readers
  <2> QED BY <2>1 DEF Readers
<1> QED BY <1>2, <1>3, <1>4 DEF ReadNode, StartElement, EndElement, CharactersUnit, IsDiff

Readings(reader, nodes, f) ==
  f = [n \in 0 .. Len(nodes) |-> IF n = 0 THEN reader ELSE ReadNode(f[n - 1], nodes[n])]

LEMMA ReadOnIs ==
  ASSUME NEW reader \in Readers, NEW nodes \in Seq(Written)
  PROVE  \E f \in [0 .. Len(nodes) -> Readers] :
           /\ f[0] = reader
           /\ \A n \in 1 .. Len(nodes) : f[n] = ReadNode(f[n - 1], nodes[n])
           /\ ReadOn(reader, nodes) = f[Len(nodes)]
<1> DEFINE N == Len(nodes)
           S == Readers
           first == reader
           step == [n \in 1 .. N |-> [r \in S |-> ReadNode(r, nodes[n])]]
<1>1. N \in Nat /\ \A n \in 1 .. N : nodes[n] \in Written
  OBVIOUS
<1>2. first \in S
  OBVIOUS
<1>3. step \in [1 .. N -> [S -> S]]
  <2>1. \A n \in 1 .. N : \A r \in S : ReadNode(r, nodes[n]) \in S
    BY <1>1, ReadNodeType
  <2> HIDE DEF S
  <2> QED BY <2>1
<1>4. PICK f \in [0 .. N -> S] : IsFold(f, first, step, N)
  <2> HIDE DEF N, S, first, step
  <2> QED BY <1>1, <1>2, <1>3, FoldExists
<1>5. /\ f[0] = reader
      /\ \A n \in 1 .. N : f[n] = ReadNode(f[n - 1], nodes[n])
  <2>1. \A n \in 0 .. N : f[n] = IF n = 0 THEN first ELSE step[n][f[n - 1]]
    BY <1>4 DEF IsFold
  <2>2. ASSUME NEW n \in 1 .. N PROVE f[n] = ReadNode(f[n - 1], nodes[n])
    <3>1. n \in 0 .. N /\ n # 0 /\ n - 1 \in 0 .. N
      BY <1>1
    <3>2. f[n - 1] \in S
      BY <3>1
    <3>3. f[n] = step[n][f[n - 1]]
      BY <2>1, <3>1
    <3> HIDE DEF S
    <3> QED BY <3>2, <3>3
  <2>3. 0 \in 0 .. N
    BY <1>1
  <2> QED BY <2>1, <2>2, <2>3
<1>6. Readings(reader, nodes, f)
  <2>1. f = [n \in 0 .. N |-> f[n]]
    BY <1>4
  <2>2. \A n \in 0 .. N : f[n] = IF n = 0 THEN reader ELSE ReadNode(f[n - 1], nodes[n])
    <3>1. \A n \in 0 .. N : n # 0 => n \in 1 .. N
      BY <1>1
    <3> QED BY <1>5, <3>1
  <2> HIDE DEF N, S
  <2> QED BY <2>1, <2>2 DEF Readings, N
<1> DEFINE g == CHOOSE g : Readings(reader, nodes, g)
<1>7. Readings(reader, nodes, g)
  BY <1>6
<1>8. ReadOn(reader, nodes) = g[N]
  BY DEF ReadOn, Readings
<1> HIDE DEF g
<1>9. f[N] = g[N]
  <2>1. \A n \in 0 .. N : g[n] = IF n = 0 THEN reader ELSE ReadNode(g[n - 1], nodes[n])
    BY <1>7 DEF Readings
  <2>2. \A n \in 1 .. N : n \in 0 .. N /\ n # 0
    BY <1>1
  <2>3. 0 \in 0 .. N
    BY <1>1
  <2>4. g[0] = f[0] /\ \A n \in 1 .. N : f[n - 1] = g[n - 1] => f[n] = g[n]
    BY <2>1, <2>2, <2>3, <1>5
  <2> HIDE DEF N
  <2> QED BY <2>4, <1>1, SameSteps
<1> QED BY <1>4, <1>5, <1>8, <1>9

LEMMA ReadOnStep ==
  ASSUME NEW reader \in Readers, NEW nodes \in Seq(Written), NEW node \in Written
  PROVE  /\ ReadOn(reader, nodes) \in Readers
         /\ ReadOn(reader, Append(nodes, node)) = ReadNode(ReadOn(reader, nodes), node)
<1> DEFINE N == Len(nodes)
           more == Append(nodes, node)
<1>1. /\ more \in Seq(Written) /\ N \in Nat /\ Len(more) = N + 1
      /\ (\A n \in 1 .. N : more[n] = nodes[n]) /\ more[N + 1] = node
  BY AppendRow
<1>2. PICK f \in [0 .. N -> Readers] :
        /\ f[0] = reader
        /\ \A n \in 1 .. N : f[n] = ReadNode(f[n - 1], nodes[n])
        /\ ReadOn(reader, nodes) = f[N]
  BY ReadOnIs
<1> HIDE DEF more
<1>3. PICK g \in [0 .. Len(more) -> Readers] :
        /\ g[0] = reader
        /\ \A n \in 1 .. Len(more) : g[n] = ReadNode(g[n - 1], more[n])
        /\ ReadOn(reader, more) = g[Len(more)]
  BY <1>1, ReadOnIs
<1> HIDE DEF N
<1>4. f[N] = g[N]
  <2>1. \A n \in 1 .. N : n \in 1 .. Len(more) /\ more[n] = nodes[n]
    BY <1>1
  <2>2. \A n \in 1 .. N : f[n - 1] = g[n - 1] => f[n] = g[n]
    BY <2>1, <1>2, <1>3
  <2>3. f[0] = g[0] /\ N \in Nat
    BY <1>1, <1>2, <1>3
  <2> QED BY ONLY <2>2, <2>3, SameSteps
<1>5. N \in 0 .. N /\ N + 1 \in 1 .. Len(more) /\ N + 1 - 1 = N
  BY <1>1
<1>6. g[N + 1] = ReadNode(g[N], node)
  BY <1>1, <1>3, <1>5
<1>7. f[N] \in Readers
  BY <1>2, <1>5
<1> QED BY <1>1, <1>2, <1>3, <1>4, <1>6, <1>7 DEF more

\* A tag that is open, with the operation it was opened under.
Tags == [operation : DiffOperations, name : AllTags]

Picked(held, tag, side) == IF tag.operation \in {"COMMON", side} THEN Append(held, tag) ELSE held

LEMMA PickedType ==
  ASSUME NEW held \in Seq(Tags), NEW tag \in Tags, NEW side \in Sides
  PROVE  Picked(held, tag, side) \in Seq(Tags)
BY AppendRow DEF Picked

Picks(tags, side, f) ==
  f = [n \in 0 .. Len(tags) |-> IF n = 0 THEN <<>> ELSE Picked(f[n - 1], tags[n], side)]

LEMMA OfVersionIs ==
  ASSUME NEW tags \in Seq(Tags), NEW side \in Sides
  PROVE  \E f \in [0 .. Len(tags) -> Seq(Tags)] :
           /\ f[0] = <<>>
           /\ \A n \in 1 .. Len(tags) : f[n] = Picked(f[n - 1], tags[n], side)
           /\ OfVersion(tags, side) = f[Len(tags)]
<1> DEFINE N == Len(tags)
           S == Seq(Tags)
           first == <<>>
           step == [n \in 1 .. N |-> [held \in S |-> Picked(held, tags[n], side)]]
<1>1. N \in Nat /\ \A n \in 1 .. N : tags[n] \in Tags
  OBVIOUS
<1>2. first \in S
  OBVIOUS
<1>3. step \in [1 .. N -> [S -> S]]
  <2>1. \A n \in 1 .. N : \A held \in S : Picked(held, tags[n], side) \in S
    BY <1>1, PickedType
  <2> HIDE DEF S
  <2> QED BY <2>1
<1>4. PICK f \in [0 .. N -> S] : IsFold(f, first, step, N)
  <2> HIDE DEF N, S, first, step
  <2> QED BY <1>1, <1>2, <1>3, FoldExists
<1>5. /\ f[0] = <<>>
      /\ \A n \in 1 .. N : f[n] = Picked(f[n - 1], tags[n], side)
  <2>1. \A n \in 0 .. N : f[n] = IF n = 0 THEN first ELSE step[n][f[n - 1]]
    BY <1>4 DEF IsFold
  <2>2. ASSUME NEW n \in 1 .. N PROVE f[n] = Picked(f[n - 1], tags[n], side)
    <3>1. n \in 0 .. N /\ n # 0 /\ n - 1 \in 0 .. N
      BY <1>1
    <3>2. f[n - 1] \in S
      BY <3>1
    <3>3. f[n] = step[n][f[n - 1]]
      BY <2>1, <3>1
    <3> HIDE DEF S
    <3> QED BY <3>2, <3>3
  <2>3. 0 \in 0 .. N
    BY <1>1
  <2> QED BY <2>1, <2>2, <2>3
<1>6. Picks(tags, side, f)
  <2>1. f = [n \in 0 .. N |-> f[n]]
    BY <1>4
  <2>2. \A n \in 0 .. N : f[n] = IF n = 0 THEN <<>> ELSE Picked(f[n - 1], tags[n], side)
    <3>1. \A n \in 0 .. N : n # 0 => n \in 1 .. N
      BY <1>1
    <3> QED BY <1>5, <3>1
  <2> HIDE DEF N, S
  <2> QED BY <2>1, <2>2 DEF Picks, N
<1> DEFINE g == CHOOSE g : Picks(tags, side, g)
<1>7. Picks(tags, side, g)
  BY <1>6
<1>8. OfVersion(tags, side) = g[N]
  BY DEF OfVersion, Picks, Picked
<1> HIDE DEF g
<1>9. f[N] = g[N]
  <2>1. \A n \in 0 .. N : g[n] = IF n = 0 THEN <<>> ELSE Picked(g[n - 1], tags[n], side)
    BY <1>7 DEF Picks
  <2>2. \A n \in 1 .. N : n \in 0 .. N /\ n # 0
    BY <1>1
  <2>3. 0 \in 0 .. N
    BY <1>1
  <2>4. g[0] = f[0] /\ \A n \in 1 .. N : f[n - 1] = g[n - 1] => f[n] = g[n]
    BY <2>1, <2>2, <2>3, <1>5
  <2> HIDE DEF N
  <2> QED BY <2>4, <1>1, SameSteps
<1> QED BY <1>4, <1>5, <1>8, <1>9

LEMMA OfVersionStep ==
  ASSUME NEW tags \in Seq(Tags), NEW side \in Sides, NEW tag \in Tags
  PROVE  /\ OfVersion(tags, side) \in Seq(Tags)
         /\ OfVersion(Append(tags, tag), side) = Picked(OfVersion(tags, side), tag, side)
<1> DEFINE N == Len(tags)
           more == Append(tags, tag)
<1>1. /\ more \in Seq(Tags) /\ N \in Nat /\ Len(more) = N + 1
      /\ (\A n \in 1 .. N : more[n] = tags[n]) /\ more[N + 1] = tag
  BY AppendRow
<1>2. PICK f \in [0 .. N -> Seq(Tags)] :
        /\ f[0] = <<>>
        /\ \A n \in 1 .. N : f[n] = Picked(f[n - 1], tags[n], side)
        /\ OfVersion(tags, side) = f[N]
  BY OfVersionIs
<1> HIDE DEF more
<1>3. PICK g \in [0 .. Len(more) -> Seq(Tags)] :
        /\ g[0] = <<>>
        /\ \A n \in 1 .. Len(more) : g[n] = Picked(g[n - 1], more[n], side)
        /\ OfVersion(more, side) = g[Len(more)]
  BY <1>1, OfVersionIs
<1> HIDE DEF N
<1>4. f[N] = g[N]
  <2>1. \A n \in 1 .. N : n \in 1 .. Len(more) /\ more[n] = tags[n]
    BY <1>1
  <2>2. \A n \in 1 .. N : f[n - 1] = g[n - 1] => f[n] = g[n]
    BY <2>1, <1>2, <1>3
  <2>3. f[0] = g[0] /\ N \in Nat
    BY <1>1, <1>2, <1>3
  <2> QED BY ONLY <2>2, <2>3, SameSteps
<1>5. N \in 0 .. N /\ N + 1 \in 1 .. Len(more) /\ N + 1 - 1 = N
  BY <1>1
<1>6. g[N + 1] = Picked(g[N], tag, side)
  BY <1>1, <1>3, <1>5
<1>7. f[N] \in Seq(Tags)
  BY <1>2, <1>5
<1> QED BY <1>1, <1>2, <1>3, <1>4, <1>6, <1>7 DEF more

(***************************************************************************)
(* The tags that are open in a stack.                                      *)
(***************************************************************************)
LEMMA RowsEqual ==
  ASSUME NEW S, NEW s \in Seq(S), NEW t \in Seq(S), Len(s) = Len(t),
         \A n \in 1 .. Len(s) : s[n] = t[n]
  PROVE  s = t
BY SeqEqual

LEMMA AppendConcat ==
  ASSUME NEW S, NEW s \in Seq(S), NEW t \in Seq(S), NEW x \in S
  PROVE  s \o Append(t, x) = Append(s \o t, x)
<1> DEFINE l == s \o Append(t, x)
           st == s \o t
           r == Append(st, x)
           tx == Append(t, x)
<1>1. Len(s) \in Nat /\ Len(t) \in Nat
  BY LenProperties
<1>2. tx \in Seq(S) /\ Len(tx) = Len(t) + 1 /\ (\A n \in 1 .. Len(t) : tx[n] = t[n]) /\ tx[Len(t) + 1] = x
  BY AppendRow
<1>3. /\ st \in Seq(S) /\ Len(st) = Len(s) + Len(t)
      /\ \A n \in 1 .. Len(s) + Len(t) : st[n] = IF n <= Len(s) THEN s[n] ELSE t[n - Len(s)]
  BY ConcatProperties
<1> HIDE DEF st, tx
<1>4. r \in Seq(S) /\ Len(r) = Len(st) + 1 /\ (\A n \in 1 .. Len(st) : r[n] = st[n]) /\ r[Len(st) + 1] = x
  <2>1. st \in Seq(S)
    BY <1>3
  <2> QED BY <2>1, AppendRow
<1> HIDE DEF r
<1> DEFINE w == s \o tx
<1>5. /\ w \in Seq(S) /\ Len(w) = Len(s) + Len(tx)
      /\ \A n \in 1 .. Len(s) + Len(tx) : w[n] = IF n <= Len(s) THEN s[n] ELSE tx[n - Len(s)]
  BY <1>2, ConcatProperties
<1> HIDE DEF w
<1>6. Len(w) = Len(r)
  BY <1>1, <1>2, <1>3, <1>4, <1>5
<1>7. Len(w) = Len(s) + Len(t) + 1
  BY <1>1, <1>2, <1>5
<1>8. ASSUME NEW n \in 1 .. Len(w) PROVE w[n] = r[n]
  <2>1. CASE n <= Len(s)
    <3>1. n \in 1 .. Len(s) + Len(t) /\ n \in 1 .. Len(s) + Len(tx)
      BY <2>1, <1>1, <1>2, <1>5
    <3> QED BY <2>1, <3>1, <1>3, <1>4, <1>5
  <2>2. CASE n > Len(s) /\ n <= Len(s) + Len(t)
    <3>1. /\ n \in 1 .. Len(s) + Len(t) /\ n \in 1 .. Len(s) + Len(tx)
          /\ n - Len(s) \in 1 .. Len(t) /\ ~ n <= Len(s)
      BY <2>2, <1>1, <1>2, <1>5
    <3>2. w[n] = tx[n - Len(s)] /\ tx[n - Len(s)] = t[n - Len(s)]
      BY <3>1, <1>2, <1>5
    <3>3. r[n] = st[n] /\ st[n] = t[n - Len(s)]
      BY <3>1, <1>3, <1>4
    <3> QED BY <3>2, <3>3
  <2>3. CASE n = Len(s) + Len(t) + 1
    <3>1. n \in 1 .. Len(s) + Len(tx) /\ ~ n <= Len(s) /\ n - Len(s) = Len(t) + 1 /\ n = Len(st) + 1
      BY <2>3, <1>1, <1>2, <1>3
    <3> QED BY <3>1, <1>2, <1>4, <1>5
  <2>4. n <= Len(s) \/ (n > Len(s) /\ n <= Len(s) + Len(t)) \/ n = Len(s) + Len(t) + 1
    BY <1>1, <1>7
  <2> QED BY <2>1, <2>2, <2>3, <2>4
<1>9. w = r
  BY <1>4, <1>5, <1>6, <1>8, RowsEqual
<1> QED BY <1>9 DEF w, r, tx, st

\* A row is what is in front of its last element, and that one.
LEMMA FrontAndLast ==
  ASSUME NEW S, NEW s \in Seq(S), s # <<>>
  PROVE  s = Append(Front(s), Last(s))
<1>1. /\ Len(s) \in Nat \ {0} /\ Last(s) = s[Len(s)] /\ Last(s) \in S
      /\ Front(s) \in Seq(S) /\ Len(Front(s)) = Len(s) - 1
      /\ \A n \in 1 .. Len(s) - 1 : Front(s)[n] = s[n]
  BY FrontLast
<1> DEFINE r == Append(Front(s), Last(s))
<1>2. /\ r \in Seq(S) /\ Len(r) = Len(Front(s)) + 1
      /\ (\A n \in 1 .. Len(Front(s)) : r[n] = Front(s)[n]) /\ r[Len(Front(s)) + 1] = Last(s)
  BY <1>1, AppendRow
<1> HIDE DEF r
<1>3. Len(r) = Len(s)
  BY <1>1, <1>2
<1>4. ASSUME NEW n \in 1 .. Len(s) PROVE s[n] = r[n]
  <2> DEFINE l == Len(s)
             f == Front(s)
  <2>1. l \in Nat /\ Last(s) = s[l] /\ Len(f) = l - 1
    BY <1>1
  <2>2. \A k \in 1 .. l - 1 : f[k] = s[k]
    BY <1>1
  <2>3. (\A k \in 1 .. Len(f) : r[k] = f[k]) /\ r[Len(f) + 1] = Last(s) /\ n \in 1 .. l
    BY <1>2
  <2> HIDE DEF l, f
  <2>4. l - 1 + 1 = l /\ (n = l \/ n \in 1 .. l - 1)
    BY <2>1, <2>3
  <2>5. CASE n = l
    BY <2>1, <2>3, <2>4, <2>5
  <2>6. CASE n \in 1 .. l - 1
    BY <2>1, <2>2, <2>3, <2>6
  <2> QED BY <2>4, <2>5, <2>6
<1>5. s = r
  BY <1>2, <1>3, <1>4, RowsEqual
<1> QED BY <1>5 DEF r

\* The last element taken off again.
LEMMA FrontOfAppend ==
  ASSUME NEW S, NEW s \in Seq(S), NEW x \in S
  PROVE  Front(Append(s, x)) = s /\ Last(Append(s, x)) = x
<1> DEFINE r == Append(s, x)
<1>1. /\ r \in Seq(S) /\ r # <<>> /\ Len(r) = Len(s) + 1 /\ Len(s) \in Nat
      /\ (\A n \in 1 .. Len(s) : r[n] = s[n]) /\ r[Len(s) + 1] = x
  BY AppendRow
<1> HIDE DEF r
<1>2. /\ Last(r) = r[Len(r)] /\ Front(r) \in Seq(S) /\ Len(Front(r)) = Len(r) - 1
      /\ \A n \in 1 .. Len(r) - 1 : Front(r)[n] = r[n]
  BY <1>1, FrontLast
<1>3. Len(r) - 1 = Len(s)
  BY <1>1
<1>4. Front(r) = s
  BY <1>1, <1>2, <1>3, RowsEqual
<1> QED BY <1>1, <1>2, <1>4 DEF r

LEMMA FrontConcat ==
  ASSUME NEW S, NEW s \in Seq(S), NEW t \in Seq(S), t # <<>>
  PROVE  /\ s \o t # <<>>
         /\ Front(s \o t) = s \o Front(t)
         /\ Last(s \o t) = Last(t)
<1>1. t = Append(Front(t), Last(t)) /\ Front(t) \in Seq(S) /\ Last(t) \in S
  BY FrontAndLast, FrontLast
<1> DEFINE a == Front(t)
           x == Last(t)
           sa == s \o a
<1>2. s \o t = Append(sa, x) /\ sa \in Seq(S)
  <2>1. s \o Append(a, x) = Append(s \o a, x)
    <3> HIDE DEF a, x
    <3> QED BY <1>1, AppendConcat DEF a, x
  <2>2. s \o a \in Seq(S)
    BY <1>1, ConcatProperties
  <2> QED BY <1>1, <2>1, <2>2
<1> HIDE DEF sa, x
<1>3. x \in S
  BY <1>1 DEF x
<1>4. Front(Append(sa, x)) = sa /\ Last(Append(sa, x)) = x /\ Append(sa, x) # <<>>
  BY <1>2, <1>3, FrontOfAppend, AppendRow
<1> QED BY <1>2, <1>4 DEF sa, x

\* FlattenSeq joins the rows one after the other.
LEMMA FlattenRows ==
  ASSUME NEW S, NEW ss \in Seq(Seq(S)), ss # <<>>
  PROVE  \E f \in [1 .. Len(ss) -> Seq(S)] :
           /\ f[1] = ss[1]
           /\ \A k \in 2 .. Len(ss) : f[k] = f[k - 1] \o ss[k]
           /\ FlattenSeq(ss) = f[Len(ss)]
<1> DEFINE f == CHOOSE f : Flattens(ss, f)
<1>1. Len(ss) \in Nat /\ Len(ss) # 0
  OBVIOUS
<1>2. Flattens(ss, f)
  <2>1. \E g : Flattens(ss, g)
    BY <1>1, FlattenExists DEF Flattens, FlattensTo
  <2> QED BY <2>1
<1>3. FlattenSeq(ss) = f[Len(ss)]
  BY <1>1 DEF FlattenSeq, Flattens
<1> HIDE DEF f
<1>4. f \in [1 .. Len(ss) -> Seq(S)]
  BY <1>2, FlattensType
<1>5. f[1] = ss[1] /\ \A k \in 2 .. Len(ss) : f[k] = f[k - 1] \o ss[k]
  BY <1>2, FlattensSteps
<1> QED BY <1>3, <1>4, <1>5

LEMMA FlattenAppend ==
  ASSUME NEW S, NEW ss \in Seq(Seq(S)), NEW a \in Seq(S)
  PROVE  /\ FlattenSeq(ss) \in Seq(S)
         /\ FlattenSeq(Append(ss, a)) = FlattenSeq(ss) \o a
<1> DEFINE N == Len(ss)
           more == Append(ss, a)
<1>1. /\ more \in Seq(Seq(S)) /\ N \in Nat /\ Len(more) = N + 1 /\ more # <<>>
      /\ (\A n \in 1 .. N : more[n] = ss[n]) /\ more[N + 1] = a
  BY AppendRow
<1> HIDE DEF more
<1>2. PICK g \in [1 .. Len(more) -> Seq(S)] :
        /\ g[1] = more[1]
        /\ \A k \in 2 .. Len(more) : g[k] = g[k - 1] \o more[k]
        /\ FlattenSeq(more) = g[Len(more)]
  BY <1>1, FlattenRows
<1>3. CASE ss = <<>>
  <2>1. N = 0 /\ FlattenSeq(ss) = <<>>
    BY <1>3 DEF FlattenSeq
  <2>2. FlattenSeq(more) = a
    BY <1>1, <1>2, <2>1
  <2>3. <<>> \o a = a /\ <<>> \in Seq(S)
    BY ConcatEmptySeq, EmptySeq
  <2> QED BY <2>1, <2>2, <2>3 DEF more
<1>4. CASE ss # <<>>
  <2>1. PICK f \in [1 .. N -> Seq(S)] :
          /\ f[1] = ss[1]
          /\ \A k \in 2 .. N : f[k] = f[k - 1] \o ss[k]
          /\ FlattenSeq(ss) = f[N]
    BY <1>4, FlattenRows
  <2>2. N # 0
    BY <1>4
  <2> HIDE DEF N
  <2> DEFINE f1 == [n \in 0 .. N - 1 |-> f[n + 1]]
             g1 == [n \in 0 .. N - 1 |-> g[n + 1]]
  <2>3. f1[0] = g1[0]
    <3>1. 0 \in 0 .. N - 1 /\ 1 \in 1 .. N
      BY <1>1, <2>2
    <3>2. f1[0] = f[1] /\ g1[0] = g[1]
      BY <3>1
    <3> QED BY <3>1, <3>2, <1>1, <1>2, <2>1
  <2>4. ASSUME NEW n \in 1 .. N - 1, f1[n - 1] = g1[n - 1]
        PROVE  f1[n] = g1[n]
    <3>1. /\ n \in 0 .. N - 1 /\ n - 1 \in 0 .. N - 1 /\ n - 1 + 1 = n /\ n + 1 - 1 = n
          /\ n + 1 \in 2 .. N /\ n + 1 \in 1 .. N /\ n + 1 \in 2 .. N + 1
      BY <1>1, <2>2
    <3>2. f1[n] = f[n + 1] /\ g1[n] = g[n + 1] /\ f1[n - 1] = f[n] /\ g1[n - 1] = g[n]
      BY <3>1
    <3> HIDE DEF f1, g1
    <3> DEFINE m == n + 1
    <3>3. m \in 2 .. N /\ m \in 1 .. N /\ m \in 2 .. Len(more) /\ m - 1 = n
      BY <3>1, <1>1
    <3> HIDE DEF m
    <3>4. f[m] = f[n] \o ss[m]
      BY <3>3, <2>1
    <3>5. g[m] = g[n] \o more[m]
      BY <3>3, <1>2
    <3>6. more[m] = ss[m]
      BY <3>3, <1>1
    <3>7. f[m] = g[m]
      BY <2>4, <3>2, <3>4, <3>5, <3>6
    <3> QED BY <3>2, <3>7 DEF m
  <2>5. f1[N - 1] = g1[N - 1]
    <3>1. N - 1 \in Nat
      BY <1>1, <2>2
    <3> HIDE DEF f1, g1
    <3> DEFINE M == N - 1
    <3>2. \A n \in 1 .. M : f1[n - 1] = g1[n - 1] => f1[n] = g1[n]
      BY <2>4
    <3> HIDE DEF M
    <3>3. f1[M] = g1[M]
      BY ONLY <2>3, <3>1, <3>2, SameSteps DEF M
    <3> QED BY <3>3 DEF M
  <2>6. f[N] = g[N]
    <3>1. N - 1 \in 0 .. N - 1 /\ N - 1 + 1 = N
      BY <1>1, <2>2
    <3> QED BY <3>1, <2>5
  <2>7. g[N + 1] = g[N] \o a /\ N \in 1 .. N
    <3> DEFINE m == N + 1
    <3>1. m \in 2 .. Len(more) /\ m - 1 = N /\ N \in 1 .. N /\ more[m] = a
      BY <1>1, <2>2
    <3> HIDE DEF m
    <3>2. g[m] = g[N] \o more[m]
      BY <3>1, <1>2
    <3> QED BY <3>1, <3>2 DEF m
  <2> QED BY <2>1, <2>6, <2>7, <1>1, <1>2 DEF more
<1> QED BY <1>3, <1>4

\* The tags of one set.
TagsIn(set) == [k \in DOMAIN set.open_tags |-> [operation |-> set.operation, name |-> set.open_tags[k]]]

Tag(operation, name) == [operation |-> operation, name |-> name]

LEMMA TagsInType ==
  ASSUME NEW set \in DiffSets
  PROVE  /\ TagsIn(set) \in Seq(Tags)
         /\ Len(TagsIn(set)) = Len(set.open_tags)
         /\ set.operation \in DiffOperations /\ set.open_tags \in Seq(AllTags)
         /\ \A k \in 1 .. Len(set.open_tags) : TagsIn(set)[k] = Tag(set.operation, set.open_tags[k])
<1>1. set.operation \in DiffOperations /\ set.open_tags \in Seq(TagsOf(set.operation))
  BY DEF DiffSets
<1> DEFINE tags == set.open_tags
           l == Len(tags)
<1>2. l \in Nat /\ DOMAIN tags = 1 .. l /\ \A k \in 1 .. l : tags[k] \in AllTags
  <2>1. TagsOf(set.operation) \subseteq AllTags
    BY <1>1 DEF TagsOf, AllTags
  <2>2. l \in Nat /\ DOMAIN tags = 1 .. l /\ \A k \in 1 .. l : tags[k] \in TagsOf(set.operation)
    BY <1>1, LenProperties, ElementOfSeq
  <2> QED BY <2>1, <2>2
<1>3. TagsIn(set) = [k \in 1 .. l |-> Tag(set.operation, tags[k])]
  BY <1>2 DEF TagsIn, Tag
<1>4. \A k \in 1 .. l : Tag(set.operation, tags[k]) \in Tags
  BY <1>1, <1>2 DEF Tag, Tags
<1>5. tags \in Seq(AllTags)
  BY <1>1, <1>2
<1> HIDE DEF tags, l
<1>6. TagsIn(set) \in Seq(Tags) /\ Len(TagsIn(set)) = l
  BY <1>2, <1>3, <1>4
<1>7. \A k \in 1 .. l : TagsIn(set)[k] = Tag(set.operation, tags[k])
  BY <1>3
<1> QED BY <1>1, <1>5, <1>6, <1>7 DEF l, tags

LEMMA OpenTagsAppend ==
  ASSUME NEW stack \in Seq(DiffSets), NEW set \in DiffSets
  PROVE  /\ OpenTags(stack) \in Seq(Tags)
         /\ OpenTags(Append(stack, set)) = OpenTags(stack) \o TagsIn(set)
<1> DEFINE Rows(diffs) == [n \in DOMAIN diffs |-> TagsIn(diffs[n])]
           l == Len(stack)
           more == Append(stack, set)
<1>1. OpenTags(stack) = FlattenSeq(Rows(stack)) /\ OpenTags(more) = FlattenSeq(Rows(more))
  BY DEF OpenTags, TagsIn
<1>2. /\ more \in Seq(DiffSets) /\ l \in Nat /\ Len(more) = l + 1
      /\ (\A n \in 1 .. l : more[n] = stack[n]) /\ more[l + 1] = set
      /\ DOMAIN stack = 1 .. l /\ DOMAIN more = 1 .. l + 1
      /\ \A n \in 1 .. l : stack[n] \in DiffSets
  BY AppendRow, LenProperties, ElementOfSeq
<1> HIDE DEF more
<1> DEFINE S == Seq(Tags)
           a == TagsIn(set)
           rows == [n \in 1 .. l |-> TagsIn(stack[n])]
           rows2 == [n \in 1 .. l + 1 |-> TagsIn(more[n])]
<1>3. Rows(stack) = rows /\ Rows(more) = rows2
  BY <1>2
<1>4. a \in S /\ \A n \in 1 .. l : TagsIn(stack[n]) \in S
  BY <1>2, TagsInType
<1>5. rows \in Seq(S) /\ Len(rows) = l
  <2> HIDE DEF S
  <2> QED BY <1>2, <1>4
<1>6. rows2 = Append(rows, a)
  <2> DEFINE r == Append(rows, a)
  <2>1. /\ r \in Seq(S) /\ Len(r) = l + 1
        /\ (\A n \in 1 .. l : r[n] = rows[n]) /\ r[l + 1] = a
    <3> HIDE DEF rows, S, a
    <3> QED BY <1>4, <1>5, AppendRow
  <2> HIDE DEF r
  <2>2. \A n \in 1 .. l : rows[n] = TagsIn(stack[n])
    OBVIOUS
  <2>3. \A n \in 1 .. l + 1 : n \in 1 .. l \/ n = l + 1
    BY <1>2
  <2>4. rows2 \in Seq(S) /\ Len(rows2) = l + 1 /\ \A n \in 1 .. l + 1 : rows2[n] = TagsIn(more[n])
    <3>1. \A n \in 1 .. l + 1 : TagsIn(more[n]) \in S
      BY <1>2, <1>4, <2>3
    <3> HIDE DEF S
    <3> QED BY <1>2, <3>1
  <2> HIDE DEF rows, rows2, S
  <2>5. \A n \in 1 .. l + 1 : rows2[n] = r[n]
    BY <2>1, <2>2, <2>3, <2>4, <1>2 DEF a
  <2>6. rows2 = r
    BY <2>1, <2>4, <2>5, RowsEqual
  <2> QED BY <2>6 DEF r
<1> HIDE DEF rows, rows2, Rows
<1>7. /\ FlattenSeq(rows) \in Seq(Tags)
      /\ FlattenSeq(Append(rows, a)) = FlattenSeq(rows) \o a
  <2> HIDE DEF a
  <2> QED BY <1>4, <1>5, FlattenAppend
<1> QED BY <1>1, <1>3, <1>6, <1>7 DEF more, a

\* A sound stack from its innermost set.
LEMMA OpenTagsLast ==
  ASSUME NEW stack, Alternating(stack)
  PROVE  /\ OpenTags(stack) \in Seq(Tags) /\ OpenTags(Front(stack)) \in Seq(Tags)
         /\ Front(stack) \in Seq(DiffSets) /\ Last(stack) \in DiffSets
         /\ TagsIn(Last(stack)) \in Seq(Tags)
         /\ OpenTags(stack) = OpenTags(Front(stack)) \o TagsIn(Last(stack))
<1>1. stack \in Seq(DiffSets) /\ stack # <<>>
  BY DEF Alternating
<1>2. stack = Append(Front(stack), Last(stack)) /\ Front(stack) \in Seq(DiffSets) /\ Last(stack) \in DiffSets
  BY <1>1, FrontAndLast, FrontLast
<1>3. /\ OpenTags(Front(stack)) \in Seq(Tags)
      /\ OpenTags(Append(Front(stack), Last(stack))) = OpenTags(Front(stack)) \o TagsIn(Last(stack))
  BY <1>2, OpenTagsAppend
<1>4. TagsIn(Last(stack)) \in Seq(Tags)
  BY <1>2, TagsInType
<1>5. OpenTags(Front(stack)) \o TagsIn(Last(stack)) \in Seq(Tags)
  BY <1>3, <1>4, ConcatProperties
<1> QED BY <1>2, <1>3, <1>4, <1>5

LEMMA InnermostOpenTag ==
  ASSUME NEW stack, Sound(stack)
  PROVE  /\ OpenTags(stack) # <<>>
         /\ Last(OpenTags(stack)) = Tag(Last(stack).operation, Last(Last(stack).open_tags))
<1> DEFINE set == Last(stack)
           tags == set.open_tags
           l == Len(tags)
<1>1. /\ TagsIn(set) \in Seq(Tags) /\ OpenTags(Front(stack)) \in Seq(Tags) /\ set \in DiffSets
      /\ OpenTags(stack) = OpenTags(Front(stack)) \o TagsIn(set)
  BY OpenTagsLast DEF Sound
<1>2. /\ Len(TagsIn(set)) = l /\ tags \in Seq(AllTags) /\ tags # <<>>
      /\ \A k \in 1 .. l : TagsIn(set)[k] = Tag(set.operation, tags[k])
  BY <1>1, TagsInType DEF Sound
<1> HIDE DEF set
<1>3. l \in Nat \ {0} /\ Last(tags) = tags[l]
  BY <1>2, FrontLast
<1>4. TagsIn(set) # <<>>
  BY <1>2, <1>3, EmptySeq
<1>5. Last(TagsIn(set)) = TagsIn(set)[l]
  <2>1. Last(TagsIn(set)) = TagsIn(set)[Len(TagsIn(set))]
    BY <1>1, <1>4, FrontLast
  <2> QED BY <1>2, <2>1
<1> DEFINE s == OpenTags(Front(stack))
           t == TagsIn(set)
<1>6. s \o t # <<>> /\ Last(s \o t) = Last(t)
  <2>1. s \in Seq(Tags) /\ t \in Seq(Tags) /\ t # <<>>
    BY <1>1, <1>4
  <2> HIDE DEF s, t
  <2> QED BY <2>1, FrontConcat
<1> QED BY <1>1, <1>2, <1>3, <1>5, <1>6 DEF set

\* The tags of a set with one more, and with one less.
LEMMA TagsInAppend ==
  ASSUME NEW operation \in DiffOperations, NEW tags \in Seq(TagsOf(operation)), NEW name \in TagsOf(operation)
  PROVE  TagsIn(DiffSet(operation, Append(tags, name)))
           = Append(TagsIn(DiffSet(operation, tags)), Tag(operation, name))
<1> DEFINE more == Append(tags, name)
           old == DiffSet(operation, tags)
           new == DiffSet(operation, more)
           l == Len(tags)
<1>1. /\ more \in Seq(TagsOf(operation)) /\ l \in Nat /\ Len(more) = l + 1
      /\ (\A n \in 1 .. l : more[n] = tags[n]) /\ more[l + 1] = name
  BY AppendRow
<1> HIDE DEF more
<1>2. /\ old \in DiffSets /\ old.operation = operation /\ old.open_tags = tags
      /\ new \in DiffSets /\ new.operation = operation /\ new.open_tags = more
  BY <1>1, DiffSetType
<1> HIDE DEF old, new
<1>3. /\ TagsIn(old) \in Seq(Tags) /\ Len(TagsIn(old)) = l
      /\ \A k \in 1 .. l : TagsIn(old)[k] = Tag(operation, tags[k])
  BY <1>2, TagsInType
<1>4. /\ TagsIn(new) \in Seq(Tags) /\ Len(TagsIn(new)) = l + 1
      /\ \A k \in 1 .. l + 1 : TagsIn(new)[k] = Tag(operation, more[k])
  BY <1>1, <1>2, TagsInType
<1>5. Tag(operation, name) \in Tags
  BY DEF Tag, Tags, TagsOf, AllTags
<1> DEFINE r == Append(TagsIn(old), Tag(operation, name))
<1>6. /\ r \in Seq(Tags) /\ Len(r) = l + 1
      /\ (\A n \in 1 .. l : r[n] = TagsIn(old)[n]) /\ r[l + 1] = Tag(operation, name)
  BY <1>3, <1>5, AppendRow
<1> HIDE DEF r
<1>7. ASSUME NEW n \in 1 .. l + 1 PROVE TagsIn(new)[n] = r[n]
  <2>1. n \in 1 .. l \/ n = l + 1
    BY <1>1
  <2> QED BY <2>1, <1>1, <1>3, <1>4, <1>6
<1>8. TagsIn(new) = r
  BY <1>4, <1>6, <1>7, RowsEqual
<1> QED BY <1>8 DEF r, new, old, more

LEMMA TagsInFront ==
  ASSUME NEW operation \in DiffOperations, NEW tags \in Seq(TagsOf(operation)), tags # <<>>
  PROVE  /\ TagsIn(DiffSet(operation, tags)) # <<>>
         /\ TagsIn(DiffSet(operation, Front(tags))) = Front(TagsIn(DiffSet(operation, tags)))
<1> DEFINE a == Front(tags)
           x == Last(tags)
<1>1. a \in Seq(TagsOf(operation)) /\ x \in TagsOf(operation) /\ tags = Append(a, x)
  BY FrontLast, FrontAndLast
<1> HIDE DEF a, x
<1> DEFINE t == TagsIn(DiffSet(operation, a))
<1>2. TagsIn(DiffSet(operation, tags)) = Append(t, Tag(operation, x))
  BY <1>1, TagsInAppend
<1>3. t \in Seq(Tags)
  BY <1>1, DiffSetType, TagsInType
<1>4. Tag(operation, x) \in Tags
  BY <1>1 DEF Tag, Tags, TagsOf, AllTags
<1> HIDE DEF t
<1>5. Front(Append(t, Tag(operation, x))) = t /\ Append(t, Tag(operation, x)) # <<>>
  BY <1>3, <1>4, FrontOfAppend, AppendRow
<1> QED BY <1>2, <1>5 DEF t, a

LEMMA TagsInNothing ==
  ASSUME NEW operation
  PROVE  TagsIn(DiffSet(operation, <<>>)) = <<>>
BY DEF TagsIn, DiffSet

LEMMA OpensNothing == OpenTags(<<>>) = <<>>
<1> DEFINE Row(n) == [k \in DOMAIN <<>>[n].open_tags |->
                       [operation |-> <<>>[n].operation, name |-> <<>>[n].open_tags[k]]]
           rows == [n \in DOMAIN <<>> |-> Row(n)]
<1>1. OpenTags(<<>>) = FlattenSeq(rows)
  BY DEF OpenTags
<1> HIDE DEF Row
<1>2. rows = <<>>
  OBVIOUS
<1> QED BY <1>1, <1>2 DEF FlattenSeq

\* A start is put on, under the operation.
LEMMA StartTells ==
  ASSUME NEW stack, Sound(stack), NEW operation \in DiffOperations,
         NEW node, node.type = "START", node.name \in TagsOf(operation)
  PROVE  OpenTags(UpdateDiffStack(stack, node, operation))
           = Append(OpenTags(stack), Tag(operation, node.name))
<1> DEFINE empty == DiffSet(operation, <<>>)
           diffs == IF Last(stack).operation # operation THEN Append(stack, empty) ELSE stack
           tags == Last(diffs).open_tags
           updated == Append(tags, node.name)
<1>1. empty \in DiffSets /\ empty.operation = operation /\ empty.open_tags = <<>>
  BY EmptySeq, DiffSetType
<1>2. stack \in Seq(DiffSets) /\ Alternating(stack) /\ Last(stack) \in DiffSets
  BY FrontLast DEF Sound, Alternating
<1>3. Alternating(diffs) /\ Last(diffs).operation = operation /\ OpenTags(diffs) = OpenTags(stack)
  <2>1. CASE Last(stack).operation # operation
    <3>1. Alternating(Append(stack, empty)) /\ Last(Append(stack, empty)) = empty
      BY <1>1, <2>1, PushAlternates
    <3>2. OpenTags(Append(stack, empty)) = OpenTags(stack) \o TagsIn(empty) /\ OpenTags(stack) \in Seq(Tags)
      <4> HIDE DEF empty
      <4> QED BY <1>1, <1>2, OpenTagsAppend
    <3>3. TagsIn(empty) = <<>>
      BY TagsInNothing
    <3> HIDE DEF empty
    <3>4. OpenTags(stack) \o <<>> = OpenTags(stack)
      BY <3>2, ConcatEmptySeq
    <3> QED BY <2>1, <3>1, <3>2, <3>3, <3>4, <1>1
  <2>2. CASE Last(stack).operation = operation
    BY <1>2, <2>2
  <2> QED BY <2>1, <2>2
<1>4. UpdateDiffStack(stack, node, operation)
        = IF updated = <<>> THEN Front(diffs) ELSE Append(Front(diffs), DiffSet(operation, updated))
  BY DEF UpdateDiffStack, IsText
<1> HIDE DEF diffs
<1>5. /\ Front(diffs) \in Seq(DiffSets) /\ Last(diffs) \in DiffSets /\ OpenTags(Front(diffs)) \in Seq(Tags)
      /\ OpenTags(diffs) = OpenTags(Front(diffs)) \o TagsIn(Last(diffs))
      /\ TagsIn(Last(diffs)) \in Seq(Tags)
  BY <1>3, OpenTagsLast
<1>6. Last(diffs) = DiffSet(operation, tags) /\ tags \in Seq(TagsOf(operation))
  BY <1>3, <1>5 DEF DiffSets, DiffSet
<1> HIDE DEF tags
<1>7. updated \in Seq(TagsOf(operation)) /\ updated # <<>>
  BY <1>6, AppendRow
<1>8. TagsIn(DiffSet(operation, updated)) = Append(TagsIn(Last(diffs)), Tag(operation, node.name))
  BY <1>6, TagsInAppend
<1> HIDE DEF updated
<1>9. OpenTags(Append(Front(diffs), DiffSet(operation, updated)))
        = OpenTags(Front(diffs)) \o TagsIn(DiffSet(operation, updated))
  BY <1>5, <1>7, DiffSetType, OpenTagsAppend
<1>10. Tag(operation, node.name) \in Tags
  BY DEF Tag, Tags, TagsOf, AllTags
<1> DEFINE s == OpenTags(Front(diffs))
           t == TagsIn(Last(diffs))
           x == Tag(operation, node.name)
<1>11. s \in Seq(Tags) /\ t \in Seq(Tags) /\ x \in Tags
  BY <1>5, <1>10
<1> HIDE DEF s, t, x
<1>12. s \o Append(t, x) = Append(s \o t, x)
  BY <1>11, AppendConcat
<1> QED BY <1>3, <1>4, <1>5, <1>7, <1>8, <1>9, <1>12 DEF s, t, x

\* The end of an element of the innermost set takes the last tag off, when there is
\* another one.
LEMMA EndTells ==
  ASSUME NEW stack, Sound(stack), NEW operation \in DiffOperations, Last(stack).operation = operation,
         NEW node, node.type = "END", Len(OpenTags(stack)) # 1
  PROVE  OpenTags(UpdateDiffStack(stack, node, operation)) = Front(OpenTags(stack))
<1> DEFINE tags == Last(stack).open_tags
           updated == Front(tags)
<1>1. stack \in Seq(DiffSets) /\ stack # <<>> /\ Alternating(stack) /\ tags # <<>>
  BY DEF Sound, Alternating
<1>2. /\ Front(stack) \in Seq(DiffSets) /\ Last(stack) \in DiffSets /\ OpenTags(Front(stack)) \in Seq(Tags)
      /\ OpenTags(stack) = OpenTags(Front(stack)) \o TagsIn(Last(stack))
      /\ TagsIn(Last(stack)) \in Seq(Tags)
  BY <1>1, OpenTagsLast
<1>3. Last(stack) = DiffSet(operation, tags) /\ tags \in Seq(TagsOf(operation))
  BY <1>2 DEF DiffSets, DiffSet
<1>4. UpdateDiffStack(stack, node, operation)
        = IF Len(stack) = 1 /\ Len(tags) = 1 THEN stack
          ELSE IF updated = <<>> THEN Front(stack)
          ELSE Append(Front(stack), DiffSet(operation, updated))
  BY DEF UpdateDiffStack, IsText
<1> HIDE DEF tags
<1>5. ~ (Len(stack) = 1 /\ Len(tags) = 1)
  <2> SUFFICES ASSUME Len(stack) = 1, Len(tags) = 1 PROVE FALSE
    OBVIOUS
  <2>1. Front(stack) = <<>>
    <3>1. Len(Front(stack)) = 0
      BY <1>1, FrontLast
    <3> QED BY <3>1, <1>2, EmptySeq
  <2>2. OpenTags(<<>>) = <<>>
    BY OpensNothing
  <2>3. <<>> \o TagsIn(Last(stack)) = TagsIn(Last(stack))
    BY <1>2, ConcatEmptySeq
  <2>4. Len(TagsIn(Last(stack))) = Len(tags)
    BY <1>2, TagsInType DEF tags
  <2> QED BY <1>2, <2>1, <2>2, <2>3, <2>4
<1>6. TagsIn(Last(stack)) # <<>> /\ TagsIn(DiffSet(operation, updated)) = Front(TagsIn(Last(stack)))
  BY <1>1, <1>3, TagsInFront
<1> DEFINE s == OpenTags(Front(stack))
           t == TagsIn(Last(stack))
<1>7. s \in Seq(Tags) /\ t \in Seq(Tags) /\ t # <<>>
  BY <1>2, <1>6
<1>8. Front(OpenTags(stack)) = s \o Front(t)
  <2> HIDE DEF s, t
  <2>1. Front(s \o t) = s \o Front(t)
    BY <1>7, FrontConcat
  <2> QED BY <1>2, <2>1 DEF s, t
<1>9. updated \in Seq(TagsOf(operation))
  BY <1>3, FrontOfAny
<1> HIDE DEF updated
<1>10. CASE updated = <<>>
  <2>1. Front(t) = <<>>
    BY <1>6, <1>10, TagsInNothing
  <2> HIDE DEF s, t
  <2>2. s \o <<>> = s
    BY <1>7, ConcatEmptySeq
  <2> QED BY <1>4, <1>5, <1>8, <1>10, <2>1, <2>2 DEF s
<1>11. CASE updated # <<>>
  <2>1. OpenTags(Append(Front(stack), DiffSet(operation, updated)))
          = OpenTags(Front(stack)) \o TagsIn(DiffSet(operation, updated))
    BY <1>2, <1>9, DiffSetType, OpenTagsAppend
  <2> QED BY <1>4, <1>5, <1>6, <1>8, <1>11, <2>1
<1> QED BY <1>10, <1>11

(***************************************************************************)
(* What one more node does to what is open in the document, and to the     *)
(* operations that a reader is in.                                         *)
(***************************************************************************)
Pending(s) == IF s.delay_ws_end THEN <<"diff:ws">> ELSE <<>>

LEMMA WsNodes ==
  /\ WsStart \in Written /\ WsStart.type = "START" /\ WsStart.name = "diff:ws"
  /\ WsEnd \in Written /\ WsEnd.type = "END" /\ WsEnd.name = "diff:ws"
  /\ "diff:ws" \in AllTags
BY DEF WsStart, WsEnd, StartNode, EndNode, Node, Written, AllTags

\* The end of a whitespace element that is held back, when it is written.
Released(s) == s.unit \o (IF s.delay_ws_end THEN <<WsEnd>> ELSE <<>>)

LEMMA WriteIs ==
  ASSUME NEW s, Fields \subseteq DOMAIN s, s.unit \in Seq(Written), s.delay_ws_end \in BOOLEAN,
         NEW node \in Written
  PROVE  /\ Released(s) \in Seq(Written)
         /\ Released(s) = IF s.delay_ws_end THEN Append(s.unit, WsEnd) ELSE s.unit
         /\ Write(s, node).unit \in Seq(Written)
         /\ Write(s, node).delay_ws_end \in BOOLEAN
         /\ \/ /\ s.delay_ws_end /\ node = WsStart
               /\ Write(s, node).unit = s.unit /\ Write(s, node).delay_ws_end = FALSE
            \/ /\ node = WsEnd
               /\ Write(s, node).unit = Released(s) /\ Write(s, node).delay_ws_end = TRUE
            \/ /\ node # WsEnd
               /\ Write(s, node).unit = Append(Released(s), node) /\ Write(s, node).delay_ws_end = FALSE
<1>1. \A u \in Seq(Written) : \A x \in Written : u \o <<x>> = Append(u, x) /\ u \o <<>> = u
  <2> SUFFICES ASSUME NEW u \in Seq(Written), NEW x \in Written
               PROVE  u \o <<x>> = Append(u, x) /\ u \o <<>> = u
    OBVIOUS
  <2>1. u \o <<>> = u
    BY ConcatEmptySeq
  <2>2. <<>> \in Seq(Written) /\ Append(<<>>, x) = <<x>>
    BY EmptySeq
  <2>3. u \o Append(<<>>, x) = Append(u \o <<>>, x)
    BY <2>2, AppendConcat
  <2> QED BY <2>1, <2>2, <2>3
<1>2. Released(s) = IF s.delay_ws_end THEN Append(s.unit, WsEnd) ELSE s.unit
  BY <1>1, WsNodes DEF Released
<1>3. Released(s) \in Seq(Written)
  BY <1>2, WsNodes, AppendRow
<1>4. CASE s.delay_ws_end /\ node = WsStart
  <2>1. Write(s, node) = [s EXCEPT !.delay_ws_end = FALSE]
    BY <1>4 DEF Write
  <2>2. Write(s, node).unit = s.unit /\ Write(s, node).delay_ws_end = FALSE
    BY <2>1 DEF Fields
  <2> QED BY <1>2, <1>3, <1>4, <2>2
<1>5. CASE ~ (s.delay_ws_end /\ node = WsStart)
  <2> DEFINE unit == s.unit \o (IF s.delay_ws_end THEN <<WsEnd>> ELSE <<>>)
                            \o (IF node = WsEnd THEN <<>> ELSE <<node>>)
             wsend == node = WsEnd
  <2>1. Write(s, node) = [s EXCEPT !.unit = unit, !.delay_ws_end = wsend]
    BY <1>5 DEF Write
  <2>2. unit = IF node = WsEnd THEN Released(s) ELSE Append(Released(s), node)
    <3>1. unit = Released(s) \o (IF node = WsEnd THEN <<>> ELSE <<node>>)
      BY DEF Released
    <3> HIDE DEF unit
    <3> QED BY <1>1, <1>3, <3>1
  <2> HIDE DEF unit
  <2>3. Write(s, node).unit = unit /\ Write(s, node).delay_ws_end = wsend
    BY <2>1 DEF Fields
  <2>4. CASE node = WsEnd
    BY <1>2, <1>3, <2>2, <2>3, <2>4
  <2>5. CASE node # WsEnd
    <3>1. Append(Released(s), node) \in Seq(Written)
      BY <1>3, AppendRow
    <3> QED BY <1>2, <1>3, <2>2, <2>3, <2>5, <3>1
  <2> QED BY <2>4, <2>5
<1> QED BY <1>4, <1>5

LEMMA WriteOpens ==
  ASSUME NEW s, Fields \subseteq DOMAIN s, s.unit \in Seq(Written), s.delay_ws_end \in BOOLEAN,
         NEW open \in Seq(AllTags), OpenElements(s.unit) = open \o Pending(s),
         NEW node \in Written, node.type = "END" => open # <<>> /\ Last(open) = node.name
  PROVE  OpenElements(Write(s, node).unit) = OpenBehind(open, node) \o Pending(Write(s, node))
<1>1. /\ open \o <<>> = open
      /\ open \o <<"diff:ws">> = Append(open, "diff:ws")
      /\ Append(open, "diff:ws") \o <<>> = Append(open, "diff:ws")
  <2>1. \A u \in Seq(AllTags) : u \o <<>> = u
    BY ConcatEmptySeq
  <2>2. <<>> \in Seq(AllTags) /\ Append(<<>>, "diff:ws") = <<"diff:ws">>
    BY EmptySeq
  <2>3. open \o Append(<<>>, "diff:ws") = Append(open \o <<>>, "diff:ws")
    BY <2>2, WsNodes, AppendConcat
  <2>4. Append(open, "diff:ws") \in Seq(AllTags)
    BY WsNodes, AppendRow
  <2> QED BY <2>1, <2>2, <2>3, <2>4
<1>2. OpenElements(Released(s)) = open
  <2>1. CASE s.delay_ws_end
    <3>1. Released(s) = Append(s.unit, WsEnd)
      BY <2>1, WriteIs
    <3>2. OpenElements(Append(s.unit, WsEnd)) = OpenBehind(OpenElements(s.unit), WsEnd)
      BY WsNodes, OpenElementsStep
    <3>3. OpenBehind(OpenElements(s.unit), WsEnd) = Front(Append(open, "diff:ws"))
      BY <2>1, <1>1, WsNodes DEF OpenBehind, Pending
    <3>4. Front(Append(open, "diff:ws")) = open
      BY WsNodes, FrontOfAppend
    <3> QED BY <3>1, <3>2, <3>3, <3>4
  <2>2. CASE ~ s.delay_ws_end
    <3>1. Released(s) = s.unit
      BY <2>2, WriteIs
    <3> QED BY <2>2, <3>1, <1>1 DEF Pending
  <2> QED BY <2>1, <2>2
<1>3. CASE /\ s.delay_ws_end /\ node = WsStart
           /\ Write(s, node).unit = s.unit /\ Write(s, node).delay_ws_end = FALSE
  <2>1. OpenBehind(open, node) = Append(open, "diff:ws")
    BY <1>3, WsNodes DEF OpenBehind
  <2> QED BY <1>1, <1>3, <2>1 DEF Pending
<1>4. CASE /\ node = WsEnd
           /\ Write(s, node).unit = Released(s) /\ Write(s, node).delay_ws_end = TRUE
  <2>1. open # <<>> /\ Last(open) = "diff:ws" /\ OpenBehind(open, node) = Front(open)
    BY <1>4, WsNodes DEF OpenBehind
  <2>2. open = Append(Front(open), "diff:ws") /\ Front(open) \in Seq(AllTags)
    BY <2>1, FrontAndLast, FrontLast
  <2>3. Front(open) \o <<"diff:ws">> = Append(Front(open), "diff:ws")
    <3> DEFINE f == Front(open)
    <3>1. <<>> \in Seq(AllTags) /\ Append(<<>>, "diff:ws") = <<"diff:ws">> /\ f \in Seq(AllTags)
      BY <2>2, EmptySeq
    <3> HIDE DEF f
    <3>2. f \o Append(<<>>, "diff:ws") = Append(f \o <<>>, "diff:ws")
      BY <3>1, WsNodes, AppendConcat
    <3>3. f \o <<>> = f
      BY <3>1, ConcatEmptySeq
    <3>4. f \o <<"diff:ws">> = Append(f, "diff:ws")
      BY <3>1, <3>2, <3>3
    <3> QED BY <3>4 DEF f
  <2> QED BY <1>2, <1>4, <2>1, <2>2, <2>3 DEF Pending
<1>5. CASE /\ node # WsEnd
           /\ Write(s, node).unit = Append(Released(s), node) /\ Write(s, node).delay_ws_end = FALSE
  <2>1. OpenElements(Append(Released(s), node)) = OpenBehind(OpenElements(Released(s)), node)
    BY WriteIs, OpenElementsStep
  <2>2. OpenBehind(open, node) \o <<>> = OpenBehind(open, node)
    BY OpenBehindType, ConcatEmptySeq
  <2> QED BY <1>2, <1>5, <2>1, <2>2 DEF Pending
<1>6. \/ /\ s.delay_ws_end /\ node = WsStart
         /\ Write(s, node).unit = s.unit /\ Write(s, node).delay_ws_end = FALSE
      \/ /\ node = WsEnd
         /\ Write(s, node).unit = Released(s) /\ Write(s, node).delay_ws_end = TRUE
      \/ /\ node # WsEnd
         /\ Write(s, node).unit = Append(Released(s), node) /\ Write(s, node).delay_ws_end = FALSE
  BY WriteIs
<1> QED BY <1>3, <1>4, <1>5, <1>6

ModeBehind(mode, node) ==
  IF node.type = "TEXT" \/ OperationOf(node.name) = "NONE" THEN mode
  ELSE IF node.type = "START" THEN Append(mode, OperationOf(node.name))
  ELSE Front(mode)

LEMMA WsIsNoOperation == OperationOf("diff:ws") = "NONE"
BY DEF OperationOf, DiffName, DiffOperations

LEMMA ReadNodeMode ==
  ASSUME NEW r \in Readers, NEW node \in Written
  PROVE  ReadNode(r, node).op_mode = ModeBehind(r.op_mode, node)
<1>1. \A more : [r EXCEPT !.read = more].op_mode = r.op_mode
  BY DEF Readers
<1>2. \A mode : [r EXCEPT !.op_mode = mode].op_mode = mode
  BY DEF Readers
<1> QED BY <1>1, <1>2, WrittenNodes, WsIsNoOperation
  DEF ReadNode, StartElement, EndElement, CharactersUnit, IsDiff, ModeBehind

LEMMA WriteReads ==
  ASSUME NEW s, Fields \subseteq DOMAIN s, s.unit \in Seq(Written), s.delay_ws_end \in BOOLEAN,
         NEW node \in Written, NEW side \in Sides
  PROVE  /\ Reading(side, s.unit) \in Readers
         /\ Reading(side, Write(s, node).unit).op_mode = ModeBehind(Reading(side, s.unit).op_mode, node)
<1> DEFINE reader == ReaderOf(side)
<1>1. reader \in Readers
  <2>1. <<"COMMON">> \in Seq(DiffOperations) /\ <<>> \in Seq(Written)
    BY EmptySeq DEF DiffOperations
  <2> QED BY <2>1 DEF ReaderOf, Readers
<1> HIDE DEF reader
<1>2. ASSUME NEW u \in Seq(Written), NEW x \in Written
      PROVE  /\ ReadOn(reader, u) \in Readers
             /\ ReadOn(reader, Append(u, x)).op_mode = ModeBehind(ReadOn(reader, u).op_mode, x)
  <2>1. /\ ReadOn(reader, u) \in Readers
        /\ ReadOn(reader, Append(u, x)) = ReadNode(ReadOn(reader, u), x)
    BY <1>1, ReadOnStep
  <2> QED BY <2>1, ReadNodeMode
<1>3. \A mode : ModeBehind(mode, WsEnd) = mode /\ ModeBehind(mode, WsStart) = mode
  BY WsNodes, WsIsNoOperation DEF ModeBehind
<1>4. Released(s) \in Seq(Written) /\ ReadOn(reader, Released(s)).op_mode = ReadOn(reader, s.unit).op_mode
  <2>1. ReadOn(reader, Append(s.unit, WsEnd)).op_mode = ReadOn(reader, s.unit).op_mode
    BY <1>2, <1>3, WsNodes
  <2> QED BY <2>1, WriteIs
<1>5. ReadOn(reader, Append(Released(s), node)).op_mode = ModeBehind(ReadOn(reader, s.unit).op_mode, node)
  <2> DEFINE u == Released(s)
  <2>1. u \in Seq(Written)
    BY <1>4
  <2> HIDE DEF u
  <2>2. ReadOn(reader, Append(u, node)).op_mode = ModeBehind(ReadOn(reader, u).op_mode, node)
    BY <2>1, <1>2
  <2> QED BY <2>2, <1>4 DEF u
<1>6. ReadOn(reader, Write(s, node).unit).op_mode = ModeBehind(ReadOn(reader, s.unit).op_mode, node)
  <2>1. CASE /\ s.delay_ws_end /\ node = WsStart
             /\ Write(s, node).unit = s.unit /\ Write(s, node).delay_ws_end = FALSE
    BY <2>1, <1>3
  <2>2. CASE /\ node = WsEnd
             /\ Write(s, node).unit = Released(s) /\ Write(s, node).delay_ws_end = TRUE
    BY <2>2, <1>3, <1>4
  <2>3. CASE /\ node # WsEnd
             /\ Write(s, node).unit = Append(Released(s), node) /\ Write(s, node).delay_ws_end = FALSE
    BY <2>3, <1>5
  <2>4. \/ /\ s.delay_ws_end /\ node = WsStart
           /\ Write(s, node).unit = s.unit /\ Write(s, node).delay_ws_end = FALSE
        \/ /\ node = WsEnd
           /\ Write(s, node).unit = Released(s) /\ Write(s, node).delay_ws_end = TRUE
        \/ /\ node # WsEnd
           /\ Write(s, node).unit = Append(Released(s), node) /\ Write(s, node).delay_ws_end = FALSE
    BY WriteIs
  <2> QED BY <2>1, <2>2, <2>3, <2>4
<1>7. ReadOn(reader, s.unit) \in Readers
  BY <1>1, ReadOnStep
<1> QED BY <1>6, <1>7 DEF Reading, reader

\* What is common to all is of each version.
LEMMA OfVersionFirst ==
  ASSUME NEW tags \in Seq(Tags), tags # <<>>, tags[1].operation = "COMMON", NEW side \in Sides
  PROVE  OfVersion(tags, side) # <<>>
<1> DEFINE N == Len(tags)
<1>1. N \in Nat \ {0} /\ \A n \in 1 .. N : tags[n] \in Tags
  BY EmptySeq, LenProperties, ElementOfSeq
<1>2. PICK f \in [0 .. N -> Seq(Tags)] :
        /\ f[0] = <<>>
        /\ \A n \in 1 .. N : f[n] = Picked(f[n - 1], tags[n], side)
        /\ OfVersion(tags, side) = f[N]
  BY OfVersionIs
<1> HIDE DEF N
<1> DEFINE Bad == {n \in Nat : 1 <= n /\ n <= N /\ f[n] = <<>>}
<1>3. SUFFICES ASSUME Bad # {} PROVE FALSE
  <2>1. N \notin Bad => f[N] # <<>>
    BY <1>1
  <2> QED BY <2>1, <1>2
<1>4. PICK n \in Bad : \A k \in Bad : n <= k
  <2>1. Bad \subseteq Nat
    OBVIOUS
  <2> HIDE DEF Bad
  <2> QED BY <1>3, <2>1, LeastElement
<1>5. n \in Nat /\ 1 <= n /\ n <= N /\ f[n] = <<>> /\ n - 1 \notin Bad
  BY <1>4
<1>6. n \in 1 .. N /\ n - 1 \in 0 .. N
  BY <1>1, <1>5
<1>7. f[n] = Picked(f[n - 1], tags[n], side) /\ f[n - 1] \in Seq(Tags) /\ tags[n] \in Tags
  BY <1>1, <1>2, <1>6
<1>8. Append(f[n - 1], tags[n]) # <<>>
  <2> DEFINE held == f[n - 1]
             tag == tags[n]
  <2>1. held \in Seq(Tags) /\ tag \in Tags
    BY <1>7
  <2> HIDE DEF held, tag
  <2>2. Append(held, tag) # <<>>
    BY <2>1, AppendRow
  <2> QED BY <2>2 DEF held, tag
<1>9. f[n - 1] = <<>> /\ tags[n].operation # "COMMON"
  BY <1>5, <1>7, <1>8 DEF Picked
<1>10. n # 1
  BY <1>9
<1>11. n - 1 \in Nat /\ 1 <= n - 1 /\ n - 1 <= N
  BY <1>1, <1>5, <1>10
<1> QED BY <1>5, <1>9, <1>11

LEMMA NamesType ==
  ASSUME NEW tags \in Seq(Tags)
  PROVE  /\ Names(tags) \in Seq(AllTags) /\ Len(Names(tags)) = Len(tags)
         /\ \A n \in 1 .. Len(tags) : Names(tags)[n] = tags[n].name
<1> DEFINE l == Len(tags)
<1>1. l \in Nat /\ DOMAIN tags = 1 .. l /\ \A n \in 1 .. l : tags[n].name \in AllTags
  <2>1. l \in Nat /\ DOMAIN tags = 1 .. l /\ \A n \in 1 .. l : tags[n] \in Tags
    BY LenProperties, ElementOfSeq
  <2> QED BY <2>1 DEF Tags
<1>2. Names(tags) = [n \in 1 .. l |-> tags[n].name]
  BY <1>1 DEF Names
<1> HIDE DEF l
<1> QED BY <1>1, <1>2 DEF l

LEMMA NamesAppend ==
  ASSUME NEW tags \in Seq(Tags), NEW tag \in Tags
  PROVE  Names(Append(tags, tag)) = Append(Names(tags), tag.name)
<1> DEFINE more == Append(tags, tag)
           names == Names(tags)
           r == Append(names, tag.name)
           l == Len(tags)
<1>1. /\ more \in Seq(Tags) /\ l \in Nat /\ Len(more) = l + 1
      /\ (\A n \in 1 .. l : more[n] = tags[n]) /\ more[l + 1] = tag
  BY AppendRow
<1> HIDE DEF more
<1>2. /\ names \in Seq(AllTags) /\ Len(names) = l
      /\ \A n \in 1 .. l : names[n] = tags[n].name
  BY NamesType
<1> HIDE DEF names
<1>3. tag.name \in AllTags
  BY DEF Tags
<1>4. /\ r \in Seq(AllTags) /\ Len(r) = l + 1
      /\ (\A n \in 1 .. l : r[n] = names[n]) /\ r[l + 1] = tag.name
  BY <1>2, <1>3, AppendRow
<1> HIDE DEF r
<1>5. /\ Names(more) \in Seq(AllTags) /\ Len(Names(more)) = l + 1
      /\ \A n \in 1 .. l + 1 : Names(more)[n] = more[n].name
  BY <1>1, NamesType
<1>6. ASSUME NEW n \in 1 .. l + 1 PROVE Names(more)[n] = r[n]
  <2>1. n \in 1 .. l \/ n = l + 1
    BY <1>1
  <2> QED BY <2>1, <1>1, <1>2, <1>4, <1>5
<1>7. Names(more) = r
  BY <1>4, <1>5, <1>6, RowsEqual
<1> QED BY <1>7 DEF r, names, more

LEMMA NamesFront ==
  ASSUME NEW tags \in Seq(Tags), tags # <<>>
  PROVE  /\ Names(tags) # <<>>
         /\ Names(Front(tags)) = Front(Names(tags))
         /\ Last(Names(tags)) = Last(tags).name
<1> DEFINE a == Front(tags)
           x == Last(tags)
<1>1. a \in Seq(Tags) /\ x \in Tags /\ tags = Append(a, x)
  BY FrontLast, FrontAndLast
<1> HIDE DEF a, x
<1>2. Names(tags) = Append(Names(a), x.name)
  BY <1>1, NamesAppend
<1>3. Names(a) \in Seq(AllTags) /\ x.name \in AllTags
  BY <1>1, NamesType DEF Tags
<1>4. Front(Append(Names(a), x.name)) = Names(a) /\ Last(Append(Names(a), x.name)) = x.name
        /\ Append(Names(a), x.name) # <<>>
  BY <1>3, FrontOfAppend, AppendRow
<1> QED BY <1>2, <1>4 DEF a, x

(***************************************************************************)
(* The stacks mirror what is written.  The operations that a reader was in *)
(* behind each tag that is open: the last of them is the tag's own.        *)
(***************************************************************************)
Opened(s, stream) == OpenTags(s.open_diff[stream])

UnitIsFirst(s) == Opened(s, "OUTPUT")[1] = Tag("COMMON", "unit")

MirrorsDocument(s) == OpenElements(s.unit) = Names(Opened(s, "OUTPUT")) \o Pending(s)

\* The same behind the first tag, which is there.
Alike(held, meant) ==
  /\ held # <<>> /\ meant # <<>>
  /\ Len(held) = Len(meant)
  /\ \A n \in 2 .. Len(held) : held[n] = meant[n]

MirrorsInput(s, side) == Alike(Opened(s, side), OfVersion(Opened(s, "OUTPUT"), side))

ModesOf(tags, modes) ==
  /\ modes \in Seq(Seq(DiffOperations))
  /\ Len(modes) = Len(tags)
  /\ \A n \in 1 .. Len(tags) : modes[n] # <<>> /\ Last(modes[n]) = tags[n].operation
  /\ \A n \in 2 .. Len(tags) : modes[n] = ModeBehind(modes[n - 1], StartNode(tags[n].name))

MirrorsReader(s, side) ==
  \E modes : ModesOf(Opened(s, "OUTPUT"), modes) /\ Reading(side, s.unit).op_mode = Last(modes)

Mirrors(s) ==
  /\ s.unit \in Seq(Written) /\ s.delay_ws_end \in BOOLEAN
  /\ UnitIsFirst(s)
  /\ MirrorsDocument(s)
  /\ \A side \in Sides : MirrorsInput(s, side) /\ MirrorsReader(s, side)

LEMMA OpenedType ==
  ASSUME NEW s, Stacks(s), NEW stream \in Streams
  PROVE  /\ Opened(s, stream) \in Seq(Tags) /\ Opened(s, stream) # <<>>
         /\ Last(Opened(s, stream)).operation = Last(s.open_diff[stream]).operation
         /\ Last(Opened(s, stream)) \in Tags
<1>1. Sound(s.open_diff[stream])
  BY DEF Stacks
<1>2. Opened(s, stream) \in Seq(Tags)
  BY <1>1, OpenTagsLast DEF Opened, Sound
<1>3. /\ Opened(s, stream) # <<>>
      /\ Last(Opened(s, stream)) = Tag(Last(s.open_diff[stream]).operation, Last(Last(s.open_diff[stream]).open_tags))
  BY <1>1, InnermostOpenTag DEF Opened
<1>4. Last(Opened(s, stream)) \in Tags
  BY <1>2, <1>3, FrontLast
<1> QED BY <1>2, <1>3, <1>4 DEF Tag

LEMMA InnermostIsLast ==
  ASSUME NEW s, Stacks(s)
  PROVE  Last(Opened(s, "OUTPUT")) = Tag(OutputState(s), InnermostTag(s))
<1>1. Sound(s.open_diff["OUTPUT"])
  BY DEF Stacks, Streams
<1> QED BY <1>1, InnermostOpenTag DEF Opened, OutputState, InnermostTag, OpenDiff

\* A node is written, and the stacks are told.
Show(s, node, operation) == UpdateDiffStacks(Write(s, node), node, operation)

LEMMA ShowIs ==
  ASSUME NEW s, Stacks(s), s.unit \in Seq(Written), s.delay_ws_end \in BOOLEAN,
         NEW operation \in DiffOperations, NEW node \in Written
  PROVE  /\ Show(s, node, operation).unit = Write(s, node).unit
         /\ Show(s, node, operation).delay_ws_end = Write(s, node).delay_ws_end
         /\ Write(s, node).unit \in Seq(Written) /\ Write(s, node).delay_ws_end \in BOOLEAN
         /\ \A stream \in Streams :
              Show(s, node, operation).open_diff[stream]
                = IF stream = "OUTPUT" \/ operation \in {"COMMON", stream}
                  THEN UpdateDiffStack(s.open_diff[stream], node, operation) ELSE s.open_diff[stream]
<1> DEFINE w == Write(s, node)
           stacks == [stream \in Streams |->
                        IF stream = "OUTPUT" \/ operation \in {"COMMON", stream}
                        THEN UpdateDiffStack(w.open_diff[stream], node, operation) ELSE w.open_diff[stream]]
<1>1. Stacks(w) /\ w.open_diff = s.open_diff
  BY WriteKeeps
<1>2. w.unit \in Seq(Written) /\ w.delay_ws_end \in BOOLEAN
  BY WriteIs DEF Stacks
<1> HIDE DEF w
<1>3. Show(s, node, operation) = [w EXCEPT !.open_diff = stacks]
  BY DEF Show, UpdateDiffStacks, w
<1> HIDE DEF stacks
<1>4. /\ Show(s, node, operation).unit = w.unit
      /\ Show(s, node, operation).delay_ws_end = w.delay_ws_end
      /\ Show(s, node, operation).open_diff = stacks
  BY <1>1, <1>3 DEF Stacks, Fields
<1>5. \A stream \in Streams :
         stacks[stream] = IF stream = "OUTPUT" \/ operation \in {"COMMON", stream}
                          THEN UpdateDiffStack(s.open_diff[stream], node, operation) ELSE s.open_diff[stream]
  BY <1>1 DEF stacks
<1> QED BY <1>2, <1>4, <1>5 DEF w

LEMMA AlikeAppend ==
  ASSUME NEW held \in Seq(Tags), NEW meant \in Seq(Tags), Alike(held, meant), NEW tag \in Tags
  PROVE  Alike(Append(held, tag), Append(meant, tag))
<1> DEFINE h == Append(held, tag)
           m == Append(meant, tag)
           l == Len(held)
<1>1. /\ l \in Nat /\ Len(h) = l + 1 /\ h # <<>>
      /\ (\A n \in 1 .. l : h[n] = held[n]) /\ h[l + 1] = tag
  BY AppendRow
<1>2. /\ l = Len(meant) /\ \A n \in 2 .. l : held[n] = meant[n]
  BY DEF Alike
<1>3. /\ Len(m) = l + 1 /\ m # <<>>
      /\ (\A n \in 1 .. l : m[n] = meant[n]) /\ m[l + 1] = tag
  BY <1>2, AppendRow
<1> HIDE DEF h, m, l
<1>4. ASSUME NEW n \in 2 .. l + 1 PROVE h[n] = m[n]
  <2>1. (n \in 2 .. l /\ n \in 1 .. l) \/ n = l + 1
    BY <1>1
  <2> QED BY <2>1, <1>1, <1>2, <1>3
<1>5. Alike(h, m)
  BY <1>1, <1>3, <1>4 DEF Alike
<1> QED BY <1>5 DEF h, m

LEMMA AlikeFront ==
  ASSUME NEW held \in Seq(Tags), NEW meant \in Seq(Tags), NEW tag \in Tags, meant # <<>>,
         Alike(held, Append(meant, tag))
  PROVE  Len(held) # 1 /\ Last(held) = tag /\ Alike(Front(held), meant)
<1> DEFINE m == Append(meant, tag)
           l == Len(meant)
           f == Front(held)
<1>1. /\ l \in Nat /\ Len(m) = l + 1
      /\ (\A n \in 1 .. l : m[n] = meant[n]) /\ m[l + 1] = tag
  BY AppendRow
<1>2. l # 0
  BY EmptySeq
<1> HIDE DEF m
<1>3. held # <<>> /\ Len(held) = l + 1 /\ \A n \in 2 .. l + 1 : held[n] = m[n]
  BY <1>1 DEF Alike, m
<1>4. /\ Last(held) = held[Len(held)] /\ f \in Seq(Tags) /\ Len(f) = Len(held) - 1
      /\ \A n \in 1 .. Len(held) - 1 : f[n] = held[n]
  BY <1>3, FrontLast
<1> HIDE DEF f, l
<1>5. l + 1 \in 2 .. l + 1 /\ l + 1 # 1 /\ Len(f) = l /\ Len(held) - 1 = l
  BY <1>1, <1>2, <1>3, <1>4
<1>6. Last(held) = tag
  BY <1>1, <1>3, <1>4, <1>5
<1>7. ASSUME NEW n \in 2 .. l PROVE f[n] = meant[n]
  <2>1. n \in 1 .. l /\ n \in 2 .. l + 1
    BY <1>1
  <2> QED BY <2>1, <1>1, <1>3, <1>4, <1>5
<1>8. f # <<>>
  BY <1>2, <1>5, EmptySeq
<1>9. Alike(f, meant)
  BY <1>5, <1>7, <1>8 DEF Alike, l
<1> QED BY <1>3, <1>5, <1>6, <1>9 DEF f

\* The tags of a version when the innermost tag of all is taken off.
LEMMA OfVersionFront ==
  ASSUME NEW tags \in Seq(Tags), Len(tags) >= 2, tags[1].operation = "COMMON", NEW side \in Sides
  PROVE  /\ Front(tags) \in Seq(Tags) /\ Last(tags) \in Tags
         /\ OfVersion(Front(tags), side) \in Seq(Tags)
         /\ OfVersion(Front(tags), side) # <<>>
         /\ OfVersion(tags, side) = Picked(OfVersion(Front(tags), side), Last(tags), side)
<1>1. tags # <<>>
  BY EmptySeq
<1> DEFINE a == Front(tags)
           x == Last(tags)
<1>2. /\ a \in Seq(Tags) /\ x \in Tags /\ tags = Append(a, x)
      /\ Len(tags) \in Nat /\ Len(a) = Len(tags) - 1
      /\ \A n \in 1 .. Len(tags) - 1 : a[n] = tags[n]
  BY <1>1, FrontLast, FrontAndLast
<1> HIDE DEF a, x
<1>3. OfVersion(a, side) \in Seq(Tags) /\ OfVersion(tags, side) = Picked(OfVersion(a, side), x, side)
  BY <1>2, OfVersionStep
<1>4. a[1] = tags[1] /\ Len(a) # 0
  BY <1>2
<1>5. a # <<>>
  BY <1>4, EmptySeq
<1>6. OfVersion(a, side) # <<>>
  BY <1>2, <1>4, <1>5, OfVersionFirst
<1> QED BY <1>2, <1>3, <1>6 DEF a, x

(***************************************************************************)
(* The operations of a reader.                                             *)
(***************************************************************************)
LEMMA ModesAppend ==
  ASSUME NEW tags \in Seq(Tags), tags # <<>>, NEW modes, ModesOf(tags, modes), NEW tag \in Tags,
         NEW mode \in Seq(DiffOperations), mode # <<>>, Last(mode) = tag.operation,
         mode = ModeBehind(Last(modes), StartNode(tag.name))
  PROVE  ModesOf(Append(tags, tag), Append(modes, mode)) /\ Last(Append(modes, mode)) = mode
<1> DEFINE t == Append(tags, tag)
           m == Append(modes, mode)
           l == Len(tags)
           S == Seq(DiffOperations)
<1>1. /\ l \in Nat /\ Len(t) = l + 1
      /\ (\A n \in 1 .. l : t[n] = tags[n]) /\ t[l + 1] = tag
  BY AppendRow
<1>2. modes \in Seq(S) /\ Len(modes) = l
  BY DEF ModesOf
<1>3. l # 0
  BY EmptySeq
<1>4. mode \in S
  OBVIOUS
<1>5. /\ m \in Seq(S) /\ Len(m) = l + 1 /\ m # <<>>
      /\ (\A n \in 1 .. l : m[n] = modes[n]) /\ m[l + 1] = mode
  <2> HIDE DEF S
  <2> QED BY <1>2, <1>4, AppendRow
<1>6. Last(m) = mode
  <2> HIDE DEF S
  <2> QED BY <1>2, <1>4, FrontOfAppend
<1>7. Last(modes) = modes[l]
  <2>1. modes # <<>>
    BY <1>2, <1>3, EmptySeq
  <2> HIDE DEF S
  <2> QED BY <1>2, <2>1, FrontLast
<1>8. /\ \A n \in 1 .. l : modes[n] # <<>> /\ Last(modes[n]) = tags[n].operation
      /\ \A n \in 2 .. l : modes[n] = ModeBehind(modes[n - 1], StartNode(tags[n].name))
  BY DEF ModesOf
<1> HIDE DEF t, m, l, S
<1>9. ASSUME NEW n \in 1 .. l + 1 PROVE m[n] # <<>> /\ Last(m[n]) = t[n].operation
  <2>1. n \in 1 .. l \/ n = l + 1
    BY <1>1
  <2> QED BY <2>1, <1>1, <1>5, <1>8
<1>10. ASSUME NEW n \in 2 .. l + 1 PROVE m[n] = ModeBehind(m[n - 1], StartNode(t[n].name))
  <2>1. CASE n = l + 1
    <3>1. n - 1 = l /\ l \in 1 .. l
      BY <2>1, <1>1, <1>3
    <3>2. m[n] = mode /\ m[n - 1] = Last(modes) /\ t[n] = tag
      BY <2>1, <3>1, <1>1, <1>5, <1>7
    <3> QED BY <3>2
  <2>2. CASE n # l + 1
    <3>1. n \in 2 .. l /\ n \in 1 .. l /\ n - 1 \in 1 .. l
      BY <2>2, <1>1
    <3>2. m[n] = modes[n] /\ m[n - 1] = modes[n - 1] /\ t[n] = tags[n]
      BY <3>1, <1>1, <1>5
    <3> QED BY <3>1, <3>2, <1>8
  <2> QED BY <2>1, <2>2
<1>11. ModesOf(t, m)
  BY <1>1, <1>5, <1>9, <1>10 DEF ModesOf, S
<1> QED BY <1>6, <1>11 DEF t, m

LEMMA ModesFront ==
  ASSUME NEW tags \in Seq(Tags), Len(tags) >= 2, NEW modes, ModesOf(tags, modes)
  PROVE  /\ ModesOf(Front(tags), Front(modes))
         /\ Last(Front(modes)) \in Seq(DiffOperations)
         /\ Last(modes) = ModeBehind(Last(Front(modes)), StartNode(Last(tags).name))
<1> DEFINE t == Front(tags)
           m == Front(modes)
           l == Len(tags)
           S == Seq(DiffOperations)
<1>1. l \in Nat /\ tags # <<>> /\ modes \in Seq(S) /\ Len(modes) = l /\ modes # <<>>
  <2>1. modes \in Seq(S) /\ Len(modes) = l /\ l \in Nat /\ l # 0
    BY DEF ModesOf
  <2>2. tags # <<>> /\ modes # <<>>
    BY <2>1, EmptySeq
  <2> QED BY <2>1, <2>2
<1>2. /\ Last(tags) = tags[l] /\ t \in Seq(Tags) /\ Len(t) = l - 1
      /\ \A n \in 1 .. l - 1 : t[n] = tags[n]
  BY <1>1, FrontLast
<1>3. /\ Last(modes) = modes[l] /\ m \in Seq(S) /\ Len(m) = l - 1
      /\ \A n \in 1 .. l - 1 : m[n] = modes[n]
  <2> HIDE DEF S
  <2> QED BY <1>1, FrontLast
<1>4. /\ \A n \in 1 .. l : modes[n] # <<>> /\ Last(modes[n]) = tags[n].operation
      /\ \A n \in 2 .. l : modes[n] = ModeBehind(modes[n - 1], StartNode(tags[n].name))
  BY DEF ModesOf
<1>5. l >= 2
  OBVIOUS
<1> HIDE DEF t, m, l, S
<1>6. /\ l \in 2 .. l /\ l - 1 \in 1 .. l - 1 /\ l - 1 # 0 /\ l - 1 \in Nat
  BY <1>1, <1>5
<1>7. Last(m) = modes[l - 1] /\ Last(m) \in S
  <2>1. m # <<>>
    BY <1>3, <1>6, EmptySeq
  <2>2. Last(m) = m[Len(m)] /\ Last(m) \in S
    BY <1>3, <2>1, FrontLast
  <2> QED BY <2>2, <1>3, <1>6
<1>8. ASSUME NEW n \in 1 .. l - 1 PROVE m[n] # <<>> /\ Last(m[n]) = t[n].operation
  <2>1. n \in 1 .. l
    BY <1>1
  <2> QED BY <2>1, <1>2, <1>3, <1>4
<1>9. ASSUME NEW n \in 2 .. l - 1 PROVE m[n] = ModeBehind(m[n - 1], StartNode(t[n].name))
  <2>1. n \in 1 .. l - 1 /\ n - 1 \in 1 .. l - 1 /\ n \in 2 .. l
    BY <1>1
  <2>2. m[n] = modes[n] /\ m[n - 1] = modes[n - 1] /\ t[n] = tags[n]
    BY <2>1, <1>2, <1>3
  <2> QED BY <2>1, <2>2, <1>4
<1>10. ModesOf(t, m)
  BY <1>2, <1>3, <1>8, <1>9 DEF ModesOf, S
<1>11. modes[l] = ModeBehind(modes[l - 1], StartNode(tags[l].name))
  BY <1>4, <1>6
<1> QED BY <1>2, <1>3, <1>7, <1>10, <1>11 DEF t, m, S

LEMMA NodesOfName ==
  ASSUME NEW name
  PROVE  /\ StartNode(name).type = "START" /\ StartNode(name).name = name
         /\ EndNode(name).type = "END" /\ EndNode(name).name = name
BY DEF StartNode, EndNode, Node

\* The end of an element brings a reader back to where it was.
LEMMA BackToMode ==
  ASSUME NEW mode \in Seq(DiffOperations), NEW name
  PROVE  ModeBehind(ModeBehind(mode, StartNode(name)), EndNode(name)) = mode
<1>1. CASE OperationOf(name) = "NONE"
  BY <1>1, NodesOfName DEF ModeBehind
<1>2. CASE OperationOf(name) # "NONE"
  <2>1. OperationOf(name) \in DiffOperations
    BY <1>2, OperationOfTag
  <2>2. Front(Append(mode, OperationOf(name))) = mode
    BY <2>1, FrontOfAppend
  <2> QED BY <1>2, <2>2, NodesOfName DEF ModeBehind
<1> QED BY <1>1, <1>2

(***************************************************************************)
(* A start, an end and a text that are written and told keep the mirror.   *)
(***************************************************************************)
\* The tag of a diff element is that of one operation, and of no element.
LEMMA OperationOfTags ==
  ASSUME NEW operation \in DiffOperations, NEW name \in TagsOf(operation)
  PROVE  OperationOf(name) \in {"NONE", operation}
<1>1. CASE OperationOf(name) # "NONE"
  <2>1. OperationOf(name) \in DiffOperations /\ name = DiffName[OperationOf(name)]
    BY <1>1, OperationOfTag
  <2>2. name \notin ElementNames \cup {"unit", "diff:ws"}
    BY <2>1, ElementsAssumption DEF DiffName, DiffOperations
  <2>3. name = DiffName[operation]
    BY <2>2 DEF TagsOf
  <2> QED BY <2>1, <2>3 DEF DiffName, DiffOperations
<1> QED BY <1>1

LEMMA StartShows ==
  ASSUME NEW s, Stacks(s), s.unit \in Seq(Written), s.delay_ws_end \in BOOLEAN,
         NEW operation \in DiffOperations, NEW node \in Written, node.type = "START",
         node.name \in TagsOf(operation), NEW stream \in Streams
  PROVE  Opened(Show(s, node, operation), stream)
           = IF stream = "OUTPUT" \/ operation \in {"COMMON", stream}
             THEN Append(Opened(s, stream), Tag(operation, node.name)) ELSE Opened(s, stream)
<1>1. Sound(s.open_diff[stream])
  BY DEF Stacks
<1>2. OpenTags(UpdateDiffStack(s.open_diff[stream], node, operation))
        = Append(OpenTags(s.open_diff[stream]), Tag(operation, node.name))
  BY <1>1, StartTells
<1>3. Show(s, node, operation).open_diff[stream]
        = IF stream = "OUTPUT" \/ operation \in {"COMMON", stream}
          THEN UpdateDiffStack(s.open_diff[stream], node, operation) ELSE s.open_diff[stream]
  BY ShowIs
<1> QED BY <1>2, <1>3 DEF Opened

LEMMA ReaderMoves ==
  ASSUME NEW s, Stacks(s), s.unit \in Seq(Written), s.delay_ws_end \in BOOLEAN,
         NEW operation \in DiffOperations, NEW node \in Written, NEW side \in Sides
  PROVE  /\ Reading(side, s.unit).op_mode \in Seq(DiffOperations)
         /\ Reading(side, Show(s, node, operation).unit).op_mode
              = ModeBehind(Reading(side, s.unit).op_mode, node)
<1>1. Fields \subseteq DOMAIN s
  BY DEF Stacks
<1>2. /\ Reading(side, s.unit) \in Readers
      /\ Reading(side, Write(s, node).unit).op_mode = ModeBehind(Reading(side, s.unit).op_mode, node)
  BY <1>1, WriteReads
<1>3. Reading(side, s.unit).op_mode \in Seq(DiffOperations)
  BY <1>2 DEF Readers
<1>4. Show(s, node, operation).unit = Write(s, node).unit
  BY ShowIs
<1> QED BY <1>2, <1>3, <1>4

LEMMA DocumentMoves ==
  ASSUME NEW s, Stacks(s), s.unit \in Seq(Written), s.delay_ws_end \in BOOLEAN, MirrorsDocument(s),
         NEW operation \in DiffOperations, NEW node \in Written,
         node.type = "END" => Last(Opened(s, "OUTPUT")).name = node.name,
         Names(Opened(Show(s, node, operation), "OUTPUT")) = OpenBehind(Names(Opened(s, "OUTPUT")), node)
  PROVE  MirrorsDocument(Show(s, node, operation))
<1> DEFINE open == Names(Opened(s, "OUTPUT"))
           t == Show(s, node, operation)
<1>1. Fields \subseteq DOMAIN s /\ "OUTPUT" \in Streams
  BY DEF Stacks, Streams
<1>2. Opened(s, "OUTPUT") \in Seq(Tags) /\ Opened(s, "OUTPUT") # <<>>
  BY <1>1, OpenedType
<1>3. open \in Seq(AllTags) /\ open # <<>> /\ Last(open) = Last(Opened(s, "OUTPUT")).name
  BY <1>2, NamesType, NamesFront
<1>4. OpenElements(s.unit) = open \o Pending(s)
  BY DEF MirrorsDocument
<1>5. t.unit = Write(s, node).unit /\ t.delay_ws_end = Write(s, node).delay_ws_end
  BY ShowIs
<1>6. Names(Opened(t, "OUTPUT")) = OpenBehind(open, node)
  OBVIOUS
<1> HIDE DEF t
<1>7. node.type = "END" => open # <<>> /\ Last(open) = node.name
  BY <1>3
<1> HIDE DEF open
<1>8. OpenElements(Write(s, node).unit) = OpenBehind(open, node) \o Pending(Write(s, node))
  BY <1>1, <1>3, <1>4, <1>7, WriteOpens
<1>9. Pending(t) = Pending(Write(s, node))
  BY <1>5 DEF Pending
<1>10. MirrorsDocument(t)
  BY <1>5, <1>6, <1>8, <1>9 DEF MirrorsDocument
<1> QED BY <1>10 DEF t

LEMMA StartMirrors ==
  ASSUME NEW s, Stacks(s), Mirrors(s),
         NEW operation \in DiffOperations, NEW node \in Written, node.type = "START",
         node.name \in TagsOf(operation),
         OperationOf(node.name) = "NONE" => operation = OutputState(s)
  PROVE  Mirrors(Show(s, node, operation))
<1> DEFINE t == Show(s, node, operation)
           tags == Opened(s, "OUTPUT")
           tag == Tag(operation, node.name)
<1>1. s.unit \in Seq(Written) /\ s.delay_ws_end \in BOOLEAN
  BY DEF Mirrors
<1>2. t.unit \in Seq(Written) /\ t.delay_ws_end \in BOOLEAN
  BY <1>1, ShowIs
<1>3. tag \in Tags /\ tag.operation = operation /\ tag.name = node.name
  BY WrittenNodes DEF Tag, Tags
<1>4. "OUTPUT" \in Streams /\ tags \in Seq(Tags) /\ tags # <<>>
  BY OpenedType DEF Streams
<1>5. Opened(t, "OUTPUT") = Append(tags, tag)
  BY <1>1, <1>4, StartShows
<1>6. UnitIsFirst(t)
  <2>1. 1 \in 1 .. Len(tags) /\ \A n \in 1 .. Len(tags) : Append(tags, tag)[n] = tags[n]
    <3>1. Len(tags) # 0 /\ Len(tags) \in Nat
      BY <1>4, EmptySeq
    <3> HIDE DEF tags, tag
    <3> QED BY <3>1, <1>3, <1>4, AppendRow
  <2>2. Append(tags, tag)[1] = tags[1]
    BY <2>1
  <2> QED BY <1>5, <2>2 DEF UnitIsFirst, Mirrors
<1>7. MirrorsDocument(t)
  <2>1. Names(Append(tags, tag)) = Append(Names(tags), tag.name)
    <3> HIDE DEF tags, tag
    <3> QED BY <1>3, <1>4, NamesAppend
  <2>2. OpenBehind(Names(tags), node) = Append(Names(tags), node.name)
    BY DEF OpenBehind
  <2>3. Names(Opened(t, "OUTPUT")) = OpenBehind(Names(tags), node)
    BY <1>3, <1>5, <2>1, <2>2
  <2>4. node.type # "END" /\ MirrorsDocument(s)
    BY DEF Mirrors
  <2> QED BY <1>1, <2>3, <2>4, DocumentMoves
<1>8. ASSUME NEW side \in Sides PROVE MirrorsInput(t, side)
  <2> DEFINE held == Opened(s, side)
             meant == OfVersion(tags, side)
  <2>1. side \in Streams /\ side # "OUTPUT"
    BY DEF Sides, Streams
  <2>2. held \in Seq(Tags)
    BY <2>1, OpenedType
  <2> HIDE DEF tags, tag
  <2>3. meant \in Seq(Tags) /\ OfVersion(Append(tags, tag), side) = Picked(meant, tag, side)
    BY <1>3, <1>4, OfVersionStep
  <2>4. Alike(held, meant)
    BY DEF Mirrors, MirrorsInput, tags
  <2>5. Opened(t, side) = IF operation \in {"COMMON", side} THEN Append(held, tag) ELSE held
    BY <1>1, <2>1, StartShows DEF tag
  <2> HIDE DEF held, meant
  <2>6. Alike(Append(held, tag), Append(meant, tag))
    BY <1>3, <2>2, <2>3, <2>4, AlikeAppend
  <2>7. Picked(meant, tag, side) = IF operation \in {"COMMON", side} THEN Append(meant, tag) ELSE meant
    BY <1>3 DEF Picked
  <2> QED BY <1>5, <2>3, <2>4, <2>5, <2>6, <2>7 DEF MirrorsInput
<1>9. ASSUME NEW side \in Sides PROVE MirrorsReader(t, side)
  <2>1. PICK modes : ModesOf(tags, modes) /\ Reading(side, s.unit).op_mode = Last(modes)
    BY DEF Mirrors, MirrorsReader
  <2> DEFINE was == Reading(side, s.unit).op_mode
             mode == ModeBehind(was, node)
  <2>2. was \in Seq(DiffOperations) /\ Reading(side, t.unit).op_mode = mode
    BY <1>1, ReaderMoves
  <2>3. was # <<>> /\ Last(was) = OutputState(s)
    <3>1. Len(modes) = Len(tags) /\ Len(tags) \in Nat \ {0} /\ modes \in Seq(Seq(DiffOperations))
            /\ Last(tags) = tags[Len(tags)]
      <4>1. Len(tags) \in Nat \ {0} /\ Last(tags) = tags[Len(tags)]
        BY <1>4, FrontLast
      <4> QED BY <4>1, <2>1 DEF ModesOf
    <3>2. modes # <<>>
      BY <3>1, EmptySeq
    <3>3. Last(modes) = modes[Len(modes)]
      BY <3>1, <3>2, FrontLast
    <3>4. Len(tags) \in 1 .. Len(tags)
      BY <3>1
    <3>5. modes[Len(tags)] # <<>> /\ Last(modes[Len(tags)]) = tags[Len(tags)].operation
      BY <2>1, <3>4 DEF ModesOf
    <3>6. Last(tags).operation = OutputState(s)
      BY InnermostIsLast DEF Tag
    <3> QED BY <2>1, <3>1, <3>3, <3>5, <3>6
  <2> HIDE DEF was
  <2>4. mode \in Seq(DiffOperations) /\ mode # <<>> /\ Last(mode) = operation
    <3>1. CASE OperationOf(node.name) = "NONE"
      BY <3>1, <2>2, <2>3 DEF ModeBehind
    <3>2. CASE OperationOf(node.name) # "NONE"
      <4>1. OperationOf(node.name) = operation
        BY <3>2, OperationOfTags
      <4>2. mode = Append(was, operation)
        BY <3>2, <4>1 DEF ModeBehind
      <4> QED BY <4>2, <2>2, AppendRow, FrontOfAppend
    <3> QED BY <3>1, <3>2
  <2>5. mode = ModeBehind(Last(modes), StartNode(tag.name))
    BY <1>3, <2>1, WrittenNodes DEF was
  <2> HIDE DEF mode, tags, tag
  <2>6. ModesOf(Append(tags, tag), Append(modes, mode)) /\ Last(Append(modes, mode)) = mode
    BY <1>3, <1>4, <2>1, <2>4, <2>5, ModesAppend
  <2> QED BY <1>5, <2>2, <2>6 DEF MirrorsReader
<1> HIDE DEF t
<1>10. Mirrors(t)
  BY <1>2, <1>6, <1>7, <1>8, <1>9 DEF Mirrors
<1> QED BY <1>10 DEF t

LEMMA EndShows ==
  ASSUME NEW s, Stacks(s), s.unit \in Seq(Written), s.delay_ws_end \in BOOLEAN,
         NEW operation \in DiffOperations, NEW node \in Written, node.type = "END", NEW stream \in Streams,
         stream = "OUTPUT" \/ operation \in {"COMMON", stream}
           => Last(Opened(s, stream)).operation = operation /\ Len(Opened(s, stream)) # 1
  PROVE  Opened(Show(s, node, operation), stream)
           = IF stream = "OUTPUT" \/ operation \in {"COMMON", stream}
             THEN Front(Opened(s, stream)) ELSE Opened(s, stream)
<1>1. Sound(s.open_diff[stream])
  BY DEF Stacks
<1>2. Show(s, node, operation).open_diff[stream]
        = IF stream = "OUTPUT" \/ operation \in {"COMMON", stream}
          THEN UpdateDiffStack(s.open_diff[stream], node, operation) ELSE s.open_diff[stream]
  BY ShowIs
<1>3. CASE stream = "OUTPUT" \/ operation \in {"COMMON", stream}
  <2>1. Last(s.open_diff[stream]).operation = operation
    BY <1>3, OpenedType
  <2>2. Len(OpenTags(s.open_diff[stream])) # 1
    BY <1>3 DEF Opened
  <2>3. OpenTags(UpdateDiffStack(s.open_diff[stream], node, operation)) = Front(OpenTags(s.open_diff[stream]))
    BY <1>1, <2>1, <2>2, EndTells
  <2> QED BY <1>2, <1>3, <2>3 DEF Opened
<1>4. CASE ~ (stream = "OUTPUT" \/ operation \in {"COMMON", stream})
  BY <1>2, <1>4 DEF Opened
<1> QED BY <1>3, <1>4

LEMMA EndMirrors ==
  ASSUME NEW s, Stacks(s), Mirrors(s), NEW node \in Written, node.type = "END",
         node.name = InnermostTag(s), node.name # "unit"
  PROVE  Mirrors(Show(s, node, OutputState(s)))
<1> DEFINE operation == OutputState(s)
           t == Show(s, node, operation)
           tags == Opened(s, "OUTPUT")
           front == Front(tags)
           tag == Last(tags)
<1>1. s.unit \in Seq(Written) /\ s.delay_ws_end \in BOOLEAN
  BY DEF Mirrors
<1>2. operation \in DiffOperations
  BY InnermostTagType
<1>3. t.unit \in Seq(Written) /\ t.delay_ws_end \in BOOLEAN
  BY <1>1, <1>2, ShowIs
<1>4. "OUTPUT" \in Streams /\ tags \in Seq(Tags) /\ tags # <<>>
  BY OpenedType DEF Streams
<1>5. tag = Tag(operation, node.name) /\ tag.operation = operation /\ tag.name = node.name
  BY InnermostIsLast DEF Tag
<1>6. /\ Len(tags) \in Nat /\ Len(tags) >= 2 /\ tags[1] = Tag("COMMON", "unit") /\ tags[1].operation = "COMMON"
  <2> DEFINE l == Len(tags)
  <2>1. l \in Nat \ {0} /\ tag = tags[l]
    BY <1>4, FrontLast
  <2>2. tags[1] = Tag("COMMON", "unit")
    BY DEF Mirrors, UnitIsFirst
  <2>3. tags[1].operation = "COMMON" /\ tags[1].name = "unit"
    BY <2>2 DEF Tag
  <2>4. l # 1
    BY <1>5, <2>1, <2>3
  <2> HIDE DEF tags, tag, l
  <2>5. l >= 2
    BY <2>1, <2>4
  <2> QED BY <2>1, <2>2, <2>3, <2>5 DEF l
<1>7. /\ front \in Seq(Tags) /\ Len(front) = Len(tags) - 1
      /\ \A n \in 1 .. Len(tags) - 1 : front[n] = tags[n]
      /\ tag \in Tags
  BY <1>4, FrontLast
<1>8. Opened(t, "OUTPUT") = front
  <2>1. Last(Opened(s, "OUTPUT")).operation = operation /\ Len(Opened(s, "OUTPUT")) # 1
    BY <1>5, <1>6
  <2> HIDE DEF operation
  <2>2. Opened(Show(s, node, operation), "OUTPUT") = Front(Opened(s, "OUTPUT"))
    BY <1>1, <1>2, <1>4, <2>1, EndShows
  <2> QED BY <2>2
<1>9. UnitIsFirst(t)
  <2>1. front[1] = tags[1]
    BY <1>6, <1>7
  <2> QED BY <1>6, <1>8, <2>1 DEF UnitIsFirst
<1>10. MirrorsDocument(t)
  <2>1. Names(front) = Front(Names(tags))
    BY <1>4, NamesFront
  <2>2. OpenBehind(Names(tags), node) = Front(Names(tags))
    BY DEF OpenBehind
  <2>3. Names(Opened(t, "OUTPUT")) = OpenBehind(Names(tags), node)
    BY <1>8, <2>1, <2>2
  <2>4. MirrorsDocument(s)
    BY DEF Mirrors
  <2> QED BY <1>1, <1>2, <1>5, <2>3, <2>4, DocumentMoves
<1>11. ASSUME NEW side \in Sides PROVE MirrorsInput(t, side)
  <2> DEFINE held == Opened(s, side)
             meant == OfVersion(front, side)
  <2>1. side \in Streams /\ side # "OUTPUT"
    BY DEF Sides, Streams
  <2>2. held \in Seq(Tags)
    BY <2>1, OpenedType
  <2>3. /\ meant \in Seq(Tags) /\ meant # <<>>
        /\ OfVersion(tags, side) = Picked(meant, tag, side)
    <3> HIDE DEF tags
    <3> QED BY <1>4, <1>6, OfVersionFront
  <2>4. Alike(held, Picked(meant, tag, side))
    BY <2>3 DEF Mirrors, MirrorsInput
  <2> HIDE DEF tags, tag, front, t, operation
  <2>5. CASE operation \in {"COMMON", side}
    <3>1. Picked(meant, tag, side) = Append(meant, tag)
      BY <1>5, <2>5 DEF Picked
    <3> HIDE DEF held, meant
    <3>2. Len(held) # 1 /\ Last(held) = tag /\ Alike(Front(held), meant)
      BY <1>7, <2>2, <2>3, <2>4, <3>1, AlikeFront
    <3>3. Opened(t, side) = Front(held)
      BY <1>1, <1>2, <1>5, <2>1, <2>5, <3>2, EndShows DEF t, held
    <3> QED BY <1>8, <3>2, <3>3 DEF MirrorsInput, meant
  <2>6. CASE operation \notin {"COMMON", side}
    <3>1. Picked(meant, tag, side) = meant
      BY <1>5, <2>6 DEF Picked
    <3>2. Opened(t, side) = held
      BY <1>1, <1>2, <2>1, <2>6, EndShows DEF t
    <3> QED BY <1>8, <2>4, <3>1, <3>2 DEF MirrorsInput
  <2> QED BY <2>5, <2>6
<1>12. ASSUME NEW side \in Sides PROVE MirrorsReader(t, side)
  <2>1. PICK modes : ModesOf(tags, modes) /\ Reading(side, s.unit).op_mode = Last(modes)
    BY DEF Mirrors, MirrorsReader
  <2>2. /\ ModesOf(front, Front(modes))
        /\ Last(Front(modes)) \in Seq(DiffOperations)
        /\ Last(modes) = ModeBehind(Last(Front(modes)), StartNode(tag.name))
    <3> HIDE DEF tags
    <3> QED BY <1>4, <1>6, <2>1, ModesFront
  <2>3. Reading(side, t.unit).op_mode = ModeBehind(Reading(side, s.unit).op_mode, node)
    BY <1>1, <1>2, ReaderMoves
  <2>4. node = EndNode(tag.name)
    BY <1>5, WrittenNodes
  <2> HIDE DEF tags, tag, front, t
  <2>5. ModeBehind(Last(modes), node) = Last(Front(modes))
    BY <2>2, <2>4, BackToMode
  <2> QED BY <1>8, <2>1, <2>2, <2>3, <2>5 DEF MirrorsReader
<1> HIDE DEF t
<1>13. Mirrors(t)
  BY <1>3, <1>9, <1>10, <1>11, <1>12 DEF Mirrors
<1> QED BY <1>13 DEF t, operation

LEMMA TextMirrors ==
  ASSUME NEW s, Stacks(s), Mirrors(s), NEW operation \in DiffOperations,
         NEW node \in Written, node.type = "TEXT"
  PROVE  Mirrors(Show(s, node, operation))
<1> DEFINE t == Show(s, node, operation)
<1>1. s.unit \in Seq(Written) /\ s.delay_ws_end \in BOOLEAN
  BY DEF Mirrors
<1>2. t.unit \in Seq(Written) /\ t.delay_ws_end \in BOOLEAN
  BY <1>1, ShowIs
<1>3. \A stream \in Streams : Opened(t, stream) = Opened(s, stream)
  <2> SUFFICES ASSUME NEW stream \in Streams PROVE Opened(t, stream) = Opened(s, stream)
    OBVIOUS
  <2>1. UpdateDiffStack(s.open_diff[stream], node, operation) = s.open_diff[stream]
    BY DEF UpdateDiffStack, IsText
  <2>2. t.open_diff[stream] = s.open_diff[stream]
    BY <1>1, <2>1, ShowIs
  <2> QED BY <2>2 DEF Opened
<1>4. Opened(t, "OUTPUT") = Opened(s, "OUTPUT") /\ \A side \in Sides : Opened(t, side) = Opened(s, side)
  BY <1>3 DEF Streams, Sides
<1>5. MirrorsDocument(t)
  <2>1. OpenBehind(Names(Opened(s, "OUTPUT")), node) = Names(Opened(s, "OUTPUT")) /\ node.type # "END"
    BY DEF OpenBehind
  <2>2. MirrorsDocument(s)
    BY DEF Mirrors
  <2> QED BY <1>1, <1>4, <2>1, <2>2, DocumentMoves
<1>6. ASSUME NEW side \in Sides PROVE Reading(side, t.unit).op_mode = Reading(side, s.unit).op_mode
  <2>1. Reading(side, t.unit).op_mode = ModeBehind(Reading(side, s.unit).op_mode, node)
    BY <1>1, ReaderMoves
  <2> QED BY <2>1 DEF ModeBehind
<1> HIDE DEF t
<1>7. Mirrors(t)
  BY <1>2, <1>4, <1>5, <1>6 DEF Mirrors, UnitIsFirst, MirrorsInput, MirrorsReader
<1> QED BY <1>7 DEF t

(***************************************************************************)
(* Every call.                                                             *)
(***************************************************************************)
\* The mirror does not depend on anything else.
LEMMA SameMirrors ==
  ASSUME NEW s, NEW t, Mirrors(s), t.unit = s.unit, t.delay_ws_end = s.delay_ws_end,
         t.open_diff = s.open_diff
  PROVE  Mirrors(t)
BY DEF Mirrors, UnitIsFirst, MirrorsDocument, MirrorsInput, MirrorsReader, Opened, Pending

LEMMA DiffNodesWritten ==
  ASSUME NEW operation \in DiffOperations
  PROVE  /\ DiffStart(operation) \in Written /\ DiffEnd(operation) \in Written
         /\ DiffName[operation] \in TagsOf(operation) /\ DiffName[operation] # "unit"
         /\ OperationOf(DiffName[operation]) # "NONE"
<1>1. DiffName[operation] \in AllTags /\ DiffName[operation] \in TagsOf(operation)
  BY DEF AllTags, TagsOf
<1>2. DiffName[operation] # "unit"
  BY DEF DiffName, DiffOperations
<1>3. OperationOf(DiffName[operation]) \in DiffOperations
  BY DEF OperationOf
<1>4. OperationOf(DiffName[operation]) # "NONE"
  BY <1>3 DEF DiffOperations
<1> QED BY <1>1, <1>2, <1>4 DEF DiffStart, DiffEnd, Written

LEMMA UndelayMirrors ==
  ASSUME NEW s, IInv(s), Mirrors(s), NEW operation \in DiffOperations
  PROVE  Mirrors(Undelay(s, operation))
<1>1. CASE s.delay \notin {"NONE", operation} /\ InnermostTag(s) = DiffName[s.delay]
  <2> DEFINE node == DiffEnd(s.delay)
             told == Show(s, node, s.delay)
  <2>1. s.delay \in DiffOperations /\ Stacks(s)
    BY <1>1 DEF IInv
  <2>2. node \in Written /\ node.type = "END" /\ node.name = InnermostTag(s) /\ node.name # "unit"
    BY <1>1, <2>1, DiffNodes, DiffNodesWritten
  <2>3. s.delay = OutputState(s)
    <3>1. InnermostTag(s) \in TagsOf(OutputState(s)) /\ OutputState(s) \in DiffOperations
      BY <2>1, InnermostTagType
    <3>2. DiffName[s.delay] \notin ElementNames \cup {"unit", "diff:ws"}
      BY <2>1, ElementsAssumption DEF DiffName, DiffOperations
    <3>3. DiffName[s.delay] = DiffName[OutputState(s)]
      BY <1>1, <3>1, <3>2 DEF TagsOf
    <3> QED BY <2>1, <3>1, <3>3 DEF DiffName, DiffOperations
  <2>4. Mirrors(told)
    BY <2>1, <2>2, <2>3, EndMirrors
  <2>5. Undelay(s, operation) = [told EXCEPT !.delay = "NONE"]
    BY <1>1 DEF Undelay, Show
  <2>6. Stacks(told)
    BY <2>1, DiffNodes, WriteKeeps, UpdateKeeps DEF Show
  <2> HIDE DEF told
  <2>7. /\ Undelay(s, operation).unit = told.unit
        /\ Undelay(s, operation).delay_ws_end = told.delay_ws_end
        /\ Undelay(s, operation).open_diff = told.open_diff
    BY <2>5, <2>6 DEF Stacks, Fields
  <2> QED BY <2>4, <2>7, SameMirrors
<1>2. CASE ~ (s.delay \notin {"NONE", operation} /\ InnermostTag(s) = DiffName[s.delay])
  <2>1. Undelay(s, operation) = [s EXCEPT !.delay = "NONE"]
    BY <1>2 DEF Undelay
  <2>2. /\ Undelay(s, operation).unit = s.unit
        /\ Undelay(s, operation).delay_ws_end = s.delay_ws_end
        /\ Undelay(s, operation).open_diff = s.open_diff
    BY <2>1 DEF IInv, Stacks, Fields
  <2> QED BY <2>2, SameMirrors
<1> QED BY <1>1, <1>2

LEMMA OutputNodeMirrors ==
  ASSUME NEW s, IInv(s), Mirrors(s), NEW operation \in DiffOperations, NEW node \in Written,
         Passable(node, operation), NEW force_output \in BOOLEAN,
         node.type = "END" => node.name # "unit",
         node.type = "START" /\ OperationOf(node.name) = "NONE"
           => OutputState(Undelay(s, operation)) = operation
  PROVE  Mirrors(OutputNode(s, node, operation, force_output))
<1> DEFINE u == Undelay(s, operation)
           t == OutputUndelayed(u, node, operation, force_output)
<1>1. Stacks(u) /\ Mirrors(u) /\ OutputNode(s, node, operation, force_output) = t
  BY UndelayKeeps, UndelayMirrors DEF OutputNode
<1>2. node.type = "START" /\ OperationOf(node.name) = "NONE" => OutputState(u) = operation
  OBVIOUS
<1> HIDE DEF u
<1>3. CASE node.type = "END"
  <2>1. CASE InnermostTag(u) # node.name
    BY <1>1, <1>3, <2>1 DEF OutputUndelayed, OutputEnd
  <2>2. CASE InnermostTag(u) = node.name /\ ~ force_output /\ node \in DiffEnds
    <3>1. t = [u EXCEPT !.delay = OutputState(u)]
      BY <1>3, <2>2 DEF OutputUndelayed, OutputEnd
    <3> HIDE DEF t
    <3>2. t.unit = u.unit /\ t.delay_ws_end = u.delay_ws_end /\ t.open_diff = u.open_diff
      BY <1>1, <3>1 DEF Stacks, Fields
    <3> QED BY <1>1, <3>2, SameMirrors
  <2>3. CASE InnermostTag(u) = node.name /\ ~ (~ force_output /\ node \in DiffEnds)
    <3>1. t = Show(u, node, OutputState(u))
      BY <1>3, <2>3 DEF OutputUndelayed, OutputEnd, Show
    <3> HIDE DEF t
    <3> QED BY <1>1, <1>3, <2>3, <3>1, EndMirrors
  <2> QED BY <2>1, <2>2, <2>3
<1>4. CASE node.type # "END" /\ ~ force_output /\ node = DiffStart(OutputState(u))
  BY <1>1, <1>4 DEF OutputUndelayed
<1>5. CASE node.type # "END" /\ ~ (~ force_output /\ node = DiffStart(OutputState(u)))
  <2>1. t = Show(u, node, operation)
    BY <1>5 DEF OutputUndelayed, Show
  <2> HIDE DEF t
  <2>2. CASE node.type = "START"
    <3>1. node.name \in TagsOf(operation)
      BY <2>2 DEF Passable
    <3>2. Mirrors(Show(u, node, operation))
      BY <1>1, <1>2, <2>2, <3>1, StartMirrors
    <3> QED BY <1>1, <2>1, <3>2
  <2>3. CASE node.type = "TEXT"
    <3>1. Mirrors(Show(u, node, operation))
      BY <1>1, <2>3, TextMirrors
    <3> QED BY <1>1, <2>1, <3>1
  <2> QED BY <1>5, <2>2, <2>3, WrittenNodes
<1> QED BY <1>3, <1>4, <1>5

(***************************************************************************)
(* The mirror holds at first and is kept.                                  *)
(***************************************************************************)
\* The stack of a stream that begins.
LEMMA OpensOne ==
  ASSUME NEW name \in TagsOf("COMMON")
  PROVE  OpenTags(<<DiffSet("COMMON", <<name>>)>>) = <<Tag("COMMON", name)>>
<1> DEFINE set == DiffSet("COMMON", <<name>>)
<1>1. "COMMON" \in DiffOperations /\ <<name>> \in Seq(TagsOf("COMMON")) /\ Len(<<name>>) = 1 /\ <<name>>[1] = name
  BY DEF DiffOperations
<1>2. set \in DiffSets /\ set.operation = "COMMON" /\ set.open_tags = <<name>>
  BY <1>1, DiffSetType
<1> HIDE DEF set
<1>3. TagsIn(set) \in Seq(Tags) /\ Len(TagsIn(set)) = 1 /\ TagsIn(set)[1] = Tag("COMMON", name)
  <2>1. Len(set.open_tags) = 1 /\ set.open_tags[1] = name
    BY <1>1, <1>2
  <2>2. /\ TagsIn(set) \in Seq(Tags) /\ Len(TagsIn(set)) = Len(set.open_tags)
        /\ \A k \in 1 .. Len(set.open_tags) : TagsIn(set)[k] = Tag(set.operation, set.open_tags[k])
    BY <1>2, TagsInType
  <2>3. 1 \in 1 .. Len(set.open_tags)
    BY <2>1
  <2> QED BY <1>2, <2>1, <2>2, <2>3
<1>4. Tag("COMMON", name) \in Tags
  BY DEF Tag, Tags, TagsOf, AllTags, DiffOperations
<1> DEFINE row == <<Tag("COMMON", name)>>
<1>5. row \in Seq(Tags) /\ Len(row) = 1 /\ row[1] = Tag("COMMON", name)
  BY <1>4
<1> HIDE DEF row
<1>6. TagsIn(set) = row
  BY <1>3, <1>5, RowsEqual
<1>7. <<>> \in Seq(DiffSets)
  BY EmptySeq
<1>8. OpenTags(Append(<<>>, set)) = OpenTags(<<>>) \o TagsIn(set)
  BY <1>2, <1>7, OpenTagsAppend
<1>9. Append(<<>>, set) = <<set>>
  OBVIOUS
<1>10. <<>> \o TagsIn(set) = TagsIn(set)
  BY <1>3, ConcatEmptySeq
<1> QED BY <1>6, <1>8, <1>9, <1>10, OpensNothing DEF set, row

LEMMA NothingWritten ==
  /\ <<>> \in Seq(Written)
  /\ OpenElements(<<>>) = <<"unit">>
  /\ \A side \in Sides : Reading(side, <<>>).op_mode = <<"COMMON">>
<1>1. <<>> \in Seq(Written) /\ Len(<<>>) = 0
  BY EmptySeq
<1>2. OpenElements(<<>>) = <<"unit">>
  BY <1>1, OpenElementsIs
<1>3. ASSUME NEW side \in Sides PROVE Reading(side, <<>>).op_mode = <<"COMMON">>
  <2> DEFINE reader == ReaderOf(side)
  <2>1. reader \in Readers /\ reader.op_mode = <<"COMMON">>
    <3>1. <<"COMMON">> \in Seq(DiffOperations) /\ <<>> \in Seq(Written)
      BY EmptySeq DEF DiffOperations
    <3> QED BY <3>1 DEF ReaderOf, Readers
  <2> HIDE DEF reader
  <2>2. ReadOn(reader, <<>>) = reader
    <3> DEFINE nodes == <<>>
    <3>1. nodes \in Seq(Written) /\ Len(nodes) = 0
      BY <1>1
    <3> HIDE DEF nodes
    <3>2. PICK f \in [0 .. Len(nodes) -> Readers] :
            /\ f[0] = reader
            /\ \A n \in 1 .. Len(nodes) : f[n] = ReadNode(f[n - 1], nodes[n])
            /\ ReadOn(reader, nodes) = f[Len(nodes)]
      BY <2>1, <3>1, ReadOnIs
    <3> QED BY <3>1, <3>2 DEF nodes
  <2> QED BY <2>1, <2>2 DEF Reading, reader
<1> QED BY <1>1, <1>2, <1>3

LEMMA InitMirrors == ASSUME Init PROVE Mirrors(out)
<1>1. PICK nodes \in Inputs : out = Primed(nodes)
  BY DEF Init
<1>2. out.unit = <<>> /\ out.delay_ws_end = FALSE
  BY <1>1 DEF Primed
<1> DEFINE unit == Tag("COMMON", "unit")
<1>3. {"unit", "diff:common"} \subseteq TagsOf("COMMON")
  BY DEF TagsOf, DiffName
<1>4. Opened(out, "OUTPUT") = <<unit>>
  <2>1. out.open_diff["OUTPUT"] = <<DiffSet("COMMON", <<"unit">>)>>
    BY <1>1 DEF Primed, Streams, Sides
  <2>2. "unit" \in TagsOf("COMMON")
    BY <1>3
  <2> QED BY <2>1, <2>2, OpensOne DEF Opened
<1>5. ASSUME NEW side \in Sides
      PROVE  \E first : Opened(out, side) = <<first>>
  <2>1. \/ out.open_diff[side] = <<DiffSet("COMMON", <<"unit">>)>>
        \/ out.open_diff[side] = <<DiffSet("COMMON", <<"diff:common">>)>>
    BY <1>1 DEF Primed, Streams
  <2>2. "unit" \in TagsOf("COMMON") /\ "diff:common" \in TagsOf("COMMON")
    BY <1>3
  <2> QED BY <2>1, <2>2, OpensOne DEF Opened
<1>6. unit \in Tags /\ unit.operation = "COMMON" /\ unit.name = "unit"
  BY DEF Tag, Tags, AllTags, DiffOperations
<1> HIDE DEF unit
<1>7. UnitIsFirst(out)
  BY <1>4 DEF UnitIsFirst, unit
<1>8. MirrorsDocument(out)
  <2>1. Names(<<unit>>) = <<"unit">>
    BY <1>6 DEF Names
  <2>2. Pending(out) = <<>>
    BY <1>2 DEF Pending
  <2>3. <<"unit">> \o <<>> = <<"unit">>
    OBVIOUS
  <2> QED BY <1>2, <1>4, <2>1, <2>2, <2>3, NothingWritten DEF MirrorsDocument
<1>9. ASSUME NEW side \in Sides PROVE MirrorsInput(out, side)
  <2>1. OfVersion(<<unit>>, side) = <<unit>>
    <3>1. <<>> \in Seq(Tags) /\ Len(<<>>) = 0
      BY EmptySeq
    <3>2. OfVersion(<<>>, side) = <<>>
      <4> DEFINE tags == <<>>
      <4>1. tags \in Seq(Tags) /\ Len(tags) = 0
        BY <3>1
      <4> HIDE DEF tags
      <4>2. PICK f \in [0 .. Len(tags) -> Seq(Tags)] :
              /\ f[0] = <<>>
              /\ \A n \in 1 .. Len(tags) : f[n] = Picked(f[n - 1], tags[n], side)
              /\ OfVersion(tags, side) = f[Len(tags)]
        BY <4>1, OfVersionIs
      <4> QED BY <4>1, <4>2 DEF tags
    <3>3. OfVersion(Append(<<>>, unit), side) = Picked(<<>>, unit, side)
      BY <1>6, <3>1, <3>2, OfVersionStep
    <3>4. Append(<<>>, unit) = <<unit>> /\ Picked(<<>>, unit, side) = <<unit>>
      BY <1>6 DEF Picked
    <3> QED BY <3>3, <3>4
  <2>2. PICK first : Opened(out, side) = <<first>>
    BY <1>5
  <2>3. Alike(<<first>>, <<unit>>)
    BY DEF Alike
  <2> QED BY <1>4, <2>1, <2>2, <2>3 DEF MirrorsInput
<1>10. ASSUME NEW side \in Sides PROVE MirrorsReader(out, side)
  <2> DEFINE mode == <<"COMMON">>
             modes == <<mode>>
  <2>1. mode \in Seq(DiffOperations) /\ mode # <<>> /\ Last(mode) = "COMMON"
    BY DEF DiffOperations, Last
  <2>2. Reading(side, out.unit).op_mode = mode
    BY <1>2, NothingWritten
  <2> HIDE DEF mode
  <2>3. modes \in Seq(Seq(DiffOperations)) /\ Len(modes) = 1 /\ modes[1] = mode /\ modes # <<>>
    BY <2>1
  <2>4. Last(modes) = mode
    BY <2>3 DEF Last
  <2> HIDE DEF modes
  <2>5. ModesOf(<<unit>>, modes)
    BY <1>6, <2>1, <2>3 DEF ModesOf
  <2> QED BY <1>4, <2>2, <2>4, <2>5 DEF MirrorsReader
<1> QED BY <1>2, <1>7, <1>8, <1>9, <1>10, NothingWritten DEF Mirrors

LEMMA NextMirrors == ASSUME IInv(out), Mirrors(out), [Next]_out PROVE Mirrors(out')
<1>1. CASE UNCHANGED out
  BY <1>1
<1>2. CASE StartDiff
  <2>1. PICK operation \in DiffOperations, force_output \in BOOLEAN :
          out' = OutputNode(out, DiffStart(operation), operation, force_output)
    BY <1>2 DEF StartDiff
  <2>2. /\ DiffStart(operation) \in Written /\ Passable(DiffStart(operation), operation)
        /\ DiffStart(operation).type = "START" /\ OperationOf(DiffStart(operation).name) # "NONE"
    BY DiffNodes, DiffNodesWritten
  <2> QED BY <2>1, <2>2, OutputNodeMirrors
<1>3. CASE EndDiff
  <2>1. PICK operation \in DiffOperations, force_output \in BOOLEAN :
          out' = OutputNode(out, DiffEnd(operation), operation, force_output)
    BY <1>3 DEF EndDiff
  <2>2. /\ DiffEnd(operation) \in Written /\ Passable(DiffEnd(operation), operation)
        /\ DiffEnd(operation).type = "END" /\ DiffEnd(operation).name # "unit"
    BY DiffNodes, DiffNodesWritten
  <2> QED BY <2>1, <2>2, OutputNodeMirrors
<1>4. CASE StartNodeOf
  <2>1. PICK operation \in DiffOperations, name \in ElementNames :
          Ready(operation) /\ out' = OutputNode(out, StartNode(name), operation, FALSE)
    BY <1>4 DEF StartNodeOf
  <2>2. StartNode(name) \in Written /\ Passable(StartNode(name), operation) /\ StartNode(name).type = "START"
    BY DEF Passable, StartNode, Node, TagsOf, Written, AllTags
  <2> QED BY <2>1, <2>2, OutputNodeMirrors DEF Ready
<1>5. CASE EndNodeOf
  <2>1. PICK operation \in DiffOperations, name \in ElementNames :
          out' = OutputNode(out, EndNode(name), operation, FALSE)
    BY <1>5 DEF EndNodeOf
  <2>2. EndNode(name) \in Written /\ Passable(EndNode(name), operation)
          /\ EndNode(name).type = "END" /\ EndNode(name).name # "unit"
    BY ElementsAssumption DEF Passable, EndNode, Node, Written, AllTags
  <2> QED BY <2>1, <2>2, OutputNodeMirrors
<1>6. CASE Text
  <2>1. PICK operation \in DiffOperations : out' = OutputNode(out, TextNode(<<"a">>), operation, FALSE)
    BY <1>6 DEF Text
  <2>2. /\ TextNode(<<"a">>) \in Written /\ Passable(TextNode(<<"a">>), operation)
        /\ TextNode(<<"a">>).type = "TEXT"
    BY DEF Passable, TextNode, Node, Written
  <2> QED BY <2>1, <2>2, OutputNodeMirrors
<1>7. CASE Blanks
  <2>1. PICK operation \in Sides, node \in {WsStart, WsEnd} :
          Ready(operation) /\ out' = OutputNode(out, node, operation, FALSE)
    BY <1>7 DEF Blanks
  <2>2. Passable(node, operation) /\ operation \in DiffOperations
    BY DEF Passable, WsStart, WsEnd, StartNode, EndNode, Node, TagsOf, Sides, DiffOperations
  <2>3. node \in Written /\ node.name # "unit"
    BY WsNodes
  <2> QED BY <2>1, <2>2, <2>3, OutputNodeMirrors DEF Ready
<1> QED BY <1>1, <1>2, <1>3, <1>4, <1>5, <1>6, <1>7 DEF Next

\* The stack of the output is what is open in the document, for every element, in
\* order, whatever was held back, dropped or written late.
\* (output_stream.cpp:190-355)
THEOREM DocumentStaysMirrored == Spec => []DocumentMirrored
<1>1. Init => IInv(out) /\ Mirrors(out)
  BY InitIInv, InitMirrors
<1>2. IInv(out) /\ Mirrors(out) /\ [Next]_out => IInv(out)' /\ Mirrors(out)'
  BY NextIInv, NextMirrors
<1>3. Mirrors(out) => DocumentMirrored
  BY DEF Mirrors, MirrorsDocument, DocumentMirrored, Opened, Pending
<1> QED BY <1>1, <1>2, <1>3, PTL DEF Spec

\* The stack of each version holds the tags of its own and of both, in the order
\* they were opened.  (output_stream.cpp:225-249)
THEOREM InputsStayMirrored == Spec => []InputsMirrored
<1>1. Init => IInv(out) /\ Mirrors(out)
  BY InitIInv, InitMirrors
<1>2. IInv(out) /\ Mirrors(out) /\ [Next]_out => IInv(out)' /\ Mirrors(out)'
  BY NextIInv, NextMirrors
<1>3. IInv(out) /\ Mirrors(out) => InputsMirrored
  <2> SUFFICES ASSUME IInv(out), Mirrors(out), NEW side \in Sides
               PROVE  Tail(OpenTags(out.open_diff[side]))
                        = Tail(OfVersion(OpenTags(out.open_diff["OUTPUT"]), side))
    BY DEF InputsMirrored
  <2> DEFINE held == Opened(out, side)
             meant == OfVersion(Opened(out, "OUTPUT"), side)
  <2>1. Alike(held, meant)
    BY DEF Mirrors, MirrorsInput
  <2>2. held \in Seq(Tags) /\ Opened(out, "OUTPUT") \in Seq(Tags) /\ Opened(out, "OUTPUT") # <<>>
    BY OpenedType DEF IInv, Streams
  <2>3. meant \in Seq(Tags)
    <3>1. Last(Opened(out, "OUTPUT")) \in Tags
      BY <2>2, FrontLast
    <3> QED BY <2>2, <3>1, OfVersionStep
  <2> HIDE DEF held, meant
  <2> DEFINE l == Len(held)
  <2>4. held # <<>> /\ meant # <<>> /\ Len(meant) = l /\ \A n \in 2 .. l : held[n] = meant[n]
    BY <2>1 DEF Alike
  <2>5. /\ Tail(held) \in Seq(Tags) /\ Len(Tail(held)) = l - 1
        /\ \A n \in 1 .. l - 1 : Tail(held)[n] = held[n + 1]
    BY <2>2, <2>4, HeadTailProperties
  <2>6. /\ Tail(meant) \in Seq(Tags) /\ Len(Tail(meant)) = l - 1
        /\ \A n \in 1 .. l - 1 : Tail(meant)[n] = meant[n + 1]
    BY <2>3, <2>4, HeadTailProperties
  <2>7. l \in Nat
    BY <2>2, LenProperties
  <2> HIDE DEF l
  <2>8. ASSUME NEW n \in 1 .. l - 1 PROVE Tail(held)[n] = Tail(meant)[n]
    <3> DEFINE m == n + 1
    <3>1. m \in 2 .. l
      BY <2>7
    <3>2. Tail(held)[n] = held[m] /\ Tail(meant)[n] = meant[m]
      BY <2>5, <2>6
    <3> HIDE DEF m
    <3> QED BY <3>1, <3>2, <2>4
  <2>9. Tail(held) = Tail(meant)
    BY <2>5, <2>6, <2>8, RowsEqual
  <2> QED BY <2>9 DEF held, meant, Opened
<1> QED BY <1>1, <1>2, <1>3, PTL DEF Spec

\* What comes next in the document is taken by the reader of either version to be
\* of the operation that the stream is in.  (reader.hpp:33-88, output_stream.cpp:190-355)
THEOREM ReadsAsWritten == Spec => []ReadAsWritten
<1>1. Init => IInv(out) /\ Mirrors(out)
  BY InitIInv, InitMirrors
<1>2. IInv(out) /\ Mirrors(out) /\ [Next]_out => IInv(out)' /\ Mirrors(out)'
  BY NextIInv, NextMirrors
<1>3. IInv(out) /\ Mirrors(out) => ReadAsWritten
  <2> SUFFICES ASSUME IInv(out), Mirrors(out), NEW side \in Sides
               PROVE  Reading(side, out.unit).op_mode[Len(Reading(side, out.unit).op_mode)]
                        = OutputState(out)
    BY DEF ReadAsWritten
  <2> DEFINE tags == Opened(out, "OUTPUT")
             mode == Reading(side, out.unit).op_mode
             l == Len(tags)
  <2>1. PICK modes : ModesOf(tags, modes) /\ mode = Last(modes)
    BY DEF Mirrors, MirrorsReader
  <2>2. tags \in Seq(Tags) /\ tags # <<>> /\ Last(tags).operation = OutputState(out)
    BY OpenedType DEF IInv, Streams, OutputState, OpenDiff
  <2>3. l \in Nat \ {0} /\ Last(tags) = tags[l]
    BY <2>2, FrontLast
  <2>4. modes \in Seq(Seq(DiffOperations)) /\ Len(modes) = l /\ modes # <<>>
    <3>1. modes \in Seq(Seq(DiffOperations)) /\ Len(modes) = l
      BY <2>1 DEF ModesOf
    <3> QED BY <3>1, <2>3, EmptySeq
  <2>5. Last(modes) = modes[l] /\ Last(modes) \in Seq(DiffOperations)
    BY <2>4, FrontLast
  <2>6. modes[l] # <<>> /\ Last(modes[l]) = tags[l].operation
    BY <2>1, <2>3 DEF ModesOf
  <2> HIDE DEF mode, tags, l
  <2>7. mode \in Seq(DiffOperations) /\ mode # <<>> /\ Last(mode) = OutputState(out)
    BY <2>1, <2>2, <2>3, <2>5, <2>6
  <2>8. mode[Len(mode)] = OutputState(out)
    BY <2>7, FrontLast
  <2> QED BY <2>8 DEF mode
<1> QED BY <1>1, <1>2, <1>3, PTL DEF Spec
===============================================================================
