-------------------------- MODULE ChangeMatcherProofs --------------------------
(***************************************************************************)
(* Proofs about the change_matcher, for changes of every size and every    *)
(* verdict on their pairs.                                                 *)
(***************************************************************************)
EXTENDS ChangeMatcher, SharedTheorems, SequenceTheorems

LOCAL INSTANCE SequencesExt

(***************************************************************************)
(* The table.  That there is one follows by induction over its cells, row  *)
(* by row: each is made from cells before it.                              *)
(***************************************************************************)
Pairs == Modified \X Original

Index(c) == c[1] * OriginalSize + c[2]

\* T is the table as far as the first n cells go.
FilledTo(T, n) == \A c \in Pairs : Index(c) < n => T[c] = Entry(T, c[1], c[2])

LEMMA CellType ==
  ASSUME NEW c \in Pairs
  PROVE  /\ c[1] \in Nat /\ c[2] \in Nat /\ c = <<c[1], c[2]>>
         /\ c[1] < ModifiedSize /\ c[2] < OriginalSize
         /\ Index(c) \in Nat
<1>1. /\ c[1] \in Nat /\ c[2] \in Nat /\ c = <<c[1], c[2]>>
      /\ c[1] < ModifiedSize /\ c[2] < OriginalSize
  BY SizesAssumption DEF Pairs, Modified, Original
<1>2. c[1] * OriginalSize \in Nat
  BY <1>1, SizesAssumption
<1> QED BY <1>1, <1>2 DEF Index

\* The cells an entry is made from come before it.
LEMMA Neighbours ==
  ASSUME NEW m \in Modified, NEW o \in Original
  PROVE  /\ <<m, o>> \in Pairs /\ Index(<<m, o>>) \in Nat
         /\ o > 0 => <<m, o - 1>> \in Pairs /\ Index(<<m, o - 1>>) < Index(<<m, o>>)
         /\ m > 0 => <<m - 1, o>> \in Pairs /\ Index(<<m - 1, o>>) < Index(<<m, o>>)
         /\ m > 0 /\ o > 0 => /\ <<m - 1, o - 1>> \in Pairs
                              /\ Index(<<m - 1, o - 1>>) < Index(<<m, o>>)
<1>1. /\ m \in Nat /\ o \in Nat /\ m < ModifiedSize /\ o < OriginalSize
      /\ ModifiedSize \in Nat /\ OriginalSize \in Nat /\ OriginalSize > 0
  BY SizesAssumption DEF Modified, Original
<1>2. <<m, o>> \in Pairs
  BY DEF Pairs
<1>3. o > 0 => o - 1 \in Original
  BY <1>1 DEF Original
<1>4. m > 0 => m - 1 \in Modified
  BY <1>1 DEF Modified
<1>5. (m - 1) * OriginalSize = m * OriginalSize - OriginalSize /\ m * OriginalSize \in Nat
  BY <1>1
<1> DEFINE p == m * OriginalSize
           q == (m - 1) * OriginalSize
<1>6. p \in Nat /\ q = p - OriginalSize
  BY <1>5
<1>7. /\ Index(<<m, o>>) = p + o
      /\ Index(<<m, o - 1>>) = p + (o - 1)
      /\ Index(<<m - 1, o>>) = q + o
      /\ Index(<<m - 1, o - 1>>) = q + (o - 1)
  BY DEF Index
<1> HIDE DEF p, q
<1> QED BY <1>1, <1>2, <1>3, <1>4, <1>6, <1>7 DEF Pairs

\* An entry is the same in two tables that agree on the cells before it.
LEMMA EntryLocal ==
  ASSUME NEW m \in Modified, NEW o \in Original, NEW T, NEW U,
         \A c \in Pairs : Index(c) < Index(<<m, o>>) => T[c] = U[c]
  PROVE  Entry(T, m, o) = Entry(U, m, o)
<1>1. /\ o > 0 => T[<<m, o - 1>>] = U[<<m, o - 1>>]
      /\ m > 0 => T[<<m - 1, o>>] = U[<<m - 1, o>>]
      /\ m > 0 /\ o > 0 => T[<<m - 1, o - 1>>] = U[<<m - 1, o - 1>>]
  BY Neighbours
<1>2. m \in Nat /\ o \in Nat
  BY SizesAssumption DEF Modified, Original
<1>3. CASE m = 0 /\ o = 0
  BY <1>3 DEF Entry
<1>4. CASE m = 0 /\ o > 0
  BY <1>4, <1>1 DEF Entry
<1>5. CASE m > 0 /\ o = 0
  BY <1>5, <1>1 DEF Entry
<1>6. CASE m > 0 /\ o > 0
  BY <1>6, <1>1 DEF Entry
<1> QED BY <1>2, <1>3, <1>4, <1>5, <1>6

\* Different cells have different indices.
LEMMA IndexInjective ==
  ASSUME NEW c \in Pairs, NEW d \in Pairs, Index(c) = Index(d)
  PROVE  c = d
<1> DEFINE m == c[1]
           n == d[1]
           S == OriginalSize
<1>1. /\ c[1] \in Nat /\ c[2] \in Nat /\ c = <<c[1], c[2]>> /\ c[2] < OriginalSize
      /\ d[1] \in Nat /\ d[2] \in Nat /\ d = <<d[1], d[2]>> /\ d[2] < OriginalSize
  BY CellType
<1>2. c[1] * OriginalSize + c[2] = d[1] * OriginalSize + d[2]
  BY DEF Index
<1>3. ASSUME NEW a \in Nat, NEW b \in Nat, a < b
      PROVE  a * OriginalSize + OriginalSize <= b * OriginalSize
  <2>1. b = a + (b - a) /\ b - a \in Nat /\ b - a >= 1
    BY <1>3
  <2>2. b * OriginalSize = a * OriginalSize + (b - a) * OriginalSize
    BY <2>1, SizesAssumption
  <2>3. (b - a) * OriginalSize >= OriginalSize
    BY <2>1, SizesAssumption
  <2>4. a * OriginalSize \in Nat /\ (b - a) * OriginalSize \in Nat
    BY <2>1, SizesAssumption
  <2> QED BY <2>2, <2>3, <2>4, SizesAssumption
<1>4. c[1] * OriginalSize \in Nat /\ d[1] * OriginalSize \in Nat
  BY <1>1, SizesAssumption
<1>5. ~ (c[1] < d[1])
  BY <1>1, <1>2, <1>3, <1>4, SizesAssumption
<1>6. ~ (d[1] < c[1])
  BY <1>1, <1>2, <1>3, <1>4, SizesAssumption
<1>7. c[1] = d[1]
  BY <1>1, <1>5, <1>6
<1>8. c[2] = d[2]
  BY <1>1, <1>2, <1>4, <1>7
<1> QED BY <1>1, <1>7, <1>8

LEMMA TableExists ==
  \E T : T = [c \in Pairs |-> Entry(T, c[1], c[2])]
<1> DEFINE Bad == {n \in Nat : ~ \E T : DOMAIN T = Pairs /\ T = [c \in Pairs |-> T[c]] /\ FilledTo(T, n)}
<1>1. Bad = {}
  <2> SUFFICES ASSUME Bad # {} PROVE FALSE
    OBVIOUS
  <2>1. PICK n \in Bad : \A k \in Bad : n <= k
    <3>1. Bad \subseteq Nat
      OBVIOUS
    <3> HIDE DEF Bad
    <3> QED BY <3>1, LeastElement
  <2>2. n \in Nat /\ ~ \E T : DOMAIN T = Pairs /\ T = [c \in Pairs |-> T[c]] /\ FilledTo(T, n)
    OBVIOUS
  <2>3. n # 0
    <3> SUFFICES ASSUME n = 0 PROVE FALSE
      OBVIOUS
    <3> DEFINE T0 == [c \in Pairs |-> 0]
    <3>1. FilledTo(T0, 0)
      BY CellType DEF FilledTo
    <3> QED BY <3>1, <2>2
  <2>4. n - 1 \in Nat /\ n - 1 \notin Bad
    <3>1. n - 1 \in Nat /\ ~ (n <= n - 1)
      BY <2>2, <2>3
    <3> HIDE DEF Bad
    <3> QED BY <3>1, <2>1
  <2>5. PICK T : DOMAIN T = Pairs /\ T = [c \in Pairs |-> T[c]] /\ FilledTo(T, n - 1)
    BY <2>4
  <2> HIDE DEF Bad
  <2>6. CASE \E c \in Pairs : Index(c) = n - 1
    <3>1. PICK d \in Pairs : Index(d) = n - 1
      BY <2>6
    <3> DEFINE U == [c \in Pairs |-> IF c = d THEN Entry(T, d[1], d[2]) ELSE T[c]]
    <3>2. d[1] \in Modified /\ d[2] \in Original /\ d = <<d[1], d[2]>>
      BY DEF Pairs
    <3>3. \A c \in Pairs : Index(c) < n - 1 => T[c] = U[c]
      BY <3>1, CellType
    <3>4. ASSUME NEW c \in Pairs, Index(c) < n
          PROVE  U[c] = Entry(U, c[1], c[2])
      <4>1. c[1] \in Modified /\ c[2] \in Original /\ c = <<c[1], c[2]>> /\ Index(c) \in Nat
        BY CellType DEF Pairs
      <4>2. Index(c) <= n - 1
        BY <4>1, <3>4, <2>2
      <4>3. \A b \in Pairs : Index(b) < Index(<<c[1], c[2]>>) => T[b] = U[b]
        BY <3>3, <4>1, <4>2, CellType, <2>2
      <4>4. Entry(T, c[1], c[2]) = Entry(U, c[1], c[2])
        <5> HIDE DEF U
        <5> QED BY <4>1, <4>3, EntryLocal
      <4>5. CASE c = d
        <5>1. U[c] = Entry(T, d[1], d[2])
          BY <4>5
        <5> HIDE DEF U
        <5> QED BY <4>4, <4>5, <5>1
      <4>6. CASE c # d
        <5>1. U[c] = T[c]
          BY <4>6
        <5>2. Index(c) < n - 1
          BY <3>1, <4>1, <4>2, <4>6, IndexInjective, <2>2
        <5>3. T[c] = Entry(T, c[1], c[2])
          BY <2>5, <5>2 DEF FilledTo
        <5> HIDE DEF U
        <5> QED BY <4>4, <5>1, <5>3
      <4> QED BY <4>5, <4>6
    <3>5. DOMAIN U = Pairs /\ U = [c \in Pairs |-> U[c]]
      OBVIOUS
    <3> HIDE DEF U
    <3> QED BY <3>4, <3>5, <2>2 DEF FilledTo
  <2>7. CASE ~ \E c \in Pairs : Index(c) = n - 1
    <3>1. FilledTo(T, n)
      <4> SUFFICES ASSUME NEW c \in Pairs, Index(c) < n PROVE T[c] = Entry(T, c[1], c[2])
        BY DEF FilledTo
      <4>1. Index(c) < n - 1
        BY <2>7, <2>2, CellType
      <4> QED BY <4>1, <2>5 DEF FilledTo
    <3> QED BY <3>1, <2>2, <2>5
  <2> QED BY <2>6, <2>7
<1> DEFINE N == ModifiedSize * OriginalSize
<1>2. N \in Nat
  BY SizesAssumption
<1>3. N \notin Bad
  BY <1>1
<1>4. PICK T : DOMAIN T = Pairs /\ T = [c \in Pairs |-> T[c]] /\ FilledTo(T, N)
  BY <1>2, <1>3
<1>5. ASSUME NEW c \in Pairs PROVE Index(c) < N
  <2>1. /\ c[1] \in Nat /\ c[2] \in Nat /\ c[1] < ModifiedSize /\ c[2] < OriginalSize
    BY CellType
  <2>2. ModifiedSize * OriginalSize = c[1] * OriginalSize + (ModifiedSize - c[1]) * OriginalSize
    BY <2>1, SizesAssumption
  <2>3. (ModifiedSize - c[1]) * OriginalSize >= OriginalSize
    BY <2>1, SizesAssumption
  <2>4. c[1] * OriginalSize \in Nat /\ (ModifiedSize - c[1]) * OriginalSize \in Nat
    BY <2>1, SizesAssumption
  <2> QED BY <2>1, <2>2, <2>3, <2>4, SizesAssumption DEF Index
<1>6. \A c \in Pairs : T[c] = Entry(T, c[1], c[2])
  BY <1>4, <1>5 DEF FilledTo
<1>7. T = [c \in Pairs |-> Entry(T, c[1], c[2])]
  BY <1>4, <1>6
<1> QED BY <1>7

\* Every cell of the table is what the loops put there.
LEMMA TableEntries ==
  /\ DOMAIN Table = Pairs
  /\ \A m \in Modified, o \in Original : Table[<<m, o>>] = Entry(Table, m, o)
<1> DEFINE P(T) == T = [c \in Pairs |-> Entry(T, c[1], c[2])]
<1>1. \E T : P(T)
  BY TableExists
<1>2. Table = CHOOSE T : P(T)
  BY DEF Table, Pairs
<1>3. P(Table)
  <2> HIDE DEF P
  <2> QED BY <1>1, <1>2
<1> QED BY <1>3, Neighbours

\* The directions never lead out of the table on one side alone.
LEMMA Directions ==
  ASSUME NEW m \in Modified, NEW o \in Original
  PROVE  LET back == Back(Table[<<m, o>>].direction)
         IN  /\ back \in {<<0, 1>>, <<1, 0>>, <<1, 1>>}
             /\ m = 0 /\ o = 0 => back = <<1, 1>>
             /\ m = 0 /\ o > 0 => back = <<0, 1>>
             /\ m > 0 /\ o = 0 => back = <<1, 0>>
<1>1. m \in Nat /\ o \in Nat /\ Table[<<m, o>>] = Entry(Table, m, o)
  BY TableEntries, SizesAssumption DEF Modified, Original
<1> DEFINE left == Best(Beside(Table[<<m, o - 1>>], 1), Alone(m, o, 1))
           up == Best(Beside(Table[<<m - 1, o>>], 2), Alone(m, o, 2))
<1>2. left.direction = 1 /\ up.direction = 2 /\ Alone(m, o, 0).direction = 0
  BY DEF Best, Beside, Alone, Cell
<1>3. CASE m = 0 /\ o = 0
  BY <1>1, <1>2, <1>3 DEF Entry, Back
<1>4. CASE m = 0 /\ o > 0
  BY <1>1, <1>2, <1>4 DEF Entry, Back
<1>5. CASE m > 0 /\ o = 0
  BY <1>1, <1>2, <1>5 DEF Entry, Back
<1>6. CASE m > 0 /\ o > 0
  BY <1>1, <1>6 DEF Back
<1> QED BY <1>1, <1>3, <1>4, <1>5, <1>6
-----------------------------------------------------------------------------
(***************************************************************************)
(* What FlattenSeq makes of a list of parts.                               *)
(***************************************************************************)
LEMMA FlattenIs ==
  ASSUME NEW S, NEW ss \in Seq(Seq(S)), ss # <<>>
  PROVE  \E f \in [1 .. Len(ss) -> Seq(S)] :
           /\ f[1] = ss[1]
           /\ \A k \in 2 .. Len(ss) : f[k] = f[k - 1] \o ss[k]
           /\ FlattenSeq(ss) = f[Len(ss)]
<1> DEFINE f == CHOOSE f : Flattens(ss, f)
<1>1. Len(ss) \in Nat /\ Len(ss) # 0
  OBVIOUS
<1>2. Flattens(ss, f)
  <2>1. \E g : Flattens(ss, g)
    BY <1>1, FlattenExists DEF Flattens, FlattensTo
  <2> QED BY <2>1
<1>3. FlattenSeq(ss) = f[Len(ss)]
  BY <1>1 DEF FlattenSeq, Flattens
<1> HIDE DEF f
<1>4. f \in [1 .. Len(ss) -> Seq(S)]
  BY <1>2, FlattensType
<1>5. f[1] = ss[1] /\ \A k \in 2 .. Len(ss) : f[k] = f[k - 1] \o ss[k]
  BY <1>2, FlattensSteps
<1> QED BY <1>3, <1>4, <1>5

LEMMA FlattenNothing == FlattenSeq(<<>>) = <<>>
  BY DEF FlattenSeq

LEMMA FlattenType ==
  ASSUME NEW S, NEW ss \in Seq(Seq(S))
  PROVE  FlattenSeq(ss) \in Seq(S)
<1>1. CASE ss = <<>>
  BY <1>1, FlattenNothing, EmptySeq
<1>2. CASE ss # <<>>
  <2>1. Len(ss) \in 1 .. Len(ss)
    BY <1>2
  <2>2. \E f \in [1 .. Len(ss) -> Seq(S)] : FlattenSeq(ss) = f[Len(ss)]
    BY <1>2, FlattenIs
  <2> QED BY <2>1, <2>2
<1> QED BY <1>1, <1>2

\* One sequence more in front.
LEMMA FlattenCons ==
  ASSUME NEW S, NEW ss \in Seq(Seq(S)), NEW a \in Seq(S)
  PROVE  FlattenSeq(<<a>> \o ss) = a \o FlattenSeq(ss)
<1>0. \A x, y, z \in Seq(S) : (x \o y) \o z = x \o (y \o z)
  <2>1. Associative(S)
    BY Associates
  <2> QED BY ONLY <2>1 DEF Associative
<1> DEFINE ts == <<a>> \o ss
           N == Len(ss)
<1>1. /\ ts \in Seq(Seq(S)) /\ Len(ts) = N + 1 /\ N \in Nat /\ ts # <<>>
      /\ ts[1] = a /\ \A k \in 1 .. N : ts[k + 1] = ss[k]
      /\ \A k \in 1 .. N : ss[k] \in Seq(S)
  OBVIOUS
<1> HIDE DEF ts
<1>2. PICK f \in [1 .. Len(ts) -> Seq(S)] :
        /\ f[1] = ts[1]
        /\ \A k \in 2 .. Len(ts) : f[k] = f[k - 1] \o ts[k]
        /\ FlattenSeq(ts) = f[Len(ts)]
  BY <1>1, FlattenIs
<1>3. CASE ss = <<>>
  <2>1. FlattenSeq(ts) = a
    BY <1>1, <1>2, <1>3
  <2>2. a \o <<>> = a
    BY ConcatEmptySeq
  <2> QED BY <1>3, <2>1, <2>2, FlattenNothing DEF ts
<1>4. CASE ss # <<>>
  <2>1. PICK g \in [1 .. N -> Seq(S)] :
          /\ g[1] = ss[1]
          /\ \A k \in 2 .. N : g[k] = g[k - 1] \o ss[k]
          /\ FlattenSeq(ss) = g[N]
    BY <1>4, FlattenIs
  <2> DEFINE Bad == {k \in Nat : k \in 1 .. N /\ f[k + 1] # a \o g[k]}
  <2>2. Bad = {}
    <3> SUFFICES ASSUME Bad # {} PROVE FALSE
      OBVIOUS
    <3>1. PICK n \in Bad : \A k \in Bad : n <= k
      <4>1. Bad \subseteq Nat
        OBVIOUS
      <4> HIDE DEF Bad
      <4> QED BY <4>1, LeastElement
    <3>2. n \in 1 .. N /\ f[n + 1] # a \o g[n]
      OBVIOUS
    <3>3. /\ n + 1 \in 2 .. Len(ts) /\ (n + 1) - 1 = n
          /\ n \in Nat /\ ss[n] \in Seq(S)
      BY <3>2, <1>1
    <3>4. f[n + 1] = f[n] \o ss[n]
      <4>1. f[n + 1] = f[(n + 1) - 1] \o ts[n + 1]
        BY <3>3, <1>2
      <4> QED BY <4>1, <3>2, <3>3, <1>1
    <3>5. CASE n = 1
      BY <3>2, <3>4, <3>5, <2>1, <1>1, <1>2
    <3>6. CASE n # 1
      <4>1. n - 1 \in 1 .. N /\ n - 1 \in Nat /\ ~ (n <= n - 1) /\ n \in 2 .. N /\ (n - 1) + 1 = n
        BY <3>2, <3>3, <3>6, <1>1
      <4>2. n - 1 \notin Bad
        <5> HIDE DEF Bad
        <5> QED BY <4>1, <3>1
      <4>3. f[n] = a \o g[n - 1]
        BY <4>1, <4>2
      <4>4. g[n] = g[n - 1] \o ss[n] /\ g[n - 1] \in Seq(S)
        BY <4>1, <2>1
      <4>6. (a \o g[n - 1]) \o ss[n] = a \o (g[n - 1] \o ss[n])
        BY <3>3, <4>4, <1>0
      <4> QED BY <3>2, <3>4, <4>3, <4>4, <4>6
    <3> QED BY <3>5, <3>6
  <2>3. N \in 1 .. N /\ N \notin Bad
    <3>1. N \in 1 .. N
      BY <1>1, <1>4
    <3> HIDE DEF Bad
    <3> QED BY <3>1, <2>2
  <2>4. f[N + 1] = a \o g[N]
    BY <2>3, <1>1
  <2> QED BY <2>1, <2>4, <1>1, <1>2 DEF ts
<1> QED BY <1>3, <1>4
-----------------------------------------------------------------------------
(***************************************************************************)
(* The list of changes.                                                    *)
(***************************************************************************)
ListedChanges ==
  {c \in [original : Seq(Nat), modified : Seq(Nat),
          operation : {"CHANGE", "NONE", "MATCH", "CONVERT", "NEST"}] :
     c.original # <<>> \/ c.modified # <<>>}

OriginalParts(cs) == [n \in DOMAIN cs |-> cs[n].original]
ModifiedParts(cs) == [n \in DOMAIN cs |-> cs[n].modified]

AllOriginals(cs) == FlattenSeq(OriginalParts(cs))
AllModifieds(cs) == FlattenSeq(ModifiedParts(cs))

LEMMA NoParts ==
  AllOriginals(<<>>) = <<>> /\ AllModifieds(<<>>) = <<>>
<1>1. OriginalParts(<<>>) = <<>> /\ ModifiedParts(<<>>) = <<>>
  BY DEF OriginalParts, ModifiedParts
<1> QED BY <1>1, FlattenNothing DEF AllOriginals, AllModifieds

\* One change more in front of the list.
LEMMA PartsCons ==
  ASSUME NEW cs \in Seq(ListedChanges), NEW c \in ListedChanges
  PROVE  /\ <<c>> \o cs \in Seq(ListedChanges)
         /\ AllOriginals(<<c>> \o cs) = c.original \o AllOriginals(cs)
         /\ AllModifieds(<<c>> \o cs) = c.modified \o AllModifieds(cs)
         /\ AllOriginals(cs) \in Seq(Nat) /\ AllModifieds(cs) \in Seq(Nat)
<1> DEFINE ds == <<c>> \o cs
           os == OriginalParts(cs)
           ms == ModifiedParts(cs)
<1>1. /\ ds \in Seq(ListedChanges) /\ Len(ds) = Len(cs) + 1 /\ Len(cs) \in Nat
      /\ ds[1] = c /\ \A k \in 1 .. Len(cs) : ds[k + 1] = cs[k]
      /\ DOMAIN ds = 1 .. Len(cs) + 1 /\ DOMAIN cs = 1 .. Len(cs)
  OBVIOUS
<1>2. /\ c.original \in Seq(Nat) /\ c.modified \in Seq(Nat)
      /\ \A k \in 1 .. Len(cs) : cs[k].original \in Seq(Nat) /\ cs[k].modified \in Seq(Nat)
  <2>1. \A k \in 1 .. Len(cs) : cs[k] \in ListedChanges
    OBVIOUS
  <2>2. ASSUME NEW d \in ListedChanges PROVE d.original \in Seq(Nat) /\ d.modified \in Seq(Nat)
    BY DEF ListedChanges
  <2> QED BY <2>1, <2>2
<1>3. /\ os \in Seq(Seq(Nat)) /\ Len(os) = Len(cs)
      /\ \A k \in 1 .. Len(cs) : os[k] = cs[k].original
  BY <1>1, <1>2 DEF OriginalParts
<1>4. /\ ms \in Seq(Seq(Nat)) /\ Len(ms) = Len(cs)
      /\ \A k \in 1 .. Len(cs) : ms[k] = cs[k].modified
  BY <1>1, <1>2 DEF ModifiedParts
<1> HIDE DEF ds
<1>5. OriginalParts(ds) = <<c.original>> \o os
  <2> DEFINE ps == <<c.original>> \o os
  <2>1. /\ ps \in Seq(Seq(Nat)) /\ Len(ps) = Len(cs) + 1 /\ ps[1] = c.original
        /\ \A k \in 1 .. Len(cs) : ps[k + 1] = os[k]
    BY <1>2, <1>3
  <2>2. ASSUME NEW k \in 1 .. Len(cs) + 1
        PROVE  ps[k] = ds[k].original
    <3>1. CASE k = 1
      BY <3>1, <2>1, <1>1
    <3>2. CASE k # 1
      <4>1. k - 1 \in 1 .. Len(cs) /\ (k - 1) + 1 = k
        BY <3>2, <1>1
      <4>2. ps[(k - 1) + 1] = os[k - 1] /\ ds[(k - 1) + 1] = cs[k - 1]
        BY <4>1, <1>1, <2>1
      <4> QED BY <4>1, <4>2, <1>3
    <3> QED BY <3>1, <3>2
  <2>3. ps = [k \in 1 .. Len(cs) + 1 |-> ps[k]]
    BY <2>1, <1>1
  <2> HIDE DEF ps
  <2>4. ps = [k \in 1 .. Len(cs) + 1 |-> ds[k].original]
    BY <2>2, <2>3
  <2> QED BY <2>4, <1>1 DEF OriginalParts, ps
<1>6. ModifiedParts(ds) = <<c.modified>> \o ms
  <2> DEFINE ps == <<c.modified>> \o ms
  <2>1. /\ ps \in Seq(Seq(Nat)) /\ Len(ps) = Len(cs) + 1 /\ ps[1] = c.modified
        /\ \A k \in 1 .. Len(cs) : ps[k + 1] = ms[k]
    BY <1>2, <1>4
  <2>2. ASSUME NEW k \in 1 .. Len(cs) + 1
        PROVE  ps[k] = ds[k].modified
    <3>1. CASE k = 1
      BY <3>1, <2>1, <1>1
    <3>2. CASE k # 1
      <4>1. k - 1 \in 1 .. Len(cs) /\ (k - 1) + 1 = k
        BY <3>2, <1>1
      <4>2. ps[(k - 1) + 1] = ms[k - 1] /\ ds[(k - 1) + 1] = cs[k - 1]
        BY <4>1, <1>1, <2>1
      <4> QED BY <4>1, <4>2, <1>4
    <3> QED BY <3>1, <3>2
  <2>3. ps = [k \in 1 .. Len(cs) + 1 |-> ps[k]]
    BY <2>1, <1>1
  <2> HIDE DEF ps
  <2>4. ps = [k \in 1 .. Len(cs) + 1 |-> ds[k].modified]
    BY <2>2, <2>3
  <2> QED BY <2>4, <1>1 DEF ModifiedParts, ps
<1> HIDE DEF os, ms
<1>7. AllOriginals(ds) = c.original \o FlattenSeq(os) /\ FlattenSeq(os) \in Seq(Nat)
  BY <1>2, <1>3, <1>5, FlattenCons, FlattenType DEF AllOriginals
<1>8. AllModifieds(ds) = c.modified \o FlattenSeq(ms) /\ FlattenSeq(ms) \in Seq(Nat)
  BY <1>2, <1>4, <1>6, FlattenCons, FlattenType DEF AllModifieds
<1> QED BY <1>1, <1>7, <1>8 DEF AllOriginals, AllModifieds, os, ms, ds

(***************************************************************************)
(* Spans.                                                                  *)
(***************************************************************************)
LEMMA SpanType ==
  ASSUME NEW a \in Nat, NEW b \in Int, b >= -1
  PROVE  /\ Span(a, b) \in Seq(Nat)
         /\ a <= b => /\ Len(Span(a, b)) = b - a + 1
                      /\ \A n \in 1 .. b - a + 1 : Span(a, b)[n] = a + n - 1
                      /\ Span(a, b) # <<>>
         /\ ~ (a <= b) => Span(a, b) = <<>>
<1>1. CASE a <= b
  <2>1. ~ (b < 0 \/ a > b) /\ b - a + 1 \in Nat
    BY <1>1
  <2>2. Span(a, b) = [n \in 1 .. b - a + 1 |-> a + n - 1]
    BY <2>1 DEF Span
  <2>3. \A n \in 1 .. b - a + 1 : a + n - 1 \in Nat
    BY <1>1
  <2> QED BY <1>1, <2>1, <2>2, <2>3
<1>2. CASE ~ (a <= b)
  <2>1. Span(a, b) = <<>>
    BY <1>2 DEF Span
  <2> QED BY <1>2, <2>1, EmptySeq
<1> QED BY <1>1, <1>2

LEMMA SpanEmpty ==
  ASSUME NEW a \in Nat, NEW b \in Int, b >= -1
  PROVE  Span(a, b) \in Seq(Nat) /\ (Span(a, b) = <<>> <=> b < a)
<1>1. b < a <=> ~ (a <= b)
  OBVIOUS
<1>2. /\ Span(a, b) \in Seq(Nat)
      /\ a <= b => Span(a, b) # <<>>
      /\ ~ (a <= b) => Span(a, b) = <<>>
  BY SpanType
<1> HIDE DEF Span
<1> QED BY <1>1, <1>2

LEMMA SpanOne ==
  ASSUME NEW a \in Nat
  PROVE  Span(a, a) = <<a>>
<1>1. /\ Span(a, a) \in Seq(Nat) /\ Len(Span(a, a)) = 1
      /\ \A n \in 1 .. 1 : Span(a, a)[n] = a + n - 1
  <2>1. a - a + 1 = 1 /\ a >= -1 /\ a \in Int /\ a <= a
    OBVIOUS
  <2>2. /\ Span(a, a) \in Seq(Nat) /\ Len(Span(a, a)) = a - a + 1
        /\ \A n \in 1 .. a - a + 1 : Span(a, a)[n] = a + n - 1
    BY <2>1, SpanType
  <2> HIDE DEF Span
  <2> QED BY <2>1, <2>2
<1>2. Span(a, a)[1] = a
  BY <1>1
<1> QED BY <1>1, <1>2

\* A span cut in two.
LEMMA SpanCut ==
  ASSUME NEW a \in Nat, NEW b \in Int, NEW c \in Nat,
         a <= c, c <= b + 1
  PROVE  Span(a, b) = Span(a, c - 1) \o Span(c, b)
<1>1. CASE c = a
  <2>1. Span(a, c - 1) = <<>> /\ Span(c, b) = Span(a, b) /\ Span(a, b) \in Seq(Nat)
    BY <1>1, SpanType
  <2> QED BY <2>1
<1>2. CASE c = b + 1
  <2>1. Span(c, b) = <<>> /\ c - 1 = b /\ Span(a, b) \in Seq(Nat)
    BY <1>2, SpanType
  <2> QED BY <2>1
<1>3. CASE a < c /\ c <= b
  <2> DEFINE l == Span(a, b)
             r == Span(a, c - 1)
             t == Span(c, b)
             u == r \o t
  <2>1. /\ l \in Seq(Nat) /\ Len(l) = b - a + 1
        /\ \A n \in 1 .. b - a + 1 : l[n] = a + n - 1
    BY <1>3, SpanType
  <2>2. /\ r \in Seq(Nat) /\ Len(r) = c - a
        /\ \A n \in 1 .. c - a : r[n] = a + n - 1
    <3>1. (c - 1) - a + 1 = c - a /\ a <= c - 1 /\ c - 1 >= -1 /\ c - 1 \in Int
      BY <1>3
    <3> QED BY <3>1, SpanType
  <2>3. /\ t \in Seq(Nat) /\ Len(t) = b - c + 1
        /\ \A n \in 1 .. b - c + 1 : t[n] = c + n - 1
    BY <1>3, SpanType
  <2> HIDE DEF l, r, t
  <2>4. /\ u \in Seq(Nat) /\ Len(u) = b - a + 1
        /\ \A n \in 1 .. b - a + 1 : u[n] = IF n <= c - a THEN r[n] ELSE t[n - (c - a)]
    <3>1. Len(r) + Len(t) = b - a + 1
      BY <2>2, <2>3, <1>3
    <3>2. /\ u \in Seq(Nat) /\ Len(u) = Len(r) + Len(t)
          /\ \A n \in 1 .. Len(r) + Len(t) :
               u[n] = IF n <= Len(r) THEN r[n] ELSE t[n - Len(r)]
      BY <2>2, <2>3, ConcatProperties
    <3> QED BY <3>1, <3>2, <2>2
  <2> HIDE DEF u
  <2>5. ASSUME NEW n \in 1 .. b - a + 1 PROVE u[n] = l[n]
    <3>1. CASE n <= c - a
      <4>1. u[n] = r[n] /\ n \in 1 .. c - a
        BY <3>1, <2>4, <1>3
      <4> QED BY <4>1, <2>1, <2>2
    <3>2. CASE n > c - a
      <4> DEFINE k == n - (c - a)
      <4>1. k \in 1 .. b - c + 1
        BY <3>2, <1>3
      <4>2. u[n] = t[k]
        BY <3>2, <2>4
      <4>3. t[k] = c + k - 1 /\ l[n] = a + n - 1
        BY <4>1, <2>1, <2>3
      <4> QED BY <4>2, <4>3, <1>3
    <3> QED BY <3>1, <3>2, <1>3
  <2>6. u = l
    BY <2>1, <2>4, <2>5, SeqEqual
  <2> QED BY <2>6 DEF u, l, r, t
<1> QED BY <1>1, <1>2, <1>3

\* What one matched construct and the gap behind it take from a side.
LEMMA SpanGap ==
  ASSUME NEW o \in Nat, NEW p \in Int, o <= p, NEW rest \in Seq(Nat)
  PROVE  /\ Span(o + 1, p) \in Seq(Nat)
         /\ Span(0, p) \o rest = Span(0, o - 1) \o (<<o>> \o (Span(o + 1, p) \o rest))
<1> DEFINE before == Span(0, o - 1)
           gap == Span(o + 1, p)
<1>1. before \in Seq(Nat) /\ gap \in Seq(Nat) /\ <<o>> \in Seq(Nat)
  <2>1. 0 \in Nat /\ o - 1 \in Int /\ o - 1 >= -1 /\ o + 1 \in Nat /\ p >= -1
    OBVIOUS
  <2>2. before \in Seq(Nat) /\ gap \in Seq(Nat)
    BY <2>1, SpanType
  <2> QED BY <2>2
<1>2. Span(0, p) = Span(0, o) \o gap
  <2>1. 0 <= o + 1 /\ o + 1 <= p + 1 /\ o + 1 \in Nat /\ (o + 1) - 1 = o
    OBVIOUS
  <2>2. Span(0, p) = Span(0, (o + 1) - 1) \o Span(o + 1, p)
    BY <2>1, SpanCut
  <2> QED BY <2>1, <2>2
<1>3. Span(0, o) = before \o <<o>>
  <2>1. 0 <= o /\ o <= o + 1 /\ 0 \in Nat /\ o \in Int
    OBVIOUS
  <2>2. Span(0, o) = Span(0, o - 1) \o Span(o, o)
    BY <2>1, SpanCut
  <2> QED BY <2>2, SpanOne
<1> HIDE DEF before, gap
<1> DEFINE S == Nat
<1>4. Associative(S) /\ before \in Seq(S) /\ gap \in Seq(S) /\ <<o>> \in Seq(S) /\ rest \in Seq(S)
  BY <1>1, AssociatesNat
<1> HIDE DEF S
<1>5. (before \o <<o>>) \o gap = before \o (<<o>> \o gap) /\ <<o>> \o gap \in Seq(S)
  BY <1>4 DEF Associative
<1>6. (before \o (<<o>> \o gap)) \o rest = before \o ((<<o>> \o gap) \o rest)
  <2> DEFINE middle == <<o>> \o gap
  <2>1. middle \in Seq(S)
    BY <1>4, <1>5
  <2> HIDE DEF middle
  <2>2. (before \o middle) \o rest = before \o (middle \o rest)
    BY <1>4, <2>1 DEF Associative
  <2> QED BY <2>2 DEF middle
<1>7. (<<o>> \o gap) \o rest = <<o>> \o (gap \o rest)
  BY <1>4 DEF Associative
<1> QED BY <1>1, <1>2, <1>3, <1>5, <1>6, <1>7 DEF before, gap
-----------------------------------------------------------------------------
(***************************************************************************)
(* The list tiles the change.  The inductive invariant adds that the walk  *)
(* follows the table, and where the cell is of the ends of what is listed: *)
(* it may have stayed on a construct that is listed, but then the          *)
(* construct is in olist or nlist and Marked keeps it out of the list.     *)
(***************************************************************************)
Cursors ==
  /\ i \in Int /\ -1 <= i /\ i < ModifiedSize
  /\ j \in Int /\ -1 <= j /\ j < OriginalSize
  /\ i = -1 <=> j = -1
  /\ original_pos \in Int /\ -1 <= original_pos /\ original_pos < OriginalSize
  /\ modified_pos \in Int /\ -1 <= modified_pos /\ modified_pos < ModifiedSize
  /\ j <= original_pos \/ (j = original_pos + 1 /\ j \in olist)
  /\ i <= modified_pos \/ (i = modified_pos + 1 /\ i \in nlist)

Rest(last) == IF phase = "done" THEN <<>> ELSE Span(0, last)

Tiling ==
  /\ changes \in Seq(ListedChanges)
  /\ Span(0, OriginalSize - 1) = Rest(original_pos) \o AllOriginals(changes)
  /\ Span(0, ModifiedSize - 1) = Rest(modified_pos) \o AllModifieds(changes)

Walking ==
  /\ verdict \in [Pairs -> Verdicts]
  /\ phase \in {"fill", "walk", "done"}
  /\ phase # "fill" => differences = Table
  /\ Cursors
  /\ Tiling

LEMMA WalkingTiles == Walking => ChangesTile
<1> SUFFICES ASSUME Walking PROVE ChangesTile
  OBVIOUS
<1>1. \A n \in DOMAIN changes : changes[n] \in ListedChanges
  BY DEF Walking, Tiling
<1>2. \A n \in DOMAIN changes : changes[n].original # <<>> \/ changes[n].modified # <<>>
  BY <1>1 DEF ListedChanges
<1>3. Originals = AllOriginals(changes) /\ Modifieds = AllModifieds(changes)
  BY DEF Originals, Modifieds, AllOriginals, AllModifieds, OriginalParts, ModifiedParts
<1> QED BY <1>2, <1>3 DEF Walking, Tiling, Cursors, Rest, ChangesTile

LEMMA InitWalking == Init => Walking
<1> SUFFICES ASSUME Init PROVE Walking
  OBVIOUS
<1>1. Cursors
  BY SizesAssumption DEF Init, Cursors
<1>2. changes = <<>> /\ phase = "fill" /\ original_pos = OriginalSize - 1 /\ modified_pos = ModifiedSize - 1
  BY DEF Init
<1>3. Span(0, OriginalSize - 1) \in Seq(Nat) /\ Span(0, ModifiedSize - 1) \in Seq(Nat)
  BY SpanType, SizesAssumption
<1>4. Tiling
  <2>1. changes \in Seq(ListedChanges)
    BY <1>2, EmptySeq
  <2>2. /\ Span(0, OriginalSize - 1) = Span(0, OriginalSize - 1) \o <<>>
        /\ Span(0, ModifiedSize - 1) = Span(0, ModifiedSize - 1) \o <<>>
    BY <1>3, ConcatEmptySeq
  <2> QED BY <2>1, <2>2, <1>2, NoParts DEF Tiling, Rest
<1> QED BY <1>1, <1>2, <1>4 DEF Walking, Init, Pairs

\* The table is of the input, which no step changes.
LEMMA TableKept ==
  ASSUME UNCHANGED input PROVE Table' = Table
<1>1. verdict' = verdict /\ moved' = moved
  BY DEF input
<1> QED BY <1>1 DEF Table, Entry, Alone, Below, Unmatched, Similarity, IsMove

LEMMA FillWalking ==
  ASSUME Walking, Fill PROVE Walking'
<1>1. Cursors'
  BY DEF Walking, Fill, walk, Cursors
<1>2. Tiling'
  BY DEF Walking, Fill, walk, Tiling, Rest, AllOriginals, AllModifieds, OriginalParts, ModifiedParts
<1>3. verdict' = verdict /\ UNCHANGED input /\ phase' = "walk" /\ differences' = Table
  BY DEF Fill, input
<1>4. differences' = Table'
  BY <1>3, TableKept
<1> QED BY <1>1, <1>2, <1>3, <1>4 DEF Walking, Pairs

\* A step of the walk keeps to the table.
LEMMA StepBack ==
  ASSUME Walking, Walk
  PROVE  /\ i \in Modified /\ j \in Original /\ i \in Nat /\ j \in Nat
         /\ i' \in Int /\ j' \in Int /\ -1 <= i' /\ i' <= i /\ -1 <= j' /\ j' <= j
         /\ i' = -1 <=> j' = -1
<1>1. differences = Table
  BY DEF Walking, Walk
<1>2. /\ i \in Int /\ j \in Int /\ i >= 0 /\ j >= 0
      /\ i < ModifiedSize /\ j < OriginalSize
  BY DEF Walking, Walk, Cursors
<1>3. i \in Modified /\ j \in Original
  BY <1>2, SizesAssumption DEF Modified, Original
<1> DEFINE back == Back(Table[<<i, j>>].direction)
<1>4. /\ back \in {<<0, 1>>, <<1, 0>>, <<1, 1>>}
      /\ i = 0 /\ j = 0 => back = <<1, 1>>
      /\ i = 0 /\ j > 0 => back = <<0, 1>>
      /\ i > 0 /\ j = 0 => back = <<1, 0>>
  BY <1>3, Directions
<1>5. i' = i - back[1] /\ j' = j - back[2]
  BY <1>1 DEF Walk
<1> HIDE DEF back
<1>6. CASE back = <<0, 1>>
  BY <1>2, <1>3, <1>4, <1>5, <1>6
<1>7. CASE back = <<1, 0>>
  BY <1>2, <1>3, <1>4, <1>5, <1>7
<1>8. CASE back = <<1, 1>>
  BY <1>2, <1>3, <1>4, <1>5, <1>8
<1> QED BY <1>4, <1>6, <1>7, <1>8

LEMMA WalkUnmarked ==
  ASSUME Walking, Walk, ~ Marked(i, j) PROVE Walking'
<1>1. /\ changes' = changes /\ phase' = phase /\ differences' = differences /\ verdict' = verdict
      /\ olist' = olist /\ nlist' = nlist
      /\ original_pos' = original_pos /\ modified_pos' = modified_pos
      /\ UNCHANGED input
  BY DEF Walk, input
<1>2. Cursors'
  <2>1. Cursors
    BY DEF Walking
  <2>2. j' = j \/ j' <= j - 1
    BY StepBack
  <2>3. i' = i \/ i' <= i - 1
    BY StepBack
  <2>4. j' <= original_pos' \/ (j' = original_pos' + 1 /\ j' \in olist')
    BY <1>1, <2>1, <2>2, StepBack DEF Cursors
  <2>5. i' <= modified_pos' \/ (i' = modified_pos' + 1 /\ i' \in nlist')
    BY <1>1, <2>1, <2>3, StepBack DEF Cursors
  <2>6. i' < ModifiedSize /\ j' < OriginalSize
    BY <2>1, StepBack, SizesAssumption DEF Cursors
  <2> QED BY <1>1, <2>1, <2>4, <2>5, <2>6, StepBack DEF Cursors
<1>3. Tiling'
  BY <1>1 DEF Walking, Tiling, Rest, AllOriginals, AllModifieds, OriginalParts, ModifiedParts
<1>4. phase' # "fill" => differences' = Table'
  BY <1>1, TableKept DEF Walking
<1> QED BY <1>1, <1>2, <1>3, <1>4 DEF Walking, Pairs

LEMMA PartsTyped ==
  ASSUME NEW cs \in Seq(ListedChanges)
  PROVE  AllOriginals(cs) \in Seq(Nat) /\ AllModifieds(cs) \in Seq(Nat)
<1> DEFINE c == [original |-> <<0>>, modified |-> <<0>>, operation |-> "NONE"]
<1>1. c \in ListedChanges
  <2>1. <<0>> \in Seq(Nat) /\ <<0>> # <<>>
    OBVIOUS
  <2> QED BY <2>1 DEF ListedChanges
<1> HIDE DEF c
<1> QED BY <1>1, PartsCons

\* What a match and the gap behind it put in front of the list.
LEMMA MatchListed ==
  ASSUME Walking, Walk, Marked(i, j)
  PROVE  LET c == Change(<<j>>, <<i>>, verdict[<<i, j>>].operation)
             d == Change(Span(j + 1, original_pos), Span(i + 1, modified_pos), "CHANGE")
             more == Gap(i, j) \o changes
         IN  /\ c \in ListedChanges
             /\ <<c>> \o Gap(i, j) \o changes = <<c>> \o more
             /\ more \in Seq(ListedChanges) /\ changes \in Seq(ListedChanges)
             /\ \/ d \in ListedChanges /\ more = <<d>> \o changes
                \/ /\ more = changes
                   /\ Span(j + 1, original_pos) = <<>> /\ Span(i + 1, modified_pos) = <<>>
<1> DEFINE c == Change(<<j>>, <<i>>, verdict[<<i, j>>].operation)
           d == Change(Span(j + 1, original_pos), Span(i + 1, modified_pos), "CHANGE")
<1>1. /\ i \in Nat /\ j \in Nat /\ <<i, j>> \in Pairs
      /\ original_pos \in Int /\ modified_pos \in Int /\ j <= original_pos /\ i <= modified_pos
      /\ changes \in Seq(ListedChanges)
  BY StepBack DEF Walking, Cursors, Tiling, Marked, Pairs
<1>2. verdict[<<i, j>>].operation \in {"NONE", "MATCH", "CONVERT", "NEST"}
  <2>1. verdict[<<i, j>>] \in Verdicts
    BY <1>1 DEF Walking
  <2> QED BY <2>1, VerdictsAssumption
<1>3. /\ c \in ListedChanges /\ c.original = <<j>> /\ c.modified = <<i>>
  <2>1. <<j>> \in Seq(Nat) /\ <<i>> \in Seq(Nat) /\ <<j>> # <<>>
    BY <1>1
  <2> QED BY <1>2, <2>1 DEF Change, ListedChanges
<1>4. /\ Span(j + 1, original_pos) \in Seq(Nat) /\ Span(i + 1, modified_pos) \in Seq(Nat)
      /\ original_pos > j <=> Span(j + 1, original_pos) # <<>>
      /\ modified_pos > i <=> Span(i + 1, modified_pos) # <<>>
  <2>1. /\ j + 1 \in Nat /\ original_pos >= -1
        /\ original_pos > j <=> ~ (original_pos < j + 1)
    BY <1>1
  <2>2. /\ i + 1 \in Nat /\ modified_pos >= -1
        /\ modified_pos > i <=> ~ (modified_pos < i + 1)
    BY <1>1
  <2>3. /\ Span(j + 1, original_pos) \in Seq(Nat)
        /\ Span(j + 1, original_pos) # <<>> <=> original_pos > j
    BY <2>1, <1>1, SpanEmpty
  <2>4. /\ Span(i + 1, modified_pos) \in Seq(Nat)
        /\ Span(i + 1, modified_pos) # <<>> <=> modified_pos > i
    BY <2>2, <1>1, SpanEmpty
  <2> QED BY <2>3, <2>4
<1>5. \/ d \in ListedChanges /\ Gap(i, j) = <<d>>
      \/ /\ Gap(i, j) = <<>>
         /\ Span(j + 1, original_pos) = <<>> /\ Span(i + 1, modified_pos) = <<>>
  <2>1. CASE original_pos > j \/ modified_pos > i
    BY <2>1, <1>4 DEF Change, ListedChanges, Gap
  <2>2. CASE ~ (original_pos > j \/ modified_pos > i)
    BY <2>2, <1>4 DEF Gap
  <2> QED BY <2>1, <2>2
<1> HIDE DEF c, d
<1>6. Gap(i, j) \in Seq(ListedChanges)
  <2>1. CASE d \in ListedChanges /\ Gap(i, j) = <<d>>
    BY <2>1
  <2>2. CASE Gap(i, j) = <<>>
    BY <2>2, EmptySeq
  <2> QED BY <1>5, <2>1, <2>2
<1>7. <<c>> \o Gap(i, j) \o changes = <<c>> \o (Gap(i, j) \o changes)
  <2>1. <<c>> \in Seq(ListedChanges) /\ changes \in Seq(ListedChanges)
    BY <1>1, <1>3
  <2>2. \A x, y, z \in Seq(ListedChanges) : (x \o y) \o z = x \o (y \o z)
    <3>1. Associative(ListedChanges)
      BY Associates
    <3> QED BY ONLY <3>1 DEF Associative
  <2> QED BY <2>1, <2>2, <1>6
<1>8. Gap(i, j) \o changes \in Seq(ListedChanges)
  BY <1>1, <1>6, ConcatProperties
<1>9. Gap(i, j) = <<>> => Gap(i, j) \o changes = changes
  BY <1>1, ConcatEmptySeq
<1> QED BY <1>1, <1>3, <1>5, <1>7, <1>8, <1>9 DEF c, d

LEMMA GapListed ==
  ASSUME Walking, Walk, Marked(i, j)
  PROVE  LET new == <<Change(<<j>>, <<i>>, verdict[<<i, j>>].operation)>> \o Gap(i, j) \o changes
         IN  /\ new \in Seq(ListedChanges)
             /\ AllOriginals(new) = <<j>> \o (Span(j + 1, original_pos) \o AllOriginals(changes))
             /\ AllModifieds(new) = <<i>> \o (Span(i + 1, modified_pos) \o AllModifieds(changes))
<1> DEFINE c == Change(<<j>>, <<i>>, verdict[<<i, j>>].operation)
           d == Change(Span(j + 1, original_pos), Span(i + 1, modified_pos), "CHANGE")
           more == Gap(i, j) \o changes
<1>1. /\ c \in ListedChanges
      /\ <<c>> \o Gap(i, j) \o changes = <<c>> \o more
      /\ more \in Seq(ListedChanges) /\ changes \in Seq(ListedChanges)
      /\ \/ d \in ListedChanges /\ more = <<d>> \o changes
         \/ /\ more = changes
            /\ Span(j + 1, original_pos) = <<>> /\ Span(i + 1, modified_pos) = <<>>
  BY MatchListed
<1>2. /\ c.original = <<j>> /\ c.modified = <<i>>
      /\ d.original = Span(j + 1, original_pos) /\ d.modified = Span(i + 1, modified_pos)
  BY DEF Change
<1> HIDE DEF c, d, more
<1>3. /\ AllOriginals(more) = Span(j + 1, original_pos) \o AllOriginals(changes)
      /\ AllModifieds(more) = Span(i + 1, modified_pos) \o AllModifieds(changes)
  <2>1. CASE d \in ListedChanges /\ more = <<d>> \o changes
    <3>1. changes \in Seq(ListedChanges)
      BY <1>1
    <3>2. /\ AllOriginals(<<d>> \o changes) = d.original \o AllOriginals(changes)
          /\ AllModifieds(<<d>> \o changes) = d.modified \o AllModifieds(changes)
      BY <2>1, <3>1, PartsCons
    <3> QED BY <2>1, <3>2, <1>2
  <2>2. CASE /\ more = changes
             /\ Span(j + 1, original_pos) = <<>> /\ Span(i + 1, modified_pos) = <<>>
    <3>1. AllOriginals(changes) \in Seq(Nat) /\ AllModifieds(changes) \in Seq(Nat)
      BY <1>1, PartsTyped
    <3>2. /\ <<>> \o AllOriginals(changes) = AllOriginals(changes)
          /\ <<>> \o AllModifieds(changes) = AllModifieds(changes)
      BY <3>1, ConcatEmptySeq
    <3> QED BY <2>2, <3>2
  <2> QED BY <1>1, <2>1, <2>2
<1>4. /\ <<c>> \o more \in Seq(ListedChanges)
      /\ AllOriginals(<<c>> \o more) = c.original \o AllOriginals(more)
      /\ AllModifieds(<<c>> \o more) = c.modified \o AllModifieds(more)
  BY <1>1, PartsCons
<1> QED BY <1>1, <1>2, <1>3, <1>4 DEF c

LEMMA WalkMarked ==
  ASSUME Walking, Walk, Marked(i, j) PROVE Walking'
<1>1. /\ phase' = phase /\ differences' = differences /\ verdict' = verdict /\ UNCHANGED input
      /\ olist' = olist \cup {j} /\ nlist' = nlist \cup {i}
      /\ original_pos' = j - 1 /\ modified_pos' = i - 1 /\ phase = "walk"
      /\ changes' = <<Change(<<j>>, <<i>>, verdict[<<i, j>>].operation)>> \o Gap(i, j) \o changes
  BY DEF Walk, input
<1>2. /\ j <= original_pos /\ i <= modified_pos /\ i \in Nat /\ j \in Nat
      /\ original_pos \in Int /\ modified_pos \in Int
      /\ i < ModifiedSize /\ j < OriginalSize
  BY StepBack DEF Walking, Cursors, Marked
<1>3. Cursors'
  <2>1. j' = j \/ j' <= j - 1
    BY StepBack
  <2>2. i' = i \/ i' <= i - 1
    BY StepBack
  <2>3. j' <= original_pos' \/ (j' = original_pos' + 1 /\ j' \in olist')
    BY <1>1, <1>2, <2>1, StepBack
  <2>4. i' <= modified_pos' \/ (i' = modified_pos' + 1 /\ i' \in nlist')
    BY <1>1, <1>2, <2>2, StepBack
  <2>5. i' < ModifiedSize /\ j' < OriginalSize
    BY <1>2, StepBack, SizesAssumption
  <2>6. /\ original_pos' \in Int /\ -1 <= original_pos' /\ original_pos' < OriginalSize
        /\ modified_pos' \in Int /\ -1 <= modified_pos' /\ modified_pos' < ModifiedSize
    BY <1>1, <1>2, SizesAssumption
  <2> QED BY <2>3, <2>4, <2>5, <2>6, StepBack DEF Cursors
<1>4. Tiling'
  <2>1. /\ changes' \in Seq(ListedChanges)
        /\ AllOriginals(changes') = <<j>> \o (Span(j + 1, original_pos) \o AllOriginals(changes))
        /\ AllModifieds(changes') = <<i>> \o (Span(i + 1, modified_pos) \o AllModifieds(changes))
    BY <1>1, GapListed
  <2>2. /\ Span(0, OriginalSize - 1) = Span(0, original_pos) \o AllOriginals(changes)
        /\ Span(0, ModifiedSize - 1) = Span(0, modified_pos) \o AllModifieds(changes)
    BY <1>1 DEF Walking, Tiling, Rest
  <2>3. AllOriginals(changes) \in Seq(Nat) /\ AllModifieds(changes) \in Seq(Nat)
    BY PartsTyped DEF Walking, Tiling
  <2>4. Span(0, OriginalSize - 1) = Span(0, j - 1) \o AllOriginals(changes')
    <3>1. ASSUME NEW rest \in Seq(Nat)
          PROVE  Span(0, original_pos) \o rest = Span(0, j - 1) \o (<<j>> \o (Span(j + 1, original_pos) \o rest))
      BY <1>2, SpanGap
    <3> QED BY <2>1, <2>2, <2>3, <3>1
  <2>5. Span(0, ModifiedSize - 1) = Span(0, i - 1) \o AllModifieds(changes')
    <3>1. ASSUME NEW rest \in Seq(Nat)
          PROVE  Span(0, modified_pos) \o rest = Span(0, i - 1) \o (<<i>> \o (Span(i + 1, modified_pos) \o rest))
      BY <1>2, SpanGap
    <3> QED BY <2>1, <2>2, <2>3, <3>1
  <2>6. /\ AllOriginals(changes)' = AllOriginals(changes') /\ AllModifieds(changes)' = AllModifieds(changes')
        /\ Rest(original_pos)' = Span(0, j - 1) /\ Rest(modified_pos)' = Span(0, i - 1)
    BY <1>1 DEF AllOriginals, AllModifieds, OriginalParts, ModifiedParts, Rest
  <2> QED BY <2>1, <2>4, <2>5, <2>6 DEF Tiling
<1>5. phase' # "fill" => differences' = Table'
  BY <1>1, TableKept DEF Walking
<1> QED BY <1>1, <1>3, <1>4, <1>5 DEF Walking, Pairs

LEMMA ReturnWalking ==
  ASSUME Walking, Return PROVE Walking'
<1>1. /\ phase = "walk" /\ phase' = "done" /\ i < 0 /\ j < 0
      /\ differences' = differences /\ verdict' = verdict /\ UNCHANGED input
      /\ i' = i /\ j' = j /\ olist' = olist /\ nlist' = nlist
      /\ original_pos' = original_pos /\ modified_pos' = modified_pos
  BY DEF Return, input, walk
<1>2. Cursors'
  BY <1>1 DEF Walking, Cursors
<1> DEFINE o == Span(0, original_pos)
           m == Span(0, modified_pos)
<1>3. /\ original_pos \in Int /\ -1 <= original_pos
      /\ modified_pos \in Int /\ -1 <= modified_pos
      /\ changes \in Seq(ListedChanges)
  BY DEF Walking, Cursors, Tiling
<1>4. /\ o \in Seq(Nat) /\ m \in Seq(Nat)
      /\ o = <<>> <=> original_pos < 0
      /\ m = <<>> <=> modified_pos < 0
  <2>1. original_pos >= -1 /\ modified_pos >= -1 /\ 0 \in Nat
    BY <1>3
  <2> QED BY <2>1, <1>3, SpanEmpty
<1>5. /\ Span(0, OriginalSize - 1) = o \o AllOriginals(changes)
      /\ Span(0, ModifiedSize - 1) = m \o AllModifieds(changes)
      /\ AllOriginals(changes) \in Seq(Nat) /\ AllModifieds(changes) \in Seq(Nat)
  BY <1>1, PartsTyped DEF Walking, Tiling, Rest
<1>6. /\ changes' \in Seq(ListedChanges)
      /\ AllOriginals(changes') = o \o AllOriginals(changes)
      /\ AllModifieds(changes') = m \o AllModifieds(changes)
  <2>1. CASE original_pos >= 0 \/ modified_pos >= 0
    <3> DEFINE c == Change(o, m, "CHANGE")
    <3>1. c \in ListedChanges /\ c.original = o /\ c.modified = m
      <4>1. o # <<>> \/ m # <<>>
        BY <2>1, <1>3, <1>4
      <4> HIDE DEF o, m
      <4> QED BY <4>1, <1>4 DEF Change, ListedChanges
    <3>2. changes' = <<c>> \o changes
      BY <2>1 DEF Return
    <3> HIDE DEF c, o, m
    <3> QED BY <3>1, <3>2, <1>3, PartsCons
  <2>2. CASE ~ (original_pos >= 0 \/ modified_pos >= 0)
    <3>1. changes' = changes /\ o = <<>> /\ m = <<>>
      BY <2>2, <1>3, <1>4 DEF Return
    <3> HIDE DEF o, m
    <3>2. /\ <<>> \o AllOriginals(changes) = AllOriginals(changes)
          /\ <<>> \o AllModifieds(changes) = AllModifieds(changes)
      BY <1>5, ConcatEmptySeq
    <3> QED BY <3>1, <3>2, <1>3
  <2> QED BY <2>1, <2>2
<1> HIDE DEF o, m
<1>7. AllOriginals(changes') \in Seq(Nat) /\ AllModifieds(changes') \in Seq(Nat)
  BY <1>4, <1>5, <1>6
<1>8. /\ AllOriginals(changes') = <<>> \o AllOriginals(changes')
      /\ AllModifieds(changes') = <<>> \o AllModifieds(changes')
  BY <1>7, ConcatEmptySeq
<1>9. /\ AllOriginals(changes)' = AllOriginals(changes') /\ AllModifieds(changes)' = AllModifieds(changes')
      /\ Rest(original_pos)' = <<>> /\ Rest(modified_pos)' = <<>>
  BY <1>1 DEF AllOriginals, AllModifieds, OriginalParts, ModifiedParts, Rest
<1>10. Tiling'
  BY <1>5, <1>6, <1>8, <1>9 DEF Tiling
<1>11. phase' # "fill" => differences' = Table'
  BY <1>1, TableKept DEF Walking
<1> QED BY <1>1, <1>2, <1>10, <1>11 DEF Walking, Pairs

LEMMA StutterWalking ==
  ASSUME Walking, UNCHANGED vars PROVE Walking'
<1>1. /\ changes' = changes /\ phase' = phase /\ differences' = differences /\ verdict' = verdict
      /\ olist' = olist /\ nlist' = nlist /\ i' = i /\ j' = j
      /\ original_pos' = original_pos /\ modified_pos' = modified_pos
      /\ UNCHANGED input
  BY DEF vars, input, walk
<1>2. Cursors'
  BY <1>1 DEF Walking, Cursors
<1>3. Tiling'
  BY <1>1 DEF Walking, Tiling, Rest, AllOriginals, AllModifieds, OriginalParts, ModifiedParts
<1>4. phase' # "fill" => differences' = Table'
  BY <1>1, TableKept DEF Walking
<1> QED BY <1>1, <1>2, <1>3, <1>4 DEF Walking, Pairs

\* Whatever the rules and the measurers say of the pairs, match_differences returns a list
\* that is the whole change: every construct once, in its order, no entry empty, and
\* the walk never leaves the table on one side alone.  (change_matcher.cpp:50-134)
THEOREM NothingLost == Spec => []ChangesTile
<1>1. ASSUME Walking, [Next]_vars PROVE Walking'
  <2>1. CASE Fill
    BY <1>1, <2>1, FillWalking
  <2>2. CASE Walk
    BY <1>1, <2>2, WalkMarked, WalkUnmarked
  <2>3. CASE Return
    BY <1>1, <2>3, ReturnWalking
  <2>4. CASE UNCHANGED vars
    BY <1>1, <2>4, StutterWalking
  <2> QED BY <1>1, <2>1, <2>2, <2>3, <2>4 DEF Next
<1> QED BY <1>1, InitWalking, WalkingTiles, PTL DEF Spec
-----------------------------------------------------------------------------
(***************************************************************************)
(* As few constructs as can be are left unmatched.                         *)
(***************************************************************************)
(***************************************************************************)
(* Twice the pairs a cell has matched: the constructs up to the cell that  *)
(* are not unmatched.                                                      *)
(***************************************************************************)
MatchedUpTo(m, o) ==
  IF m < 0 \/ o < 0 THEN 0 ELSE m + o + 2 - Table[<<m, o>>].num_unmatched

LEMMA UnmatchedType ==
  ASSUME NEW m, NEW o
  PROVE  Unmatched(m, o) \in {0, 2} /\ Unmatched(m, o) \in Int
BY DEF Unmatched

LEMMA MatchableMeans ==
  ASSUME NEW c \in Pairs
  PROVE  c \in Matchable <=> Unmatched(c[1], c[2]) = 0
BY DEF Matchable, Pairs

\* The value of an entry is at most that of each way to make it, and is one of them.
LEMMA BestUnmatched ==
  ASSUME NEW c, NEW d, c.num_unmatched \in Int, d.num_unmatched \in Int
  PROVE  /\ Best(c, d) \in {c, d}
         /\ Best(c, d).num_unmatched \in Int
         /\ Best(c, d).num_unmatched <= c.num_unmatched
         /\ Best(c, d).num_unmatched <= d.num_unmatched
BY DEF Best, Better

LEMMA AloneIs ==
  ASSUME NEW m \in Nat, NEW o \in Nat, NEW k
  PROVE  /\ Alone(m, o, k).num_unmatched = m + o + Unmatched(m, o)
         /\ Alone(m, o, k).num_unmatched \in Int
         /\ Alone(m, o, k).marked = (Unmatched(m, o) = 0)
         /\ Alone(m, o, k).direction = k
<1>1. Unmatched(m, o) \in Int
  BY UnmatchedType
<1> QED BY <1>1 DEF Alone, Cell

LEMMA BesideIs ==
  ASSUME NEW d, NEW k, d.num_unmatched \in Int
  PROVE  /\ Beside(d, k).num_unmatched = d.num_unmatched + 1
         /\ Beside(d, k).num_unmatched \in Int
         /\ Beside(d, k).marked = FALSE
         /\ Beside(d, k).direction = k
BY DEF Beside, Cell

LEMMA BelowIs ==
  ASSUME NEW m, NEW o, NEW d, d.num_unmatched \in Int
  PROVE  /\ Below(d, m, o).num_unmatched = d.num_unmatched + Unmatched(m, o)
         /\ Below(d, m, o).num_unmatched \in Int
         /\ Below(d, m, o).marked = (Unmatched(m, o) = 0)
         /\ Below(d, m, o).direction = 3
<1>1. Unmatched(m, o) \in Int
  BY UnmatchedType
<1> QED BY <1>1 DEF Below, Cell

LEMMA EntryUnmatchedType ==
  ASSUME NEW m \in Modified, NEW o \in Original, NEW T,
         o > 0 => T[<<m, o - 1>>].num_unmatched \in Int,
         m > 0 => T[<<m - 1, o>>].num_unmatched \in Int,
         m > 0 /\ o > 0 => T[<<m - 1, o - 1>>].num_unmatched \in Int
  PROVE  Entry(T, m, o).num_unmatched \in Int
<1>1. m \in Nat /\ o \in Nat /\ Unmatched(m, o) \in Int
  BY SizesAssumption, UnmatchedType DEF Modified, Original
<1> DEFINE left == Best(Beside(T[<<m, o - 1>>], 1), Alone(m, o, 1))
           up == Best(Beside(T[<<m - 1, o>>], 2), Alone(m, o, 2))
           below == Below(T[<<m - 1, o - 1>>], m, o)
<1>2. o > 0 => left.num_unmatched \in Int
  <2>1. o > 0 => /\ Beside(T[<<m, o - 1>>], 1).num_unmatched \in Int
                 /\ Alone(m, o, 1).num_unmatched \in Int
    BY <1>1, AloneIs, BesideIs
  <2> QED BY <2>1, BestUnmatched
<1>3. m > 0 => up.num_unmatched \in Int
  <2>1. m > 0 => /\ Beside(T[<<m - 1, o>>], 2).num_unmatched \in Int
                 /\ Alone(m, o, 2).num_unmatched \in Int
    BY <1>1, AloneIs, BesideIs
  <2> QED BY <2>1, BestUnmatched
<1>4. m > 0 /\ o > 0 => below.num_unmatched \in Int
  BY <1>1, BelowIs
<1>5. Alone(m, o, 0).num_unmatched \in Int
  BY <1>1, AloneIs
<1>6. Entry(T, m, o) = IF m = 0 /\ o = 0 THEN Alone(m, o, 0)
                       ELSE IF m = 0 THEN left
                       ELSE IF o = 0 THEN up
                       ELSE Best(Best(left, up), below)
  BY DEF Entry
<1> HIDE DEF left, up, below
<1>7. m > 0 /\ o > 0 => Best(Best(left, up), below).num_unmatched \in Int
  BY <1>2, <1>3, <1>4, BestUnmatched
<1> QED BY <1>1, <1>2, <1>3, <1>5, <1>6, <1>7

LEMMA TableUnmatchedType ==
  ASSUME NEW m \in Modified, NEW o \in Original
  PROVE  Table[<<m, o>>].num_unmatched \in Int
<1> DEFINE Bad == {n \in Nat : \E c \in Pairs : Index(c) = n /\ Table[c].num_unmatched \notin Int}
<1>1. Bad = {}
  <2> SUFFICES ASSUME Bad # {} PROVE FALSE
    OBVIOUS
  <2>1. PICK n \in Bad : \A k \in Bad : n <= k
    <3>1. Bad \subseteq Nat
      OBVIOUS
    <3> HIDE DEF Bad
    <3> QED BY <3>1, LeastElement
  <2>2. PICK c \in Pairs : n \in Nat /\ Index(c) = n /\ Table[c].num_unmatched \notin Int
    OBVIOUS
  <2>3. ASSUME NEW b \in Pairs, Index(b) < Index(c)
        PROVE  Table[b].num_unmatched \in Int
    <3>1. Index(b) \in Nat /\ Index(c) \in Nat
      BY CellType
    <3>2. Index(b) \notin Bad
      <4>1. ~ (n <= Index(b))
        BY <2>2, <2>3, <3>1
      <4> HIDE DEF Bad
      <4> QED BY <4>1, <2>1
    <3> QED BY <3>1, <3>2
  <2>4. c[1] \in Modified /\ c[2] \in Original /\ c = <<c[1], c[2]>>
    BY DEF Pairs
  <2> DEFINE p == c[1]
             q == c[2]
  <2>5. /\ p \in Modified /\ q \in Original /\ Index(<<p, q>>) = Index(c)
        /\ Table[c] = Entry(Table, p, q)
    BY <2>4, TableEntries
  <2> HIDE DEF p, q
  <2>6. /\ q > 0 => Table[<<p, q - 1>>].num_unmatched \in Int
        /\ p > 0 => Table[<<p - 1, q>>].num_unmatched \in Int
        /\ p > 0 /\ q > 0 => Table[<<p - 1, q - 1>>].num_unmatched \in Int
    BY <2>3, <2>5, Neighbours
  <2>7. Entry(Table, p, q).num_unmatched \in Int
    BY <2>5, <2>6, EntryUnmatchedType
  <2> QED BY <2>2, <2>5, <2>7
<1>2. <<m, o>> \in Pairs /\ Index(<<m, o>>) \in Nat
  BY Neighbours
<1>3. Index(<<m, o>>) \notin Bad
  BY <1>1
<1> QED BY <1>2, <1>3

\* An entry is no worse than each way to make it, and is one of them.
EntryBounds(T, m, o) ==
  LET e == Entry(T, m, o)
  IN  /\ e.num_unmatched <= m + o + Unmatched(m, o)
      /\ o > 0 => e.num_unmatched <= T[<<m, o - 1>>].num_unmatched + 1
      /\ m > 0 => e.num_unmatched <= T[<<m - 1, o>>].num_unmatched + 1
      /\ m > 0 /\ o > 0 => e.num_unmatched <= T[<<m - 1, o - 1>>].num_unmatched + Unmatched(m, o)

EntryWays(T, m, o) ==
  LET e == Entry(T, m, o)
  IN  \/ /\ e.num_unmatched = m + o + Unmatched(m, o)
         /\ e.marked = (Unmatched(m, o) = 0)
      \/ /\ o > 0 /\ e.direction = 1
         /\ e.num_unmatched = T[<<m, o - 1>>].num_unmatched + 1
         /\ e.marked = FALSE
      \/ /\ m > 0 /\ e.direction = 2
         /\ e.num_unmatched = T[<<m - 1, o>>].num_unmatched + 1
         /\ e.marked = FALSE
      \/ /\ m > 0 /\ o > 0 /\ e.direction = 3
         /\ e.num_unmatched = T[<<m - 1, o - 1>>].num_unmatched + Unmatched(m, o)
         /\ e.marked = (Unmatched(m, o) = 0)

LEMMA EntryOptimal ==
  ASSUME NEW m \in Modified, NEW o \in Original, NEW T,
         o > 0 => T[<<m, o - 1>>].num_unmatched \in Int,
         m > 0 => T[<<m - 1, o>>].num_unmatched \in Int,
         m > 0 /\ o > 0 => T[<<m - 1, o - 1>>].num_unmatched \in Int
  PROVE  EntryBounds(T, m, o) /\ EntryWays(T, m, o)
<1>1. m \in Nat /\ o \in Nat /\ Unmatched(m, o) \in Int
  BY SizesAssumption, UnmatchedType DEF Modified, Original
<1> DEFINE besideLeft == Beside(T[<<m, o - 1>>], 1)
           besideUp == Beside(T[<<m - 1, o>>], 2)
           aloneLeft == Alone(m, o, 1)
           aloneUp == Alone(m, o, 2)
           first == Alone(m, o, 0)
           left == Best(besideLeft, aloneLeft)
           up == Best(besideUp, aloneUp)
           below == Below(T[<<m - 1, o - 1>>], m, o)
           e == Entry(T, m, o)
           U == Unmatched(m, o)
<1>2. /\ aloneLeft.num_unmatched = m + o + U /\ aloneLeft.marked = (U = 0)
      /\ aloneUp.num_unmatched = m + o + U /\ aloneUp.marked = (U = 0)
      /\ first.num_unmatched = m + o + U /\ first.marked = (U = 0)
      /\ aloneLeft.num_unmatched \in Int /\ aloneUp.num_unmatched \in Int
  BY <1>1, AloneIs
<1>3. o > 0 => /\ besideLeft.num_unmatched = T[<<m, o - 1>>].num_unmatched + 1
               /\ besideLeft.num_unmatched \in Int
               /\ besideLeft.marked = FALSE /\ besideLeft.direction = 1
  BY BesideIs
<1>4. m > 0 => /\ besideUp.num_unmatched = T[<<m - 1, o>>].num_unmatched + 1
               /\ besideUp.num_unmatched \in Int
               /\ besideUp.marked = FALSE /\ besideUp.direction = 2
  BY BesideIs
<1>5. m > 0 /\ o > 0 => /\ below.num_unmatched = T[<<m - 1, o - 1>>].num_unmatched + U
                        /\ below.num_unmatched \in Int
                        /\ below.marked = (U = 0) /\ below.direction = 3
  BY BelowIs
<1>6. o > 0 => /\ left \in {besideLeft, aloneLeft} /\ left.num_unmatched \in Int
               /\ left.num_unmatched <= besideLeft.num_unmatched
               /\ left.num_unmatched <= aloneLeft.num_unmatched
  BY <1>2, <1>3, BestUnmatched
<1>7. m > 0 => /\ up \in {besideUp, aloneUp} /\ up.num_unmatched \in Int
               /\ up.num_unmatched <= besideUp.num_unmatched
               /\ up.num_unmatched <= aloneUp.num_unmatched
  BY <1>2, <1>4, BestUnmatched
<1>8. e = IF m = 0 /\ o = 0 THEN first
          ELSE IF m = 0 THEN left
          ELSE IF o = 0 THEN up
          ELSE Best(Best(left, up), below)
  BY DEF Entry
<1> HIDE DEF left, up, below, besideLeft, besideUp, aloneLeft, aloneUp, first, e
<1>9. m > 0 /\ o > 0 => /\ e \in {left, up, below} /\ e.num_unmatched \in Int
                        /\ e.num_unmatched <= left.num_unmatched
                        /\ e.num_unmatched <= up.num_unmatched
                        /\ e.num_unmatched <= below.num_unmatched
  <2>1. m > 0 /\ o > 0 => /\ Best(left, up) \in {left, up}
                          /\ Best(left, up).num_unmatched \in Int
                          /\ Best(left, up).num_unmatched <= left.num_unmatched
                          /\ Best(left, up).num_unmatched <= up.num_unmatched
    BY <1>6, <1>7, BestUnmatched
  <2> DEFINE b == Best(left, up)
  <2>2. e = Best(b, below) \/ ~ (m > 0 /\ o > 0)
    BY <1>1, <1>8
  <2>3. m > 0 /\ o > 0 => b.num_unmatched \in Int
    BY <2>1
  <2>4. m > 0 /\ o > 0 => /\ e \in {b, below} /\ e.num_unmatched \in Int
                          /\ e.num_unmatched <= b.num_unmatched
                          /\ e.num_unmatched <= below.num_unmatched
    <3> HIDE DEF b
    <3> QED BY <2>2, <2>3, <1>5, BestUnmatched
  <2>5. m > 0 /\ o > 0 => /\ b \in {left, up}
                          /\ b.num_unmatched <= left.num_unmatched
                          /\ b.num_unmatched <= up.num_unmatched
    BY <2>1
  <2> HIDE DEF b
  <2> QED BY <2>3, <2>4, <2>5, <1>6, <1>7
<1>10. CASE m = 0 /\ o = 0
  BY <1>10, <1>1, <1>2, <1>8 DEF EntryBounds, EntryWays, e
<1>11. CASE m = 0 /\ o > 0
  <2>1. e = left
    BY <1>8, <1>11
  <2> QED BY <2>1, <1>11, <1>1, <1>2, <1>3, <1>6 DEF EntryBounds, EntryWays, e
<1>12. CASE m > 0 /\ o = 0
  <2>1. e = up
    BY <1>8, <1>12
  <2> QED BY <2>1, <1>12, <1>1, <1>2, <1>4, <1>7 DEF EntryBounds, EntryWays, e
<1>13. CASE m > 0 /\ o > 0
  <2>1. EntryBounds(T, m, o)
    BY <1>13, <1>1, <1>2, <1>3, <1>4, <1>5, <1>6, <1>7, <1>9 DEF EntryBounds, e
  <2>2. EntryWays(T, m, o)
    BY <1>13, <1>1, <1>2, <1>3, <1>4, <1>5, <1>6, <1>7, <1>9 DEF EntryWays, e
  <2> QED BY <2>1, <2>2
<1> QED BY <1>1, <1>10, <1>11, <1>12, <1>13

\* What that says of the pairs matched up to a cell.
LEMMA MatchedBounds ==
  ASSUME NEW m \in Modified, NEW o \in Original
  PROVE  /\ MatchedUpTo(m, o) \in Int
         /\ MatchedUpTo(m, o) >= 2 - Unmatched(m, o)
         /\ MatchedUpTo(m, o) >= MatchedUpTo(m, o - 1)
         /\ MatchedUpTo(m, o) >= MatchedUpTo(m - 1, o)
         /\ MatchedUpTo(m, o) >= MatchedUpTo(m - 1, o - 1) + 2 - Unmatched(m, o)
         /\ MatchedUpTo(m, o - 1) \in Int /\ MatchedUpTo(m - 1, o) \in Int
         /\ MatchedUpTo(m - 1, o - 1) \in Int
<1>1. m \in Nat /\ o \in Nat /\ Unmatched(m, o) \in Int /\ Unmatched(m, o) <= 2
  BY SizesAssumption, UnmatchedType DEF Modified, Original
<1> DEFINE here == Table[<<m, o>>].num_unmatched
           left == Table[<<m, o - 1>>].num_unmatched
           up == Table[<<m - 1, o>>].num_unmatched
           before == Table[<<m - 1, o - 1>>].num_unmatched
           U == Unmatched(m, o)
<1>2. /\ here \in Int
      /\ o > 0 => left \in Int
      /\ m > 0 => up \in Int
      /\ m > 0 /\ o > 0 => before \in Int
  <2>1. /\ o > 0 => o - 1 \in Original
        /\ m > 0 => m - 1 \in Modified
    BY <1>1, SizesAssumption DEF Original, Modified
  <2> QED BY <2>1, TableUnmatchedType
<1>3. EntryBounds(Table, m, o) /\ EntryWays(Table, m, o)
  BY <1>2, EntryOptimal
<1>4. Table[<<m, o>>] = Entry(Table, m, o)
  BY TableEntries
<1>5. /\ MatchedUpTo(m, o) = m + o + 2 - here
      /\ MatchedUpTo(m, o - 1) = IF o > 0 THEN m + o + 1 - left ELSE 0
      /\ MatchedUpTo(m - 1, o) = IF m > 0 THEN m + o + 1 - up ELSE 0
      /\ MatchedUpTo(m - 1, o - 1) = IF m > 0 /\ o > 0 THEN m + o - before ELSE 0
  BY <1>1, <1>2 DEF MatchedUpTo
<1>6. /\ here <= m + o + U
      /\ o > 0 => here <= left + 1
      /\ m > 0 => here <= up + 1
      /\ m > 0 /\ o > 0 => here <= before + U
  BY <1>3, <1>4 DEF EntryBounds
<1> HIDE DEF here, left, up, before, U
<1> QED BY <1>1, <1>2, <1>5, <1>6 DEF U

LEMMA MatchedWays ==
  ASSUME NEW m \in Modified, NEW o \in Original
  PROVE  LET e == Table[<<m, o>>]
         IN  \/ /\ MatchedUpTo(m, o) = 2 - Unmatched(m, o)
                /\ e.marked = (Unmatched(m, o) = 0)
             \/ /\ e.direction = 1 /\ e.marked = FALSE
                /\ MatchedUpTo(m, o) = MatchedUpTo(m, o - 1)
             \/ /\ e.direction = 2 /\ e.marked = FALSE
                /\ MatchedUpTo(m, o) = MatchedUpTo(m - 1, o)
             \/ /\ e.direction = 3 /\ e.marked = (Unmatched(m, o) = 0)
                /\ MatchedUpTo(m, o) = MatchedUpTo(m - 1, o - 1) + 2 - Unmatched(m, o)
<1>1. m \in Nat /\ o \in Nat /\ Unmatched(m, o) \in Int /\ Unmatched(m, o) <= 2
  BY SizesAssumption, UnmatchedType DEF Modified, Original
<1> DEFINE here == Table[<<m, o>>].num_unmatched
           left == Table[<<m, o - 1>>].num_unmatched
           up == Table[<<m - 1, o>>].num_unmatched
           before == Table[<<m - 1, o - 1>>].num_unmatched
           U == Unmatched(m, o)
<1>2. /\ here \in Int
      /\ o > 0 => left \in Int
      /\ m > 0 => up \in Int
      /\ m > 0 /\ o > 0 => before \in Int
  <2>1. /\ o > 0 => o - 1 \in Original
        /\ m > 0 => m - 1 \in Modified
    BY <1>1, SizesAssumption DEF Original, Modified
  <2> QED BY <2>1, TableUnmatchedType
<1>3. EntryBounds(Table, m, o) /\ EntryWays(Table, m, o)
  BY <1>2, EntryOptimal
<1>4. Table[<<m, o>>] = Entry(Table, m, o)
  BY TableEntries
<1>5. /\ MatchedUpTo(m, o) = m + o + 2 - here
      /\ MatchedUpTo(m, o - 1) = IF o > 0 THEN m + o + 1 - left ELSE 0
      /\ MatchedUpTo(m - 1, o) = IF m > 0 THEN m + o + 1 - up ELSE 0
      /\ MatchedUpTo(m - 1, o - 1) = IF m > 0 /\ o > 0 THEN m + o - before ELSE 0
  BY <1>1, <1>2 DEF MatchedUpTo
<1> DEFINE e == Table[<<m, o>>]
<1>6. \/ here = m + o + U /\ e.marked = (U = 0)
      \/ o > 0 /\ e.direction = 1 /\ here = left + 1 /\ e.marked = FALSE
      \/ m > 0 /\ e.direction = 2 /\ here = up + 1 /\ e.marked = FALSE
      \/ m > 0 /\ o > 0 /\ e.direction = 3 /\ here = before + U /\ e.marked = (U = 0)
  BY <1>3, <1>4 DEF EntryWays
<1> HIDE DEF here, left, up, before, e
<1> QED BY <1>1, <1>2, <1>5, <1>6 DEF e
-----------------------------------------------------------------------------
(***************************************************************************)
(* Ways to match.                                                          *)
(***************************************************************************)
LEMMA MatchingIs ==
  ASSUME NEW M \in Matchings
  PROVE  /\ M \subseteq Matchable /\ M \subseteq Pairs
         /\ IsFiniteSet(M) /\ Cardinality(M) \in Nat
         /\ \A c, d \in M : c = d \/ (c[1] < d[1] /\ c[2] < d[2]) \/ (d[1] < c[1] /\ d[2] < c[2])
<1>1. M \subseteq Matchable /\ M \subseteq Pairs
  BY DEF Matchings, Matchable, Pairs
<1>2. IsFiniteSet(Modified) /\ IsFiniteSet(Original)
  BY FS_Interval, SizesAssumption DEF Modified, Original
<1>3. IsFiniteSet(Pairs)
  BY <1>2, FS_Product DEF Pairs
<1>4. IsFiniteSet(M)
  BY <1>1, <1>3, FS_Subset
<1>5. Cardinality(M) \in Nat
  BY <1>4, FS_CardinalityType
<1> QED BY <1>1, <1>4, <1>5 DEF Matchings

LEMMA MatchingWithout ==
  ASSUME NEW M \in Matchings, NEW c \in M
  PROVE  /\ M \ {c} \in Matchings
         /\ Cardinality(M) = Cardinality(M \ {c}) + 1
         /\ Cardinality(M \ {c}) \in Nat
<1>1. M \ {c} \in Matchings
  BY DEF Matchings
<1>2. Cardinality(M \ {c}) = Cardinality(M) - 1 /\ Cardinality(M) \in Nat
  BY FS_RemoveElement, MatchingIs
<1>3. Cardinality(M \ {c}) \in Nat
  BY <1>1, MatchingIs
<1> QED BY <1>1, <1>2, <1>3

\* A pair before all the others may be matched too.
LEMMA MatchingWith ==
  ASSUME NEW M \in Matchings, NEW c \in Matchable,
         \A d \in M : c[1] < d[1] /\ c[2] < d[2]
  PROVE  /\ M \cup {c} \in Matchings
         /\ Cardinality(M \cup {c}) = Cardinality(M) + 1
<1>1. c \in Pairs /\ c[1] \in Nat
  BY CellType DEF Matchable, Pairs
<1>2. c \notin M
  <2>1. ~ (c[1] < c[1])
    BY <1>1
  <2> QED BY <2>1
<1>3. Cardinality(M \cup {c}) = Cardinality(M) + 1
  BY <1>2, FS_AddElement, MatchingIs
<1>4. M \cup {c} \in Matchings
  BY DEF Matchings
<1> QED BY <1>3, <1>4

LEMMA NoPairsMatching ==
  {} \in Matchings /\ Cardinality({}) = 0
BY FS_EmptySet DEF Matchings

LEMMA OnePairMatching ==
  ASSUME NEW c \in Matchable
  PROVE  {c} \in Matchings /\ Cardinality({c}) = 1
BY FS_Singleton DEF Matchings

Within(M, m, o) == \A c \in M : c[1] <= m /\ c[2] <= o

\* No way to match the constructs up to a cell has more pairs than the cell.
LEMMA MatchingBound ==
  ASSUME NEW m \in Int, NEW o \in Int, m < ModifiedSize, o < OriginalSize,
         NEW M \in Matchings, Within(M, m, o)
  PROVE  2 * Cardinality(M) <= MatchedUpTo(m, o)
<1> DEFINE Exceeds(N, p, q) == Within(N, p, q) /\ ~ (2 * Cardinality(N) <= MatchedUpTo(p, q))
           Bad == {n \in Nat : \E c \in Pairs : Index(c) = n /\ \E N \in Matchings : Exceeds(N, c[1], c[2])}
<1>1. ASSUME NEW p \in Int, NEW q \in Int, p < 0 \/ q < 0,
             NEW N \in Matchings, Within(N, p, q)
      PROVE  2 * Cardinality(N) <= MatchedUpTo(p, q)
  <2>1. N = {}
    <3> SUFFICES ASSUME NEW c \in N PROVE FALSE
      OBVIOUS
    <3>1. c[1] \in Nat /\ c[2] \in Nat
      BY MatchingIs, CellType
    <3>2. c[1] <= p /\ c[2] <= q
      BY <1>1 DEF Within
    <3> QED BY <3>1, <3>2, <1>1
  <2>2. MatchedUpTo(p, q) = 0
    BY <1>1 DEF MatchedUpTo
  <2> QED BY <2>1, <2>2, NoPairsMatching
<1>2. Bad = {}
  <2> SUFFICES ASSUME Bad # {} PROVE FALSE
    OBVIOUS
  <2>1. PICK n \in Bad : \A k \in Bad : n <= k
    <3>1. Bad \subseteq Nat
      OBVIOUS
    <3> HIDE DEF Bad
    <3> QED BY <3>1, LeastElement
  <2>2. PICK cell \in Pairs : n \in Nat /\ Index(cell) = n /\ \E N \in Matchings : Exceeds(N, cell[1], cell[2])
    OBVIOUS
  <2>3. PICK N \in Matchings : Exceeds(N, cell[1], cell[2])
    BY <2>2
  <2>4. ASSUME NEW b \in Pairs, Index(b) < n, NEW L \in Matchings, Within(L, b[1], b[2])
        PROVE  2 * Cardinality(L) <= MatchedUpTo(b[1], b[2])
    <3>1. Index(b) \in Nat
      BY CellType
    <3>2. Index(b) \notin Bad
      <4>1. ~ (n <= Index(b))
        BY <2>2, <2>4, <3>1
      <4> HIDE DEF Bad
      <4> QED BY <4>1, <2>1
    <3> QED BY <3>1, <3>2, <2>4
  <2> HIDE DEF Bad
  <2> DEFINE p == cell[1]
             q == cell[2]
  <2>5. /\ p \in Modified /\ q \in Original /\ p \in Nat /\ q \in Nat /\ cell = <<p, q>>
        /\ Index(<<p, q>>) = n
    BY <2>2, CellType DEF Pairs
  <2>6. Within(N, p, q) /\ ~ (2 * Cardinality(N) <= MatchedUpTo(p, q)) /\ Cardinality(N) \in Nat
    BY <2>3, MatchingIs
  <2> HIDE DEF p, q
  <2>7. ASSUME NEW L \in Matchings
        PROVE  /\ Within(L, p, q - 1) => 2 * Cardinality(L) <= MatchedUpTo(p, q - 1)
               /\ Within(L, p - 1, q) => 2 * Cardinality(L) <= MatchedUpTo(p - 1, q)
               /\ Within(L, p - 1, q - 1) => 2 * Cardinality(L) <= MatchedUpTo(p - 1, q - 1)
    <3>1. Within(L, p, q - 1) => 2 * Cardinality(L) <= MatchedUpTo(p, q - 1)
      <4>1. CASE q > 0
        <5>1. <<p, q - 1>> \in Pairs /\ Index(<<p, q - 1>>) < n
          BY <4>1, <2>5, Neighbours
        <5> QED BY <5>1, <2>4
      <4>2. CASE q = 0
        BY <4>2, <2>5, <1>1
      <4> QED BY <4>1, <4>2, <2>5
    <3>2. Within(L, p - 1, q) => 2 * Cardinality(L) <= MatchedUpTo(p - 1, q)
      <4>1. CASE p > 0
        <5>1. <<p - 1, q>> \in Pairs /\ Index(<<p - 1, q>>) < n
          BY <4>1, <2>5, Neighbours
        <5> QED BY <5>1, <2>4
      <4>2. CASE p = 0
        BY <4>2, <2>5, <1>1
      <4> QED BY <4>1, <4>2, <2>5
    <3>3. Within(L, p - 1, q - 1) => 2 * Cardinality(L) <= MatchedUpTo(p - 1, q - 1)
      <4>1. CASE p > 0 /\ q > 0
        <5>1. <<p - 1, q - 1>> \in Pairs /\ Index(<<p - 1, q - 1>>) < n
          BY <4>1, <2>5, Neighbours
        <5> QED BY <5>1, <2>4
      <4>2. CASE p = 0 \/ q = 0
        BY <4>2, <2>5, <1>1
      <4> QED BY <4>1, <4>2, <2>5
    <3> QED BY <3>1, <3>2, <3>3
  <2>8. /\ MatchedUpTo(p, q) \in Int
        /\ MatchedUpTo(p, q - 1) \in Int /\ MatchedUpTo(p - 1, q) \in Int
        /\ MatchedUpTo(p - 1, q - 1) \in Int
        /\ MatchedUpTo(p, q) >= MatchedUpTo(p, q - 1)
        /\ MatchedUpTo(p, q) >= MatchedUpTo(p - 1, q)
        /\ MatchedUpTo(p, q) >= MatchedUpTo(p - 1, q - 1) + 2 - Unmatched(p, q)
    BY <2>5, MatchedBounds
  <2>9. ASSUME NEW c \in N
        PROVE  /\ c[1] \in Nat /\ c[2] \in Nat /\ c[1] <= p /\ c[2] <= q
               /\ c = <<c[1], c[2]>>
    BY <2>6, MatchingIs, CellType DEF Within
  <2>10. ~ Within(N, p, q - 1) /\ ~ Within(N, p - 1, q)
    <3>1. ~ (2 * Cardinality(N) <= MatchedUpTo(p, q - 1)) /\ ~ (2 * Cardinality(N) <= MatchedUpTo(p - 1, q))
      BY <2>6, <2>8
    <3> QED BY <3>1, <2>7
  <2>11. PICK c \in N : ~ (c[2] <= q - 1)
    BY <2>9, <2>10, <2>5 DEF Within
  <2>12. PICK d \in N : ~ (d[1] <= p - 1)
    BY <2>9, <2>10, <2>5 DEF Within
  <2>13. c[2] = q /\ d[1] = p
    BY <2>9, <2>11, <2>12, <2>5
  <2>14. c = d
    <3>1. ~ (d[1] < c[1]) /\ ~ (c[2] < d[2])
      BY <2>9, <2>13, <2>5
    <3> QED BY <3>1, MatchingIs
  <2>15. c = <<p, q>>
    BY <2>9, <2>13, <2>14
  <2>16. Unmatched(p, q) = 0
    BY <2>5, <2>15, MatchingIs, MatchableMeans
  <2>17. Within(N \ {c}, p - 1, q - 1)
    <3> SUFFICES ASSUME NEW b \in N, b # c PROVE b[1] <= p - 1 /\ b[2] <= q - 1
      BY DEF Within
    <3>1. (b[1] < c[1] /\ b[2] < c[2]) \/ (c[1] < b[1] /\ c[2] < b[2])
      BY MatchingIs
    <3>2. c[1] = p /\ c[2] = q
      BY <2>13, <2>14
    <3>3. b[1] \in Nat /\ b[2] \in Nat /\ b[1] <= p /\ b[2] <= q
      BY <2>9
    <3> QED BY <3>1, <3>2, <3>3, <2>5
  <2>18. /\ 2 * Cardinality(N \ {c}) <= MatchedUpTo(p - 1, q - 1)
         /\ Cardinality(N) = Cardinality(N \ {c}) + 1 /\ Cardinality(N \ {c}) \in Nat
    BY <2>7, <2>17, MatchingWithout
  <2> DEFINE size == Cardinality(N)
             rest == Cardinality(N \ {c})
             here == MatchedUpTo(p, q)
             before == MatchedUpTo(p - 1, q - 1)
  <2>19. /\ here \in Int /\ before \in Int /\ size \in Nat /\ rest \in Nat
         /\ here >= before + 2 - 0 /\ 2 * rest <= before /\ size = rest + 1
         /\ ~ (2 * size <= here)
    BY <2>6, <2>8, <2>16, <2>18
  <2> HIDE DEF size, rest, here, before
  <2> QED BY <2>19
<1>3. CASE m < 0 \/ o < 0
  BY <1>1, <1>3
<1>4. CASE m >= 0 /\ o >= 0
  <2>1. <<m, o>> \in Pairs /\ Index(<<m, o>>) \in Nat
    <3>1. m \in Modified /\ o \in Original
      BY <1>4, SizesAssumption DEF Modified, Original
    <3> QED BY <3>1, Neighbours
  <2>2. Index(<<m, o>>) \notin Bad
    BY <1>2
  <2>3. <<m, o>>[1] = m /\ <<m, o>>[2] = o
    OBVIOUS
  <2>4. ~ Exceeds(M, m, o)
    BY <2>1, <2>2, <2>3
  <2> QED BY <2>4
<1> QED BY <1>3, <1>4
-----------------------------------------------------------------------------
(***************************************************************************)
(* The pairs of the list.                                                  *)
(***************************************************************************)
PairsOf(cs) ==
  {<<cs[n].modified[1], cs[n].original[1]>> : n \in {n \in DOMAIN cs : cs[n].operation # "CHANGE"}}

LEMMA PairsOfCons ==
  ASSUME NEW cs \in Seq(ListedChanges), NEW c \in ListedChanges
  PROVE  PairsOf(<<c>> \o cs) =
           PairsOf(cs) \cup (IF c.operation = "CHANGE" THEN {} ELSE {<<c.modified[1], c.original[1]>>})
<1> DEFINE ds == <<c>> \o cs
<1>1. /\ Len(cs) \in Nat /\ DOMAIN cs = 1 .. Len(cs) /\ DOMAIN ds = 1 .. Len(cs) + 1
      /\ ds[1] = c /\ \A n \in 1 .. Len(cs) : ds[n + 1] = cs[n]
  OBVIOUS
<1> HIDE DEF ds
<1>2. ASSUME NEW p \in PairsOf(ds)
      PROVE  p \in PairsOf(cs) \/ (c.operation # "CHANGE" /\ p = <<c.modified[1], c.original[1]>>)
  <2>1. PICK n \in 1 .. Len(cs) + 1 :
          ds[n].operation # "CHANGE" /\ p = <<ds[n].modified[1], ds[n].original[1]>>
    BY <1>1 DEF PairsOf
  <2>2. CASE n = 1
    BY <2>1, <2>2, <1>1
  <2>3. CASE n # 1
    <3>1. n - 1 \in 1 .. Len(cs) /\ (n - 1) + 1 = n
      BY <2>3, <1>1
    <3>2. ds[n] = cs[n - 1]
      BY <3>1, <1>1
    <3> QED BY <2>1, <3>1, <3>2, <1>1 DEF PairsOf
  <2> QED BY <2>2, <2>3
<1>3. ASSUME NEW p \in PairsOf(cs) PROVE p \in PairsOf(ds)
  <2>1. PICK n \in 1 .. Len(cs) :
          cs[n].operation # "CHANGE" /\ p = <<cs[n].modified[1], cs[n].original[1]>>
    BY <1>1 DEF PairsOf
  <2>2. n + 1 \in 1 .. Len(cs) + 1 /\ ds[n + 1] = cs[n]
    BY <1>1
  <2> QED BY <2>1, <2>2, <1>1 DEF PairsOf
<1>4. c.operation # "CHANGE" => <<c.modified[1], c.original[1]>> \in PairsOf(ds)
  <2>1. 1 \in 1 .. Len(cs) + 1
    BY <1>1
  <2> QED BY <2>1, <1>1 DEF PairsOf
<1> QED BY <1>2, <1>3, <1>4 DEF ds

LEMMA PairsOfNothing == PairsOf(<<>>) = {}
BY DEF PairsOf

LEMMA PairsListed == MatchedPairs = PairsOf(changes)
BY DEF MatchedPairs, PairsOf

\* A step of the walk lists the pair of its cell if it is marked.
LEMMA WalkLists ==
  ASSUME Walking, Walk
  PROVE  MatchedPairs' = IF Marked(i, j) THEN MatchedPairs \cup {<<i, j>>} ELSE MatchedPairs
<1>1. CASE ~ Marked(i, j)
  <2>1. changes' = changes
    BY <1>1 DEF Walk
  <2> QED BY <1>1, <2>1 DEF MatchedPairs
<1>2. CASE Marked(i, j)
  <2> DEFINE c == Change(<<j>>, <<i>>, verdict[<<i, j>>].operation)
             d == Change(Span(j + 1, original_pos), Span(i + 1, modified_pos), "CHANGE")
             more == Gap(i, j) \o changes
  <2>1. /\ c \in ListedChanges
        /\ <<c>> \o Gap(i, j) \o changes = <<c>> \o more
        /\ more \in Seq(ListedChanges) /\ changes \in Seq(ListedChanges)
        /\ (d \in ListedChanges /\ more = <<d>> \o changes) \/ more = changes
    BY <1>2, MatchListed
  <2>2. changes' = <<c>> \o Gap(i, j) \o changes
    BY <1>2 DEF Walk
  <2>3. <<i, j>> \in Pairs
    BY StepBack DEF Pairs
  <2>4. verdict[<<i, j>>].operation # "CHANGE"
    BY <2>3, VerdictsAssumption DEF Walking
  <2>5. /\ c.modified[1] = i /\ c.original[1] = j /\ c.operation # "CHANGE"
        /\ d.operation = "CHANGE"
    BY <2>4 DEF Change
  <2> HIDE DEF c, d, more
  <2>6. PairsOf(more) = PairsOf(changes)
    <3>1. CASE d \in ListedChanges /\ more = <<d>> \o changes
      <4>1. PairsOf(<<d>> \o changes) = PairsOf(changes) \cup {}
        BY <3>1, <2>1, <2>5, PairsOfCons
      <4> QED BY <3>1, <4>1
    <3>2. CASE more = changes
      BY <3>2
    <3> QED BY <2>1, <3>1, <3>2
  <2>7. PairsOf(<<c>> \o more) = PairsOf(more) \cup {<<i, j>>}
    BY <2>1, <2>5, PairsOfCons
  <2>8. PairsOf(changes') = PairsOf(changes) \cup {<<i, j>>}
    BY <2>1, <2>2, <2>6, <2>7
  <2>9. MatchedPairs' = PairsOf(changes')
    BY DEF MatchedPairs, PairsOf
  <2> QED BY <1>2, <2>8, <2>9, PairsListed
<1> QED BY <1>1, <1>2

\* The last step lists no pair.
LEMMA ReturnLists ==
  ASSUME Walking, Return
  PROVE  MatchedPairs' = MatchedPairs
<1>1. changes \in Seq(ListedChanges) /\ changes' \in Seq(ListedChanges)
  BY ReturnWalking DEF Walking, Tiling
<1>2. CASE original_pos >= 0 \/ modified_pos >= 0
  <2> DEFINE c == Change(Span(0, original_pos), Span(0, modified_pos), "CHANGE")
  <2>1. changes' = <<c>> \o changes
    BY <1>2 DEF Return
  <2>2. c \in ListedChanges
    <3>1. changes'[1] = c /\ 1 \in DOMAIN changes'
      BY <1>1, <2>1
    <3> HIDE DEF c
    <3> QED BY <1>1, <3>1
  <2>3. c.operation = "CHANGE"
    BY DEF Change
  <2> HIDE DEF c
  <2>4. PairsOf(changes') = PairsOf(changes)
    BY <1>1, <2>1, <2>2, <2>3, PairsOfCons
  <2>5. MatchedPairs' = PairsOf(changes')
    BY DEF MatchedPairs, PairsOf
  <2> QED BY <2>4, <2>5, PairsListed
<1>3. CASE ~ (original_pos >= 0 \/ modified_pos >= 0)
  <2>1. changes' = changes
    BY <1>3 DEF Return
  <2> QED BY <2>1 DEF MatchedPairs
<1> QED BY <1>2, <1>3
-----------------------------------------------------------------------------
(***************************************************************************)
(* The walk.  At every cell there is a set of matched pairs beyond it, of  *)
(* which the list has those that do not nest, and which the pairs up to    *)
(* the cell would complete to as many as there can be (GoesOn); or it has  *)
(* as many already, and what is left to walk lists nothing (Settled):      *)
(* that is so once a pair was matched whose entry forgot all before it.    *)
(***************************************************************************)
MostTwice == MatchedUpTo(ModifiedSize - 1, OriginalSize - 1)

Agrees(P, M) == M \in Matchings /\ P = {c \in M : verdict[c].operation # "NEST"}

GoesOn(P, m, o) ==
  \E M \in Matchings :
    /\ Agrees(P, M)
    /\ \A c \in M : m < c[1] /\ o < c[2]
    /\ 2 * Cardinality(M) + MatchedUpTo(m, o) = MostTwice

Settled(P, m, o, news, olds) ==
  /\ \E M \in Matchings : Agrees(P, M) /\ 2 * Cardinality(M) = MostTwice
  /\ \A c \in Matchable :
       c[1] <= m /\ c[2] <= o =>
         verdict[c].operation = "NEST" \/ c[1] \in news \/ c[2] \in olds

Listed(P, news, olds) == news = {c[1] : c \in P} /\ olds = {c[2] : c \in P}

\* How a step moves on, and what its cell has matched.
LEMMA StepCases ==
  ASSUME Walking, Walk
  PROVE  LET e == Table[<<i, j>>]
         IN  /\ Marked(i, j) <=> /\ e.marked /\ verdict[<<i, j>>].operation # "NEST"
                                 /\ j \notin olist /\ i \notin nlist
             /\ e.direction = 1 => i' = i /\ j' = j - 1
             /\ e.direction = 2 => i' = i - 1 /\ j' = j
             /\ e.direction = 3 => i' = i - 1 /\ j' = j - 1
             /\ \/ i' = i /\ j' = j - 1
                \/ i' = i - 1 /\ j' = j
                \/ i' = i - 1 /\ j' = j - 1
<1>1. differences = Table
  BY DEF Walking, Walk
<1> DEFINE back == Back(Table[<<i, j>>].direction)
<1>2. i' = i - back[1] /\ j' = j - back[2] /\ i \in Nat /\ j \in Nat
  BY <1>1, StepBack DEF Walk
<1>3. /\ Table[<<i, j>>].direction = 1 => back = <<0, 1>>
      /\ Table[<<i, j>>].direction = 2 => back = <<1, 0>>
      /\ Table[<<i, j>>].direction = 3 => back = <<1, 1>>
      /\ back \in {<<0, 1>>, <<1, 0>>, <<1, 1>>}
  BY DEF Back
<1> HIDE DEF back
<1>4. /\ back = <<0, 1>> => i' = i /\ j' = j - 1
      /\ back = <<1, 0>> => i' = i - 1 /\ j' = j
      /\ back = <<1, 1>> => i' = i - 1 /\ j' = j - 1
  BY <1>2
<1>5. Marked(i, j) <=> /\ Table[<<i, j>>].marked /\ verdict[<<i, j>>].operation # "NEST"
                       /\ j \notin olist /\ i \notin nlist
  BY <1>1 DEF Marked
<1> QED BY <1>3, <1>4, <1>5

LEMMA StepMatched ==
  ASSUME Walking, Walk
  PROVE  /\ MatchedUpTo(i, j) \in Int /\ MatchedUpTo(i', j') \in Int
         /\ 0 <= MatchedUpTo(i', j') /\ MatchedUpTo(i', j') <= MatchedUpTo(i, j)
         /\ <<i, j>> \in Pairs
         /\ <<i, j>> \in Matchable <=> Unmatched(i, j) = 0
<1>1. i \in Modified /\ j \in Original /\ <<i, j>> \in Pairs
  BY StepBack DEF Pairs
<1>2. /\ MatchedUpTo(i, j) \in Int
      /\ MatchedUpTo(i, j) >= MatchedUpTo(i, j - 1)
      /\ MatchedUpTo(i, j) >= MatchedUpTo(i - 1, j)
      /\ MatchedUpTo(i, j) >= MatchedUpTo(i - 1, j - 1) + 2 - Unmatched(i, j)
      /\ MatchedUpTo(i, j - 1) \in Int /\ MatchedUpTo(i - 1, j) \in Int
      /\ MatchedUpTo(i - 1, j - 1) \in Int
  BY <1>1, MatchedBounds
<1>3. Unmatched(i, j) \in Int /\ Unmatched(i, j) <= 2
  BY UnmatchedType
<1>4. MatchedUpTo(i', j') \in Int /\ MatchedUpTo(i', j') <= MatchedUpTo(i, j)
  <2>1. CASE i' = i /\ j' = j - 1
    BY <2>1, <1>2
  <2>2. CASE i' = i - 1 /\ j' = j
    BY <2>2, <1>2
  <2>3. CASE i' = i - 1 /\ j' = j - 1
    BY <2>3, <1>2, <1>3
  <2> QED BY <2>1, <2>2, <2>3, StepCases
<1>5. 0 <= MatchedUpTo(i', j')
  <2>1. /\ i' \in Int /\ j' \in Int /\ i' < ModifiedSize /\ j' < OriginalSize
    BY <1>1, StepBack, SizesAssumption DEF Modified, Original
  <2>2. Within({}, i', j')
    BY DEF Within
  <2>3. 2 * Cardinality({}) <= MatchedUpTo(i', j')
    BY <2>1, <2>2, MatchingBound, NoPairsMatching
  <2> QED BY <2>3, NoPairsMatching
<1>6. <<i, j>>[1] = i /\ <<i, j>>[2] = j
  OBVIOUS
<1> QED BY <1>1, <1>2, <1>4, <1>5, <1>6, MatchableMeans

\* Where nothing is left to list, the walk lists nothing.
LEMMA SettledStays ==
  ASSUME Walking, Walk, Settled(MatchedPairs, i, j, nlist, olist)
  PROVE  ~ Marked(i, j) /\ Settled(MatchedPairs, i', j', nlist, olist)
<1>1. ~ Marked(i, j)
  <2> SUFFICES ASSUME Marked(i, j) PROVE FALSE
    OBVIOUS
  <2>1. /\ Table[<<i, j>>].marked /\ verdict[<<i, j>>].operation # "NEST"
        /\ j \notin olist /\ i \notin nlist
    BY StepCases
  <2>2. i \in Modified /\ j \in Original
    BY StepBack
  <2>3. Unmatched(i, j) = 0
    BY <2>1, <2>2, MatchedWays
  <2>4. <<i, j>> \in Matchable /\ i <= i /\ j <= j
    BY <2>3, StepMatched, StepBack
  <2>5. <<i, j>>[1] = i /\ <<i, j>>[2] = j
    OBVIOUS
  <2> QED BY <2>1, <2>4, <2>5 DEF Settled
<1>2. ASSUME NEW c \in Matchable, c[1] <= i', c[2] <= j'
      PROVE  c[1] <= i /\ c[2] <= j
  <2>1. c[1] \in Nat /\ c[2] \in Nat
    BY CellType DEF Matchable, Pairs
  <2> QED BY <2>1, <1>2, StepBack
<1> QED BY <1>1, <1>2 DEF Settled

LEMMA GoesOnOrSettles ==
  ASSUME Walking, Walk, Listed(MatchedPairs, nlist, olist), GoesOn(MatchedPairs, i, j)
  PROVE  \/ GoesOn(MatchedPairs', i', j')
         \/ Settled(MatchedPairs', i', j', nlist', olist')
<1> DEFINE e == Table[<<i, j>>]
           c == <<i, j>>
           U == Unmatched(i, j)
<1>1. PICK M \in Matchings :
        /\ Agrees(MatchedPairs, M)
        /\ \A b \in M : i < b[1] /\ j < b[2]
        /\ 2 * Cardinality(M) + MatchedUpTo(i, j) = MostTwice
  BY DEF GoesOn
<1>2. /\ i \in Modified /\ j \in Original /\ i \in Nat /\ j \in Nat
      /\ i' \in Int /\ j' \in Int /\ i' <= i /\ j' <= j
  BY StepBack
<1>3. i \notin nlist /\ j \notin olist
  <2>1. ASSUME NEW b \in MatchedPairs PROVE i < b[1] /\ j < b[2]
    BY <1>1 DEF Agrees
  <2>2. ~ (i < i) /\ ~ (j < j)
    BY <1>2
  <2> QED BY <2>1, <2>2 DEF Listed
<1>4. /\ Marked(i, j) <=> e.marked /\ verdict[c].operation # "NEST"
      /\ e.direction = 1 => i' = i /\ j' = j - 1
      /\ e.direction = 2 => i' = i - 1 /\ j' = j
      /\ e.direction = 3 => i' = i - 1 /\ j' = j - 1
      /\ \/ i' = i /\ j' = j - 1
         \/ i' = i - 1 /\ j' = j
         \/ i' = i - 1 /\ j' = j - 1
  BY <1>3, StepCases
<1>5. /\ MatchedUpTo(i, j) \in Int /\ MatchedUpTo(i', j') \in Int
      /\ 0 <= MatchedUpTo(i', j') /\ MatchedUpTo(i', j') <= MatchedUpTo(i, j)
      /\ c \in Pairs /\ (c \in Matchable <=> U = 0) /\ U \in {0, 2}
  BY StepMatched, UnmatchedType
<1>6. \/ MatchedUpTo(i, j) = 2 - U /\ e.marked = (U = 0)
      \/ e.direction = 1 /\ e.marked = FALSE /\ MatchedUpTo(i, j) = MatchedUpTo(i, j - 1)
      \/ e.direction = 2 /\ e.marked = FALSE /\ MatchedUpTo(i, j) = MatchedUpTo(i - 1, j)
      \/ /\ e.direction = 3 /\ e.marked = (U = 0)
         /\ MatchedUpTo(i, j) = MatchedUpTo(i - 1, j - 1) + 2 - U
  BY <1>2, MatchedWays
<1>7. MatchedPairs' = IF Marked(i, j) THEN MatchedPairs \cup {c} ELSE MatchedPairs
  BY WalkLists
<1>8. ASSUME NEW b \in M PROVE i' < b[1] /\ j' < b[2]
  <2>1. b[1] \in Nat /\ b[2] \in Nat /\ i < b[1] /\ j < b[2]
    BY <1>1, MatchingIs, CellType
  <2> QED BY <2>1, <1>2
<1> HIDE DEF e, U
<1>9. CASE ~ e.marked
  <2>1. MatchedUpTo(i', j') = MatchedUpTo(i, j)
    <3>1. CASE MatchedUpTo(i, j) = 2 - U /\ U # 0
      BY <3>1, <1>5
    <3>2. CASE e.direction = 1 /\ MatchedUpTo(i, j) = MatchedUpTo(i, j - 1)
      BY <3>2, <1>4
    <3>3. CASE e.direction = 2 /\ MatchedUpTo(i, j) = MatchedUpTo(i - 1, j)
      BY <3>3, <1>4
    <3>4. CASE e.direction = 3 /\ MatchedUpTo(i, j) = MatchedUpTo(i - 1, j - 1) + 2 - U /\ U # 0
      <4>1. MatchedUpTo(i, j) = MatchedUpTo(i', j') + 2 - U /\ U = 2
        BY <3>4, <1>4, <1>5
      <4> QED BY <4>1, <1>5
    <3> QED BY <1>6, <1>9, <3>1, <3>2, <3>3, <3>4
  <2>2. MatchedPairs' = MatchedPairs
    BY <1>4, <1>7, <1>9
  <2> QED BY <2>1, <2>2, <1>1, <1>8 DEF GoesOn
<1>10. CASE e.marked
  <2> DEFINE N == M \cup {c}
  <2>1. /\ U = 0 /\ c \in Matchable
        /\ \/ MatchedUpTo(i, j) = 2
           \/ i' = i - 1 /\ j' = j - 1 /\ MatchedUpTo(i, j) = MatchedUpTo(i', j') + 2
    <3>1. U = 0
      BY <1>6, <1>10
    <3>2. \/ MatchedUpTo(i, j) = 2 - U
          \/ e.direction = 3 /\ MatchedUpTo(i, j) = MatchedUpTo(i - 1, j - 1) + 2 - U
      BY <1>6, <1>10
    <3>3. e.direction = 3 => MatchedUpTo(i - 1, j - 1) = MatchedUpTo(i', j')
      BY <1>4
    <3> QED BY <3>1, <3>2, <3>3, <1>4, <1>5
  <2>2. N \in Matchings /\ Cardinality(N) = Cardinality(M) + 1 /\ Cardinality(M) \in Nat
    <3>1. \A b \in M : c[1] < b[1] /\ c[2] < b[2]
      BY <1>1
    <3>2. N \in Matchings /\ Cardinality(N) = Cardinality(M) + 1
      BY <2>1, <3>1, MatchingWith
    <3> QED BY <3>2, MatchingIs
  <2>3. Agrees(MatchedPairs', N)
    <3>1. MatchedPairs' = {b \in N : verdict[b].operation # "NEST"}
      BY <1>1, <1>4, <1>7, <1>10 DEF Agrees
    <3> QED BY <2>2, <3>1 DEF Agrees
  <2>4. c[1] = i /\ c[2] = j
    OBVIOUS
  <2>5. CASE i' = i - 1 /\ j' = j - 1 /\ MatchedUpTo(i, j) = MatchedUpTo(i', j') + 2
    <3>1. \A b \in N : i' < b[1] /\ j' < b[2]
      BY <1>2, <1>8, <2>4, <2>5
    <3> DEFINE size == Cardinality(N)
               before == Cardinality(M)
               here == MatchedUpTo(i, j)
               next == MatchedUpTo(i', j')
    <3>2. 2 * size + next = MostTwice
      <4>1. /\ size = before + 1 /\ before \in Nat /\ here = next + 2 /\ next \in Int
            /\ 2 * before + here = MostTwice
        BY <1>1, <1>5, <2>2, <2>5
      <4> HIDE DEF size, before, here, next
      <4> QED BY <4>1
    <3> QED BY <2>2, <2>3, <3>1, <3>2 DEF GoesOn
  <2>6. CASE MatchedUpTo(i, j) = 2
    <3> DEFINE size == Cardinality(N)
               before == Cardinality(M)
    <3>1. 2 * size = MostTwice
      <4>1. size = before + 1 /\ before \in Nat /\ 2 * before + 2 = MostTwice
        BY <1>1, <2>2, <2>6
      <4> HIDE DEF size, before
      <4> QED BY <4>1
    <3>2. CASE verdict[c].operation # "NEST"
      <4>1. nlist' = nlist \cup {i} /\ olist' = olist \cup {j}
        BY <1>4, <1>10, <3>2 DEF Walk
      <4>2. ASSUME NEW b \in Matchable, b[1] <= i', b[2] <= j'
            PROVE  b[1] \in nlist' \/ b[2] \in olist'
        <5>1. b \in Pairs /\ b[1] \in Nat /\ b[2] \in Nat
          BY CellType DEF Matchable, Pairs
        <5>2. SUFFICES ASSUME b[1] < c[1] /\ b[2] < c[2] PROVE FALSE
          BY <4>1, <4>2, <5>1, <1>2, <2>4
        <5>3. {c} \in Matchings /\ Cardinality({c}) = 1
          BY <2>1, OnePairMatching
        <5>4. {c} \cup {b} \in Matchings /\ Cardinality({c} \cup {b}) = 1 + 1
          BY <5>2, <5>3, MatchingWith
        <5>5. Within({c} \cup {b}, i, j)
          BY <5>1, <5>2, <1>2, <2>4 DEF Within
        <5>6. i \in Int /\ j \in Int /\ i < ModifiedSize /\ j < OriginalSize
          BY <1>2, SizesAssumption DEF Modified, Original
        <5>7. 2 * Cardinality({c} \cup {b}) <= MatchedUpTo(i, j)
          BY <5>4, <5>5, <5>6, MatchingBound
        <5> QED BY <5>4, <5>7, <2>6
      <4> QED BY <2>2, <2>3, <3>1, <4>2 DEF Settled
    <3>3. CASE verdict[c].operation = "NEST"
      <4>1. MatchedPairs' = MatchedPairs
        BY <1>4, <1>7, <3>3
      <4>2. CASE MatchedUpTo(i', j') = 2
        BY <4>1, <4>2, <1>1, <1>8, <2>6 DEF GoesOn
      <4>3. CASE MatchedUpTo(i', j') # 2
        <5>1. ASSUME NEW b \in Matchable, b[1] <= i', b[2] <= j'
              PROVE  FALSE
          <6>1. {b} \in Matchings /\ Cardinality({b}) = 1
            BY OnePairMatching
          <6>2. Within({b}, i', j')
            BY <5>1 DEF Within
          <6>3. i' < ModifiedSize /\ j' < OriginalSize
            BY <1>2, SizesAssumption DEF Modified, Original
          <6>4. 2 * Cardinality({b}) <= MatchedUpTo(i', j')
            BY <6>1, <6>2, <6>3, <1>2, MatchingBound
          <6> QED BY <6>1, <6>4, <4>3, <1>5, <2>6
        <5> QED BY <2>2, <2>3, <3>1, <5>1 DEF Settled
      <4> QED BY <4>2, <4>3
    <3> QED BY <3>2, <3>3
  <2> QED BY <2>1, <2>5, <2>6
<1> QED BY <1>9, <1>10
-----------------------------------------------------------------------------
Minimizing ==
  /\ Walking
  /\ Listed(MatchedPairs, nlist, olist)
  /\ GoesOn(MatchedPairs, i, j) \/ Settled(MatchedPairs, i, j, nlist, olist)
  /\ phase = "done" => i < 0 /\ j < 0

LEMMA InitMinimizing == Init => Minimizing
<1> SUFFICES ASSUME Init PROVE Minimizing
  OBVIOUS
<1>1. Walking
  BY InitWalking
<1>2. MatchedPairs = {}
  <2>1. changes = <<>>
    BY DEF Init
  <2> QED BY <2>1, PairsListed, PairsOfNothing
<1>3. Listed(MatchedPairs, nlist, olist)
  BY <1>2 DEF Listed, Init
<1>4. GoesOn(MatchedPairs, i, j)
  <2>1. MatchedUpTo(i, j) = MostTwice
    BY DEF Init, MostTwice
  <2>2. MostTwice \in Int
    <3>1. ModifiedSize - 1 \in Modified /\ OriginalSize - 1 \in Original
      BY SizesAssumption DEF Modified, Original
    <3> QED BY <3>1, MatchedBounds DEF MostTwice
  <2>3. Agrees(MatchedPairs, {})
    BY <1>2, NoPairsMatching DEF Agrees
  <2> QED BY <2>1, <2>2, <2>3, NoPairsMatching DEF GoesOn
<1> QED BY <1>1, <1>3, <1>4 DEF Minimizing, Init

\* What the walk has yet to match depends on the input alone.
LEMMA InputKept ==
  ASSUME UNCHANGED input
  PROVE  /\ Matchings' = Matchings /\ Matchable' = Matchable
         /\ GoesOn(MatchedPairs', i', j') => GoesOn(MatchedPairs, i, j)'
         /\ Settled(MatchedPairs', i', j', nlist', olist') => Settled(MatchedPairs, i, j, nlist, olist)'
<1>1. verdict' = verdict /\ moved' = moved
  BY DEF input
<1>2. Matchable' = Matchable
  BY <1>1 DEF Matchable, Unmatched, IsMove
<1>3. Matchings' = Matchings
  BY <1>2 DEF Matchings
<1>4. Table' = Table
  BY TableKept
<1>5. MostTwice' = MostTwice /\ MatchedUpTo(i, j)' = MatchedUpTo(i', j')
  BY <1>4 DEF MostTwice, MatchedUpTo
<1>6. ASSUME NEW M PROVE Agrees(MatchedPairs, M)' <=> Agrees(MatchedPairs', M)
  BY <1>1, <1>3 DEF Agrees
<1>7. GoesOn(MatchedPairs', i', j') => GoesOn(MatchedPairs, i, j)'
  BY <1>3, <1>5, <1>6 DEF GoesOn
<1>8. Settled(MatchedPairs', i', j', nlist', olist') => Settled(MatchedPairs, i, j, nlist, olist)'
  BY <1>1, <1>2, <1>3, <1>5, <1>6 DEF Settled
<1> QED BY <1>2, <1>3, <1>7, <1>8

\* A step that leaves the walk where it is.
LEMMA NotWalkMinimizing ==
  ASSUME Minimizing, Walking', UNCHANGED input, UNCHANGED walk, MatchedPairs' = MatchedPairs,
         phase' = "done" => i < 0 /\ j < 0
  PROVE  Minimizing'
<1>1. i' = i /\ j' = j /\ nlist' = nlist /\ olist' = olist
  BY DEF walk
<1>2. GoesOn(MatchedPairs', i', j') \/ Settled(MatchedPairs', i', j', nlist', olist')
  BY <1>1 DEF Minimizing
<1>3. (GoesOn(MatchedPairs, i, j) \/ Settled(MatchedPairs, i, j, nlist, olist))'
  BY <1>2, InputKept
<1>4. Listed(MatchedPairs, nlist, olist)'
  BY <1>1 DEF Minimizing, Listed
<1> QED BY <1>1, <1>3, <1>4 DEF Minimizing

LEMMA WalkMinimizing ==
  ASSUME Minimizing, Walk, Walking' PROVE Minimizing'
<1>1. UNCHANGED input /\ phase' # "done"
  BY DEF Walk
<1>2. /\ MatchedPairs' = IF Marked(i, j) THEN MatchedPairs \cup {<<i, j>>} ELSE MatchedPairs
      /\ nlist' = IF Marked(i, j) THEN nlist \cup {i} ELSE nlist
      /\ olist' = IF Marked(i, j) THEN olist \cup {j} ELSE olist
  BY WalkLists DEF Walk, Minimizing
<1>3. Listed(MatchedPairs', nlist', olist')
  <2>1. CASE Marked(i, j)
    <3>1. <<i, j>>[1] = i /\ <<i, j>>[2] = j
      OBVIOUS
    <3> QED BY <2>1, <3>1, <1>2 DEF Minimizing, Listed
  <2>2. CASE ~ Marked(i, j)
    BY <2>2, <1>2 DEF Minimizing, Listed
  <2> QED BY <2>1, <2>2
<1>4. GoesOn(MatchedPairs', i', j') \/ Settled(MatchedPairs', i', j', nlist', olist')
  <2>1. CASE GoesOn(MatchedPairs, i, j)
    BY <2>1, GoesOnOrSettles DEF Minimizing
  <2>2. CASE Settled(MatchedPairs, i, j, nlist, olist)
    <3>1. ~ Marked(i, j) /\ Settled(MatchedPairs, i', j', nlist, olist)
      BY <2>2, SettledStays DEF Minimizing
    <3> QED BY <3>1, <1>2
  <2> QED BY <2>1, <2>2 DEF Minimizing
<1>5. (GoesOn(MatchedPairs, i, j) \/ Settled(MatchedPairs, i, j, nlist, olist))'
  BY <1>1, <1>4, InputKept
<1>6. Listed(MatchedPairs, nlist, olist)'
  BY <1>3 DEF Listed
<1> QED BY <1>1, <1>5, <1>6 DEF Minimizing

LEMMA MinimizingDone == Minimizing => MinimizesUnmatched
<1> SUFFICES ASSUME Minimizing, phase = "done"
             PROVE  \E M \in MaximumMatchings : MatchedPairs = {c \in M : verdict[c].operation # "NEST"}
  BY DEF MinimizesUnmatched
<1>1. PICK M \in Matchings : Agrees(MatchedPairs, M) /\ 2 * Cardinality(M) = MostTwice
  <2>1. CASE GoesOn(MatchedPairs, i, j)
    <3>1. i < 0 /\ j < 0
      BY DEF Minimizing
    <3>2. MatchedUpTo(i, j) = 0
      BY <3>1 DEF MatchedUpTo
    <3>3. PICK M \in Matchings : Agrees(MatchedPairs, M) /\ 2 * Cardinality(M) + 0 = MostTwice
      BY <2>1, <3>2 DEF GoesOn
    <3>4. 2 * Cardinality(M) \in Int
      BY MatchingIs
    <3> QED BY <3>3, <3>4
  <2>2. CASE Settled(MatchedPairs, i, j, nlist, olist)
    BY <2>2 DEF Settled
  <2> QED BY <2>1, <2>2 DEF Minimizing
<1>2. ASSUME NEW N \in Matchings PROVE Cardinality(N) <= Cardinality(M)
  <2>1. Within(N, ModifiedSize - 1, OriginalSize - 1)
    <3> SUFFICES ASSUME NEW c \in N PROVE c[1] <= ModifiedSize - 1 /\ c[2] <= OriginalSize - 1
      BY DEF Within
    <3>1. c[1] \in Nat /\ c[2] \in Nat /\ c[1] < ModifiedSize /\ c[2] < OriginalSize
      BY MatchingIs, CellType
    <3> QED BY <3>1, SizesAssumption
  <2>2. /\ ModifiedSize - 1 \in Int /\ OriginalSize - 1 \in Int
        /\ ModifiedSize - 1 < ModifiedSize /\ OriginalSize - 1 < OriginalSize
    BY SizesAssumption
  <2>3. 2 * Cardinality(N) <= MostTwice
    BY <2>1, <2>2, MatchingBound DEF MostTwice
  <2>4. Cardinality(N) \in Nat /\ Cardinality(M) \in Nat
    BY MatchingIs
  <2> QED BY <2>3, <2>4, <1>1
<1>3. M \in MaximumMatchings
  BY <1>2 DEF MaximumMatchings
<1> QED BY <1>1, <1>3 DEF Agrees

LEMMA MinimizingNext ==
  ASSUME Minimizing, [Next]_vars PROVE Minimizing'
<1>1. Walking'
  <2>1. Walking
    BY DEF Minimizing
  <2>2. CASE Fill
    BY <2>1, <2>2, FillWalking
  <2>3. CASE Walk
    BY <2>1, <2>3, WalkMarked, WalkUnmarked
  <2>4. CASE Return
    BY <2>1, <2>4, ReturnWalking
  <2>5. CASE UNCHANGED vars
    BY <2>1, <2>5, StutterWalking
  <2> QED BY <2>2, <2>3, <2>4, <2>5 DEF Next
<1>2. CASE Fill
  <2>1. UNCHANGED input /\ UNCHANGED walk /\ changes' = changes /\ phase' = "walk"
    BY <1>2 DEF Fill
  <2>2. MatchedPairs' = MatchedPairs
    BY <2>1 DEF MatchedPairs
  <2> QED BY <1>1, <2>1, <2>2, NotWalkMinimizing
<1>3. CASE Walk
  BY <1>1, <1>3, WalkMinimizing
<1>4. CASE Return
  <2>1. UNCHANGED input /\ UNCHANGED walk /\ i < 0 /\ j < 0
    BY <1>4 DEF Return
  <2>2. MatchedPairs' = MatchedPairs
    BY <1>4, ReturnLists DEF Minimizing
  <2> QED BY <1>1, <2>1, <2>2, NotWalkMinimizing
<1>5. CASE UNCHANGED vars
  <2>1. UNCHANGED input /\ UNCHANGED walk /\ changes' = changes /\ phase' = phase
    BY <1>5 DEF vars
  <2>2. MatchedPairs' = MatchedPairs
    BY <2>1 DEF MatchedPairs
  <2>3. phase' = "done" => i < 0 /\ j < 0
    BY <2>1 DEF Minimizing
  <2> QED BY <1>1, <2>1, <2>2, <2>3, NotWalkMinimizing
<1> QED BY <1>2, <1>3, <1>4, <1>5 DEF Next

\* Whatever the rules and the measurers say of the pairs, the list that match_differences
\* returns matches as many constructs as any way to match them in order does, the pairs
\* left to the nest_differ counted in.  (change_matcher.cpp:50-284, "minimizing unmatched" at 141)
THEOREM FewestUnmatched == Spec => []MinimizesUnmatched
BY InitMinimizing, MinimizingNext, MinimizingDone, PTL DEF Spec
-----------------------------------------------------------------------------
(***************************************************************************)
(* The same for what the matched constructs have in common, where no pair  *)
(* nests: the table breaks ties by it.                                     *)
(***************************************************************************)
SimilarityUpTo(m, o) == IF m < 0 \/ o < 0 THEN 0 ELSE Table[<<m, o>>].similarity

\* As many pairs more similar, or more pairs.
AsGood(n, s, k, t) == n < k \/ (n = k /\ s <= t)

LEMMA PairSimilarity ==
  ASSUME Walking, NEW m \in Modified, NEW o \in Original
  PROVE  /\ Similarity(m, o) \in Nat
         /\ verdict[<<m, o>>].similarity \in Nat
         /\ Unmatched(m, o) = 0 => Similarity(m, o) = verdict[<<m, o>>].similarity
         /\ NoneNests /\ Unmatched(m, o) # 0 => Similarity(m, o) = 0
<1>1. <<m, o>> \in Pairs
  BY DEF Pairs
<1>2. verdict[<<m, o>>] \in Verdicts
  BY <1>1 DEF Walking
<1>3. verdict[<<m, o>>].similarity \in Nat
  BY <1>2, VerdictsAssumption
<1>4. NoneNests => ~ BetterNested(verdict[<<m, o>>])
  BY <1>1 DEF NoneNests, BetterNested, Pairs
<1> QED BY <1>2, <1>3, <1>4, NoneAssumption DEF Similarity, Unmatched

\* The better of two is as good as each.
LEMMA BestIsAsGood ==
  ASSUME NEW c, NEW d, c.num_unmatched \in Int, d.num_unmatched \in Int,
         c.similarity \in Int, d.similarity \in Int
  PROVE  LET b == Best(c, d)
         IN  /\ b \in {c, d} /\ b.num_unmatched \in Int /\ b.similarity \in Int
             /\ AsGood(b.num_unmatched, c.similarity, c.num_unmatched, b.similarity)
             /\ AsGood(b.num_unmatched, d.similarity, d.num_unmatched, b.similarity)
BY DEF Best, Better, AsGood

LEMMA AsGoodTrans ==
  ASSUME NEW a \in Int, NEW x \in Int, NEW b \in Int, NEW y \in Int, NEW c \in Int, NEW z \in Int,
         AsGood(a, y, b, x), AsGood(b, z, c, y)
  PROVE  AsGood(a, z, c, x)
BY DEF AsGood

\* What the ways to make an entry say of the similarity.
LEMMA AloneSimilarity ==
  ASSUME NEW m, NEW o, NEW k
  PROVE  Alone(m, o, k).similarity = Similarity(m, o)
BY DEF Alone, Cell

LEMMA BesideSimilarity ==
  ASSUME NEW d, NEW k
  PROVE  Beside(d, k).similarity = d.similarity
BY DEF Beside, Cell

LEMMA BelowSimilarity ==
  ASSUME NEW m, NEW o, NEW d
  PROVE  Below(d, m, o).similarity = d.similarity + Similarity(m, o)
BY DEF Below, Cell

Known(c) == c.num_unmatched \in Int /\ c.similarity \in Int

\* e is as good as a way to make it with n unmatched and similarity s.
NotWorse(e, n, s) == AsGood(e.num_unmatched, s, n, e.similarity)

EntryNotWorse(T, m, o) ==
  LET e == Entry(T, m, o)
  IN  /\ NotWorse(e, m + o + Unmatched(m, o), Similarity(m, o))
      /\ o > 0 => NotWorse(e, T[<<m, o - 1>>].num_unmatched + 1, T[<<m, o - 1>>].similarity)
      /\ m > 0 => NotWorse(e, T[<<m - 1, o>>].num_unmatched + 1, T[<<m - 1, o>>].similarity)
      /\ m > 0 /\ o > 0 =>
           NotWorse(e, T[<<m - 1, o - 1>>].num_unmatched + Unmatched(m, o),
                       T[<<m - 1, o - 1>>].similarity + Similarity(m, o))

EntryMade(T, m, o) ==
  LET e == Entry(T, m, o)
  IN  \/ /\ e.num_unmatched = m + o + Unmatched(m, o)
         /\ e.similarity = Similarity(m, o)
         /\ e.marked = (Unmatched(m, o) = 0)
      \/ /\ o > 0 /\ e.direction = 1
         /\ e.num_unmatched = T[<<m, o - 1>>].num_unmatched + 1
         /\ e.similarity = T[<<m, o - 1>>].similarity
         /\ e.marked = FALSE
      \/ /\ m > 0 /\ e.direction = 2
         /\ e.num_unmatched = T[<<m - 1, o>>].num_unmatched + 1
         /\ e.similarity = T[<<m - 1, o>>].similarity
         /\ e.marked = FALSE
      \/ /\ m > 0 /\ o > 0 /\ e.direction = 3
         /\ e.num_unmatched = T[<<m - 1, o - 1>>].num_unmatched + Unmatched(m, o)
         /\ e.similarity = T[<<m - 1, o - 1>>].similarity + Similarity(m, o)
         /\ e.marked = (Unmatched(m, o) = 0)

LEMMA EntryMostSimilar ==
  ASSUME Walking, NEW m \in Modified, NEW o \in Original, NEW T,
         o > 0 => Known(T[<<m, o - 1>>]),
         m > 0 => Known(T[<<m - 1, o>>]),
         m > 0 /\ o > 0 => Known(T[<<m - 1, o - 1>>])
  PROVE  EntryNotWorse(T, m, o) /\ EntryMade(T, m, o) /\ Known(Entry(T, m, o))
<1>1. m \in Nat /\ o \in Nat /\ Unmatched(m, o) \in Int /\ Similarity(m, o) \in Int
  <2>1. Similarity(m, o) \in Nat
    BY PairSimilarity
  <2> QED BY <2>1, SizesAssumption, UnmatchedType DEF Modified, Original
<1> DEFINE besideLeft == Beside(T[<<m, o - 1>>], 1)
           besideUp == Beside(T[<<m - 1, o>>], 2)
           aloneLeft == Alone(m, o, 1)
           aloneUp == Alone(m, o, 2)
           first == Alone(m, o, 0)
           left == Best(besideLeft, aloneLeft)
           up == Best(besideUp, aloneUp)
           below == Below(T[<<m - 1, o - 1>>], m, o)
           e == Entry(T, m, o)
           U == Unmatched(m, o)
           S == Similarity(m, o)
<1>2. /\ aloneLeft.num_unmatched = m + o + U /\ aloneLeft.marked = (U = 0) /\ aloneLeft.similarity = S
      /\ aloneUp.num_unmatched = m + o + U /\ aloneUp.marked = (U = 0) /\ aloneUp.similarity = S
      /\ first.num_unmatched = m + o + U /\ first.marked = (U = 0) /\ first.similarity = S
      /\ Known(aloneLeft) /\ Known(aloneUp) /\ Known(first)
  BY <1>1, AloneIs, AloneSimilarity DEF Known
<1>3. o > 0 => /\ besideLeft.num_unmatched = T[<<m, o - 1>>].num_unmatched + 1
               /\ besideLeft.similarity = T[<<m, o - 1>>].similarity
               /\ besideLeft.marked = FALSE /\ besideLeft.direction = 1 /\ Known(besideLeft)
  BY BesideIs, BesideSimilarity DEF Known
<1>4. m > 0 => /\ besideUp.num_unmatched = T[<<m - 1, o>>].num_unmatched + 1
               /\ besideUp.similarity = T[<<m - 1, o>>].similarity
               /\ besideUp.marked = FALSE /\ besideUp.direction = 2 /\ Known(besideUp)
  BY BesideIs, BesideSimilarity DEF Known
<1>5. m > 0 /\ o > 0 => /\ below.num_unmatched = T[<<m - 1, o - 1>>].num_unmatched + U
                        /\ below.similarity = T[<<m - 1, o - 1>>].similarity + S
                        /\ below.marked = (U = 0) /\ below.direction = 3 /\ Known(below)
  BY <1>1, BelowIs, BelowSimilarity DEF Known
<1>6. o > 0 => /\ left \in {besideLeft, aloneLeft} /\ Known(left)
               /\ NotWorse(left, besideLeft.num_unmatched, besideLeft.similarity)
               /\ NotWorse(left, aloneLeft.num_unmatched, aloneLeft.similarity)
  BY <1>2, <1>3, BestIsAsGood DEF Known, NotWorse
<1>7. m > 0 => /\ up \in {besideUp, aloneUp} /\ Known(up)
               /\ NotWorse(up, besideUp.num_unmatched, besideUp.similarity)
               /\ NotWorse(up, aloneUp.num_unmatched, aloneUp.similarity)
  BY <1>2, <1>4, BestIsAsGood DEF Known, NotWorse
<1>8. e = IF m = 0 /\ o = 0 THEN first
          ELSE IF m = 0 THEN left
          ELSE IF o = 0 THEN up
          ELSE Best(Best(left, up), below)
  BY DEF Entry
<1> HIDE DEF left, up, below, besideLeft, besideUp, aloneLeft, aloneUp, first, e, U, S
<1>9. ASSUME NEW a, NEW b, NEW n \in Int, NEW s \in Int, Known(a), Known(b),
             NotWorse(a, b.num_unmatched, b.similarity), NotWorse(b, n, s)
      PROVE  NotWorse(a, n, s)
  BY <1>9, AsGoodTrans DEF Known, NotWorse
<1>10. m > 0 /\ o > 0 => /\ e \in {left, up, below} /\ Known(e)
                         /\ NotWorse(e, left.num_unmatched, left.similarity)
                         /\ NotWorse(e, up.num_unmatched, up.similarity)
                         /\ NotWorse(e, below.num_unmatched, below.similarity)
  <2> SUFFICES ASSUME m > 0 /\ o > 0
               PROVE  /\ e \in {left, up, below} /\ Known(e)
                      /\ NotWorse(e, left.num_unmatched, left.similarity)
                      /\ NotWorse(e, up.num_unmatched, up.similarity)
                      /\ NotWorse(e, below.num_unmatched, below.similarity)
    OBVIOUS
  <2> DEFINE b == Best(left, up)
  <2>1. /\ b \in {left, up} /\ Known(b)
        /\ NotWorse(b, left.num_unmatched, left.similarity)
        /\ NotWorse(b, up.num_unmatched, up.similarity)
    BY <1>6, <1>7, BestIsAsGood DEF Known, NotWorse
  <2>2. e = Best(b, below)
    BY <1>1, <1>8
  <2> HIDE DEF b
  <2>3. /\ e \in {b, below} /\ Known(e)
        /\ NotWorse(e, b.num_unmatched, b.similarity)
        /\ NotWorse(e, below.num_unmatched, below.similarity)
    BY <1>5, <2>1, <2>2, BestIsAsGood DEF Known, NotWorse
  <2>4. NotWorse(e, left.num_unmatched, left.similarity)
    BY <1>6, <1>9, <2>1, <2>3 DEF Known
  <2>5. NotWorse(e, up.num_unmatched, up.similarity)
    BY <1>7, <1>9, <2>1, <2>3 DEF Known
  <2> QED BY <2>1, <2>3, <2>4, <2>5
<1>11. CASE m = 0 /\ o = 0
  <2>1. e = first
    BY <1>8, <1>11
  <2>2. NotWorse(e, m + o + U, S)
    BY <2>1, <1>1, <1>2 DEF NotWorse, AsGood, Known
  <2> QED BY <2>1, <2>2, <1>11, <1>2 DEF EntryNotWorse, EntryMade, e, U, S
<1>12. CASE m = 0 /\ o > 0
  <2>1. e = left
    BY <1>8, <1>12
  <2> QED BY <2>1, <1>12, <1>2, <1>3, <1>6 DEF EntryNotWorse, EntryMade, e, U, S
<1>13. CASE m > 0 /\ o = 0
  <2>1. e = up
    BY <1>8, <1>13
  <2> QED BY <2>1, <1>13, <1>2, <1>4, <1>7 DEF EntryNotWorse, EntryMade, e, U, S
<1>14. CASE m > 0 /\ o > 0
  <2>1. /\ NotWorse(e, aloneLeft.num_unmatched, aloneLeft.similarity)
        /\ NotWorse(e, besideLeft.num_unmatched, besideLeft.similarity)
    BY <1>14, <1>2, <1>3, <1>6, <1>9, <1>10 DEF Known
  <2>2. NotWorse(e, besideUp.num_unmatched, besideUp.similarity)
    BY <1>14, <1>4, <1>7, <1>9, <1>10 DEF Known
  <2>3. EntryNotWorse(T, m, o)
    BY <1>14, <1>2, <1>3, <1>4, <1>5, <1>10, <2>1, <2>2 DEF EntryNotWorse, e, U, S
  <2>4. EntryMade(T, m, o)
    BY <1>14, <1>2, <1>3, <1>4, <1>5, <1>6, <1>7, <1>10 DEF EntryMade, e, U, S
  <2> QED BY <1>14, <1>10, <2>3, <2>4 DEF e
<1> QED BY <1>1, <1>11, <1>12, <1>13, <1>14

LEMMA TableKnown ==
  ASSUME Walking, NEW m \in Modified, NEW o \in Original
  PROVE  Known(Table[<<m, o>>])
<1> DEFINE Bad == {n \in Nat : \E c \in Pairs : Index(c) = n /\ ~ Known(Table[c])}
<1>1. Bad = {}
  <2> SUFFICES ASSUME Bad # {} PROVE FALSE
    OBVIOUS
  <2>1. PICK n \in Bad : \A k \in Bad : n <= k
    <3>1. Bad \subseteq Nat
      OBVIOUS
    <3> HIDE DEF Bad
    <3> QED BY <3>1, LeastElement
  <2>2. PICK c \in Pairs : n \in Nat /\ Index(c) = n /\ ~ Known(Table[c])
    OBVIOUS
  <2>3. ASSUME NEW b \in Pairs, Index(b) < Index(c)
        PROVE  Known(Table[b])
    <3>1. Index(b) \in Nat /\ Index(c) \in Nat
      BY CellType
    <3>2. Index(b) \notin Bad
      <4>1. ~ (n <= Index(b))
        BY <2>2, <2>3, <3>1
      <4> HIDE DEF Bad
      <4> QED BY <4>1, <2>1
    <3> QED BY <3>1, <3>2
  <2> HIDE DEF Bad
  <2>4. c[1] \in Modified /\ c[2] \in Original /\ c = <<c[1], c[2]>>
    BY DEF Pairs
  <2> DEFINE p == c[1]
             q == c[2]
  <2>5. /\ p \in Modified /\ q \in Original /\ Index(<<p, q>>) = Index(c)
        /\ Table[c] = Entry(Table, p, q)
    BY <2>4, TableEntries
  <2> HIDE DEF p, q
  <2>6. /\ q > 0 => Known(Table[<<p, q - 1>>])
        /\ p > 0 => Known(Table[<<p - 1, q>>])
        /\ p > 0 /\ q > 0 => Known(Table[<<p - 1, q - 1>>])
    BY <2>3, <2>5, Neighbours
  <2>7. Known(Entry(Table, p, q))
    BY <2>5, <2>6, EntryMostSimilar
  <2> QED BY <2>2, <2>5, <2>7
<1>2. <<m, o>> \in Pairs /\ Index(<<m, o>>) \in Nat
  BY Neighbours
<1>3. Index(<<m, o>>) \notin Bad
  BY <1>1
<1> QED BY <1>2, <1>3

LEMMA SimilarityBounds ==
  ASSUME Walking, NEW m \in Modified, NEW o \in Original
  PROVE  LET n == MatchedUpTo(m, o)
             s == SimilarityUpTo(m, o)
             U == Unmatched(m, o)
             S == Similarity(m, o)
         IN  /\ s \in Int /\ SimilarityUpTo(m, o - 1) \in Int /\ SimilarityUpTo(m - 1, o) \in Int
             /\ SimilarityUpTo(m - 1, o - 1) \in Int
             /\ AsGood(2 - U, S, n, s)
             /\ AsGood(MatchedUpTo(m, o - 1), SimilarityUpTo(m, o - 1), n, s)
             /\ AsGood(MatchedUpTo(m - 1, o), SimilarityUpTo(m - 1, o), n, s)
             /\ AsGood(MatchedUpTo(m - 1, o - 1) + 2 - U, SimilarityUpTo(m - 1, o - 1) + S, n, s)
<1>1. m \in Nat /\ o \in Nat /\ Unmatched(m, o) \in Int /\ Unmatched(m, o) <= 2
  BY SizesAssumption, UnmatchedType DEF Modified, Original
<1> DEFINE here == Table[<<m, o>>]
           left == Table[<<m, o - 1>>]
           up == Table[<<m - 1, o>>]
           before == Table[<<m - 1, o - 1>>]
           U == Unmatched(m, o)
           S == Similarity(m, o)
<1>2. /\ Known(here)
      /\ o > 0 => Known(left)
      /\ m > 0 => Known(up)
      /\ m > 0 /\ o > 0 => Known(before)
  <2>1. /\ o > 0 => o - 1 \in Original
        /\ m > 0 => m - 1 \in Modified
    BY <1>1, SizesAssumption DEF Original, Modified
  <2> QED BY <2>1, TableKnown
<1>3. S \in Nat
  BY PairSimilarity
<1>4. EntryNotWorse(Table, m, o) /\ EntryMade(Table, m, o)
  BY <1>2, EntryMostSimilar
<1>5. here = Entry(Table, m, o)
  BY TableEntries
<1>6. /\ MatchedUpTo(m, o) = m + o + 2 - here.num_unmatched
      /\ MatchedUpTo(m, o - 1) = IF o > 0 THEN m + o + 1 - left.num_unmatched ELSE 0
      /\ MatchedUpTo(m - 1, o) = IF m > 0 THEN m + o + 1 - up.num_unmatched ELSE 0
      /\ MatchedUpTo(m - 1, o - 1) = IF m > 0 /\ o > 0 THEN m + o - before.num_unmatched ELSE 0
  BY <1>1, <1>2 DEF MatchedUpTo, Known
<1>7. /\ SimilarityUpTo(m, o) = here.similarity
      /\ SimilarityUpTo(m, o - 1) = IF o > 0 THEN left.similarity ELSE 0
      /\ SimilarityUpTo(m - 1, o) = IF m > 0 THEN up.similarity ELSE 0
      /\ SimilarityUpTo(m - 1, o - 1) = IF m > 0 /\ o > 0 THEN before.similarity ELSE 0
  BY <1>1, <1>2 DEF SimilarityUpTo, Known
<1> DEFINE N == here.num_unmatched
           H == here.similarity
<1>8. /\ AsGood(N, S, m + o + U, H)
      /\ o > 0 => AsGood(N, left.similarity, left.num_unmatched + 1, H)
      /\ m > 0 => AsGood(N, up.similarity, up.num_unmatched + 1, H)
      /\ m > 0 /\ o > 0 => AsGood(N, before.similarity + S, before.num_unmatched + U, H)
  BY <1>4, <1>5 DEF EntryNotWorse, NotWorse
<1> HIDE DEF here, left, up, before, U, S
<1>9. AsGood(2 - U, S, MatchedUpTo(m, o), SimilarityUpTo(m, o))
  BY <1>1, <1>2, <1>3, <1>6, <1>7, <1>8 DEF AsGood, Known, U
<1>10. AsGood(MatchedUpTo(m, o - 1), SimilarityUpTo(m, o - 1), MatchedUpTo(m, o), SimilarityUpTo(m, o))
  BY <1>1, <1>2, <1>3, <1>6, <1>7, <1>8 DEF AsGood, Known, U
<1>11. AsGood(MatchedUpTo(m - 1, o), SimilarityUpTo(m - 1, o), MatchedUpTo(m, o), SimilarityUpTo(m, o))
  BY <1>1, <1>2, <1>3, <1>6, <1>7, <1>8 DEF AsGood, Known, U
<1>12. AsGood(MatchedUpTo(m - 1, o - 1) + 2 - U, SimilarityUpTo(m - 1, o - 1) + S,
              MatchedUpTo(m, o), SimilarityUpTo(m, o))
  BY <1>1, <1>2, <1>3, <1>6, <1>7, <1>8 DEF AsGood, Known, U
<1>13. /\ SimilarityUpTo(m, o) \in Int /\ SimilarityUpTo(m, o - 1) \in Int
       /\ SimilarityUpTo(m - 1, o) \in Int /\ SimilarityUpTo(m - 1, o - 1) \in Int
  BY <1>1, <1>2, <1>7 DEF Known
<1> QED BY <1>9, <1>10, <1>11, <1>12, <1>13 DEF U, S

LEMMA SimilarityWays ==
  ASSUME Walking, NEW m \in Modified, NEW o \in Original
  PROVE  LET e == Table[<<m, o>>]
             n == MatchedUpTo(m, o)
             s == SimilarityUpTo(m, o)
             U == Unmatched(m, o)
             S == Similarity(m, o)
         IN  \/ n = 2 - U /\ s = S /\ e.marked = (U = 0)
             \/ /\ e.direction = 1 /\ e.marked = FALSE
                /\ n = MatchedUpTo(m, o - 1) /\ s = SimilarityUpTo(m, o - 1)
             \/ /\ e.direction = 2 /\ e.marked = FALSE
                /\ n = MatchedUpTo(m - 1, o) /\ s = SimilarityUpTo(m - 1, o)
             \/ /\ e.direction = 3 /\ e.marked = (U = 0)
                /\ n = MatchedUpTo(m - 1, o - 1) + 2 - U
                /\ s = SimilarityUpTo(m - 1, o - 1) + S
<1>1. m \in Nat /\ o \in Nat /\ Unmatched(m, o) \in Int /\ Unmatched(m, o) <= 2
  BY SizesAssumption, UnmatchedType DEF Modified, Original
<1> DEFINE here == Table[<<m, o>>]
           left == Table[<<m, o - 1>>]
           up == Table[<<m - 1, o>>]
           before == Table[<<m - 1, o - 1>>]
           U == Unmatched(m, o)
           S == Similarity(m, o)
<1>2. /\ Known(here)
      /\ o > 0 => Known(left)
      /\ m > 0 => Known(up)
      /\ m > 0 /\ o > 0 => Known(before)
  <2>1. /\ o > 0 => o - 1 \in Original
        /\ m > 0 => m - 1 \in Modified
    BY <1>1, SizesAssumption DEF Original, Modified
  <2> QED BY <2>1, TableKnown
<1>3. S \in Nat
  BY PairSimilarity
<1>4. EntryNotWorse(Table, m, o) /\ EntryMade(Table, m, o)
  BY <1>2, EntryMostSimilar
<1>5. here = Entry(Table, m, o)
  BY TableEntries
<1>6. /\ MatchedUpTo(m, o) = m + o + 2 - here.num_unmatched
      /\ MatchedUpTo(m, o - 1) = IF o > 0 THEN m + o + 1 - left.num_unmatched ELSE 0
      /\ MatchedUpTo(m - 1, o) = IF m > 0 THEN m + o + 1 - up.num_unmatched ELSE 0
      /\ MatchedUpTo(m - 1, o - 1) = IF m > 0 /\ o > 0 THEN m + o - before.num_unmatched ELSE 0
  BY <1>1, <1>2 DEF MatchedUpTo, Known
<1>7. /\ SimilarityUpTo(m, o) = here.similarity
      /\ SimilarityUpTo(m, o - 1) = IF o > 0 THEN left.similarity ELSE 0
      /\ SimilarityUpTo(m - 1, o) = IF m > 0 THEN up.similarity ELSE 0
      /\ SimilarityUpTo(m - 1, o - 1) = IF m > 0 /\ o > 0 THEN before.similarity ELSE 0
  BY <1>1, <1>2 DEF SimilarityUpTo, Known
<1>8. \/ here.num_unmatched = m + o + U /\ here.similarity = S /\ here.marked = (U = 0)
      \/ /\ o > 0 /\ here.direction = 1 /\ here.marked = FALSE
         /\ here.num_unmatched = left.num_unmatched + 1 /\ here.similarity = left.similarity
      \/ /\ m > 0 /\ here.direction = 2 /\ here.marked = FALSE
         /\ here.num_unmatched = up.num_unmatched + 1 /\ here.similarity = up.similarity
      \/ /\ m > 0 /\ o > 0 /\ here.direction = 3 /\ here.marked = (U = 0)
         /\ here.num_unmatched = before.num_unmatched + U /\ here.similarity = before.similarity + S
  BY <1>4, <1>5 DEF EntryMade
<1> HIDE DEF here, left, up, before
<1> QED BY <1>1, <1>2, <1>6, <1>7, <1>8 DEF Known, here

(***************************************************************************)
(* The similarity of a set of pairs.                                       *)
(***************************************************************************)
Units(M) == UNION {{c} \X (1 .. verdict[c].similarity) : c \in M}

LEMMA UnitsWith ==
  ASSUME NEW M, NEW c, c \notin M, IsFiniteSet(Units(M)), verdict[c].similarity \in Nat
  PROVE  /\ IsFiniteSet(Units(M \cup {c}))
         /\ Cardinality(Units(M \cup {c})) = Cardinality(Units(M)) + verdict[c].similarity
         /\ Cardinality(Units(M)) \in Nat
<1> DEFINE k == verdict[c].similarity
           new == {c} \X (1 .. k)
<1>0. k \in Nat
  OBVIOUS
<1>1. Units(M \cup {c}) = Units(M) \cup new
  BY DEF Units
<1>2. IsFiniteSet(new) /\ Cardinality(new) = k
  <2> HIDE DEF k
  <2>1. IsFiniteSet({c}) /\ Cardinality({c}) = 1
    BY FS_Singleton
  <2>2. IsFiniteSet(1 .. k) /\ Cardinality(1 .. k) = k
    <3>1. 1 \in Int /\ k \in Int
      BY <1>0
    <3>2. IsFiniteSet(1 .. k) /\ Cardinality(1 .. k) = IF 1 > k THEN 0 ELSE k - 1 + 1
      BY <3>1, FS_Interval
    <3> QED BY <1>0, <3>2
  <2>3. IsFiniteSet(new) /\ Cardinality(new) = 1 * k
    <3> DEFINE one == {c}
               units == 1 .. k
    <3>1. /\ IsFiniteSet(one) /\ Cardinality(one) = 1
          /\ IsFiniteSet(units) /\ Cardinality(units) = k
      BY <2>1, <2>2
    <3> HIDE DEF one, units
    <3>2. IsFiniteSet(one \X units) /\ Cardinality(one \X units) = Cardinality(one) * Cardinality(units)
      BY <3>1, FS_Product
    <3> QED BY <3>1, <3>2 DEF one, units
  <2> QED BY <1>0, <2>3
<1>3. Units(M) \cap new = {}
  BY DEF Units
<1> HIDE DEF new, k
<1>4. /\ IsFiniteSet(Units(M) \cup new)
      /\ Cardinality(Units(M) \cup new) = Cardinality(Units(M)) + Cardinality(new) - Cardinality(Units(M) \cap new)
  BY <1>2, FS_Union
<1>5. Cardinality(Units(M) \cap new) = 0
  BY <1>3, FS_EmptySet
<1>6. Cardinality(Units(M)) \in Nat
  BY FS_CardinalityType
<1>7. Cardinality(Units(M) \cup new) = Cardinality(Units(M)) + k
  BY <1>0, <1>2, <1>4, <1>5, <1>6
<1> QED BY <1>1, <1>4, <1>6, <1>7 DEF k

LEMMA UnitsFinite ==
  ASSUME Walking, NEW M \in Matchings
  PROVE  IsFiniteSet(Units(M)) /\ Cardinality(Units(M)) \in Nat
<1> DEFINE Bad == {n \in Nat : \E N \in Matchings : Cardinality(N) = n /\ ~ IsFiniteSet(Units(N))}
<1>1. Bad = {}
  <2> SUFFICES ASSUME Bad # {} PROVE FALSE
    OBVIOUS
  <2>1. PICK n \in Bad : \A k \in Bad : n <= k
    <3>1. Bad \subseteq Nat
      OBVIOUS
    <3> HIDE DEF Bad
    <3> QED BY <3>1, LeastElement
  <2>2. PICK N \in Matchings : n \in Nat /\ Cardinality(N) = n /\ ~ IsFiniteSet(Units(N))
    OBVIOUS
  <2>3. N # {}
    <3>1. Units({}) = {}
      BY DEF Units
    <3> QED BY <3>1, <2>2, FS_EmptySet
  <2>4. PICK c \in N : TRUE
    BY <2>3
  <2> DEFINE L == N \ {c}
  <2>5. L \in Matchings /\ Cardinality(N) = Cardinality(L) + 1 /\ Cardinality(L) \in Nat
    BY MatchingWithout
  <2>6. c \notin L /\ N = L \cup {c}
    OBVIOUS
  <2> HIDE DEF L
  <2>7. IsFiniteSet(Units(L))
    <3>1. ~ (n <= Cardinality(L))
      BY <2>2, <2>5
    <3>2. Cardinality(L) \notin Bad
      <4> HIDE DEF Bad
      <4> QED BY <3>1, <2>1
    <3> QED BY <3>2, <2>5
  <2>8. verdict[c].similarity \in Nat
    <3>1. c \in Pairs
      BY MatchingIs
    <3> QED BY <3>1, VerdictsAssumption DEF Walking
  <2>9. IsFiniteSet(Units(L \cup {c}))
    BY <2>6, <2>7, <2>8, UnitsWith
  <2> QED BY <2>2, <2>6, <2>9
<1>2. Cardinality(M) \in Nat /\ Cardinality(M) \notin Bad
  BY <1>1, MatchingIs
<1>3. IsFiniteSet(Units(M))
  BY <1>2
<1> QED BY <1>3, FS_CardinalityType

LEMMA SumWith ==
  ASSUME Walking, NEW M \in Matchings, NEW c \in Pairs, c \notin M
  PROVE  /\ SumOfSimilarity(M \cup {c}) = SumOfSimilarity(M) + verdict[c].similarity
         /\ SumOfSimilarity(M) \in Nat /\ verdict[c].similarity \in Nat
<1>1. verdict[c].similarity \in Nat
  BY VerdictsAssumption DEF Walking
<1>2. IsFiniteSet(Units(M))
  BY UnitsFinite
<1>3. /\ Cardinality(Units(M \cup {c})) = Cardinality(Units(M)) + verdict[c].similarity
      /\ Cardinality(Units(M)) \in Nat
  BY <1>1, <1>2, UnitsWith
<1>4. ASSUME NEW N PROVE SumOfSimilarity(N) = Cardinality(Units(N))
  BY DEF SumOfSimilarity, Units
<1> QED BY <1>1, <1>3, <1>4

LEMMA SumType ==
  ASSUME Walking, NEW M \in Matchings
  PROVE  SumOfSimilarity(M) \in Nat
<1>1. SumOfSimilarity(M) = Cardinality(Units(M))
  BY DEF SumOfSimilarity, Units
<1> QED BY <1>1, UnitsFinite

LEMMA SumNothing == SumOfSimilarity({}) = 0
<1>1. UNION {{c} \X (1 .. verdict[c].similarity) : c \in {}} = {}
  OBVIOUS
<1> QED BY <1>1, FS_EmptySet DEF SumOfSimilarity

\* No way to match the constructs up to a cell is better than the cell.
LEMMA SimilarityBound ==
  ASSUME Walking, NEW m \in Int, NEW o \in Int, m < ModifiedSize, o < OriginalSize,
         NEW M \in Matchings, Within(M, m, o)
  PROVE  AsGood(2 * Cardinality(M), SumOfSimilarity(M), MatchedUpTo(m, o), SimilarityUpTo(m, o))
<1> DEFINE Good(N, p, q) ==
             AsGood(2 * Cardinality(N), SumOfSimilarity(N), MatchedUpTo(p, q), SimilarityUpTo(p, q))
           Exceeds(N, p, q) == Within(N, p, q) /\ ~ Good(N, p, q)
           Bad == {n \in Nat : \E c \in Pairs : Index(c) = n /\ \E N \in Matchings : Exceeds(N, c[1], c[2])}
<1>1. ASSUME NEW p \in Int, NEW q \in Int, p < 0 \/ q < 0,
             NEW N \in Matchings, Within(N, p, q)
      PROVE  Good(N, p, q)
  <2>1. N = {}
    <3> SUFFICES ASSUME NEW c \in N PROVE FALSE
      OBVIOUS
    <3>1. c[1] \in Nat /\ c[2] \in Nat
      BY MatchingIs, CellType
    <3>2. c[1] <= p /\ c[2] <= q
      BY <1>1 DEF Within
    <3> QED BY <3>1, <3>2, <1>1
  <2>2. MatchedUpTo(p, q) = 0 /\ SimilarityUpTo(p, q) = 0
    BY <1>1 DEF MatchedUpTo, SimilarityUpTo
  <2> QED BY <2>1, <2>2, NoPairsMatching, SumNothing DEF AsGood
<1>2. Bad = {}
  <2> SUFFICES ASSUME Bad # {} PROVE FALSE
    OBVIOUS
  <2>1. PICK n \in Bad : \A k \in Bad : n <= k
    <3>1. Bad \subseteq Nat
      OBVIOUS
    <3> HIDE DEF Bad
    <3> QED BY <3>1, LeastElement
  <2>2. PICK cell \in Pairs : n \in Nat /\ Index(cell) = n /\ \E N \in Matchings : Exceeds(N, cell[1], cell[2])
    OBVIOUS
  <2>3. PICK N \in Matchings : Exceeds(N, cell[1], cell[2])
    BY <2>2
  <2>4. ASSUME NEW b \in Pairs, Index(b) < n, NEW L \in Matchings, Within(L, b[1], b[2])
        PROVE  Good(L, b[1], b[2])
    <3>1. Index(b) \in Nat
      BY CellType
    <3>2. Index(b) \notin Bad
      <4>1. ~ (n <= Index(b))
        BY <2>2, <2>4, <3>1
      <4> HIDE DEF Bad
      <4> QED BY <4>1, <2>1
    <3> HIDE DEF Good
    <3> QED BY <3>1, <3>2, <2>4
  <2> HIDE DEF Bad
  <2> DEFINE p == cell[1]
             q == cell[2]
  <2>5. /\ p \in Modified /\ q \in Original /\ p \in Nat /\ q \in Nat /\ cell = <<p, q>>
        /\ Index(<<p, q>>) = n
    BY <2>2, CellType DEF Pairs
  <2>6. Within(N, p, q) /\ ~ Good(N, p, q) /\ Cardinality(N) \in Nat /\ SumOfSimilarity(N) \in Nat
    BY <2>3, MatchingIs, SumType
  <2> HIDE DEF p, q
  <2>7. ASSUME NEW L \in Matchings
        PROVE  /\ Within(L, p, q - 1) => Good(L, p, q - 1)
               /\ Within(L, p - 1, q) => Good(L, p - 1, q)
               /\ Within(L, p - 1, q - 1) => Good(L, p - 1, q - 1)
    <3> HIDE DEF Good
    <3>1. Within(L, p, q - 1) => Good(L, p, q - 1)
      <4>1. CASE q > 0
        <5>1. <<p, q - 1>> \in Pairs /\ Index(<<p, q - 1>>) < n
          BY <4>1, <2>5, Neighbours
        <5> QED BY <5>1, <2>4
      <4>2. CASE q = 0
        BY <4>2, <2>5, <1>1
      <4> QED BY <4>1, <4>2, <2>5
    <3>2. Within(L, p - 1, q) => Good(L, p - 1, q)
      <4>1. CASE p > 0
        <5>1. <<p - 1, q>> \in Pairs /\ Index(<<p - 1, q>>) < n
          BY <4>1, <2>5, Neighbours
        <5> QED BY <5>1, <2>4
      <4>2. CASE p = 0
        BY <4>2, <2>5, <1>1
      <4> QED BY <4>1, <4>2, <2>5
    <3>3. Within(L, p - 1, q - 1) => Good(L, p - 1, q - 1)
      <4>1. CASE p > 0 /\ q > 0
        <5>1. <<p - 1, q - 1>> \in Pairs /\ Index(<<p - 1, q - 1>>) < n
          BY <4>1, <2>5, Neighbours
        <5> QED BY <5>1, <2>4
      <4>2. CASE p = 0 \/ q = 0
        BY <4>2, <2>5, <1>1
      <4> QED BY <4>1, <4>2, <2>5
    <3> QED BY <3>1, <3>2, <3>3
  <2> DEFINE n0 == 2 * Cardinality(N)
             s0 == SumOfSimilarity(N)
             n1 == MatchedUpTo(p, q)
             s1 == SimilarityUpTo(p, q)
             nl == MatchedUpTo(p, q - 1)
             sl == SimilarityUpTo(p, q - 1)
             nu == MatchedUpTo(p - 1, q)
             su == SimilarityUpTo(p - 1, q)
             nb == MatchedUpTo(p - 1, q - 1)
             sb == SimilarityUpTo(p - 1, q - 1)
  <2>8. /\ n0 \in Int /\ s0 \in Int /\ ~ AsGood(n0, s0, n1, s1)
        /\ n1 \in Int /\ nl \in Int /\ nu \in Int /\ nb \in Int
    BY <2>5, <2>6, MatchedBounds
  <2>9. /\ s1 \in Int /\ sl \in Int /\ su \in Int /\ sb \in Int
        /\ AsGood(nl, sl, n1, s1)
        /\ AsGood(nu, su, n1, s1)
        /\ AsGood(nb + 2 - Unmatched(p, q), sb + Similarity(p, q), n1, s1)
    BY <2>5, SimilarityBounds
  <2>10. ASSUME NEW c \in N
         PROVE  /\ c[1] \in Nat /\ c[2] \in Nat /\ c[1] <= p /\ c[2] <= q
                /\ c = <<c[1], c[2]>>
    BY <2>6, MatchingIs, CellType DEF Within
  <2>11. ~ Within(N, p, q - 1) /\ ~ Within(N, p - 1, q)
    <3>1. ~ AsGood(n0, s0, nl, sl) /\ ~ AsGood(n0, s0, nu, su)
      <4> HIDE DEF n0, s0, n1, s1, nl, sl, nu, su, nb, sb
      <4> QED BY <2>8, <2>9, AsGoodTrans DEF AsGood
    <3> QED BY <3>1, <2>7
  <2>12. PICK c \in N : ~ (c[2] <= q - 1)
    BY <2>10, <2>11, <2>5 DEF Within
  <2>13. PICK d \in N : ~ (d[1] <= p - 1)
    BY <2>10, <2>11, <2>5 DEF Within
  <2>14. c[2] = q /\ d[1] = p
    BY <2>10, <2>12, <2>13, <2>5
  <2>15. c = d
    <3>1. ~ (d[1] < c[1]) /\ ~ (c[2] < d[2])
      BY <2>10, <2>14, <2>5
    <3> QED BY <3>1, MatchingIs
  <2>16. c = <<p, q>>
    BY <2>10, <2>14, <2>15
  <2>17. Unmatched(p, q) = 0 /\ Similarity(p, q) = verdict[c].similarity
    <3>1. Unmatched(p, q) = 0
      BY <2>5, <2>16, MatchingIs, MatchableMeans
    <3> QED BY <3>1, <2>5, <2>16, PairSimilarity
  <2> DEFINE L == N \ {c}
  <2>18. Within(L, p - 1, q - 1)
    <3> SUFFICES ASSUME NEW b \in N, b # c PROVE b[1] <= p - 1 /\ b[2] <= q - 1
      BY DEF Within
    <3>1. (b[1] < c[1] /\ b[2] < c[2]) \/ (c[1] < b[1] /\ c[2] < b[2])
      BY MatchingIs
    <3>2. c[1] = p /\ c[2] = q
      BY <2>14, <2>15
    <3>3. b[1] \in Nat /\ b[2] \in Nat /\ b[1] <= p /\ b[2] <= q
      BY <2>10
    <3> QED BY <3>1, <3>2, <3>3, <2>5
  <2> DEFINE n2 == 2 * Cardinality(L)
             s2 == SumOfSimilarity(L)
             v == verdict[c].similarity
  <2>19. /\ L \in Matchings /\ n0 = n2 + 2 /\ n2 \in Int
         /\ s0 = s2 + v /\ s2 \in Int /\ v \in Int
    <3>1. L \in Matchings /\ Cardinality(N) = Cardinality(L) + 1 /\ Cardinality(L) \in Nat
      BY MatchingWithout
    <3>2. c \in Pairs /\ c \notin L /\ N = L \cup {c}
      BY MatchingIs
    <3>3. /\ SumOfSimilarity(L \cup {c}) = SumOfSimilarity(L) + verdict[c].similarity
          /\ SumOfSimilarity(L) \in Nat /\ verdict[c].similarity \in Nat
      <4> HIDE DEF L
      <4> QED BY <3>1, <3>2, SumWith
    <3>4. 2 * Cardinality(N) = 2 * Cardinality(L) + 2 /\ 2 * Cardinality(L) \in Int
      <4> DEFINE k == Cardinality(L)
      <4>1. k \in Nat /\ Cardinality(N) = k + 1
        BY <3>1
      <4> HIDE DEF k
      <4>2. 2 * Cardinality(N) = 2 * k + 2 /\ 2 * k \in Int
        BY <4>1
      <4> QED BY <4>2 DEF k
    <3>5. n0 = n2 + 2 /\ n2 \in Int
      BY <3>4
    <3>6. s0 = s2 + v /\ s2 \in Int /\ v \in Int
      <4> HIDE DEF L
      <4> QED BY <3>2, <3>3
    <3> HIDE DEF n0, s0, n2, s2, v
    <3> QED BY <3>1, <3>5, <3>6
  <2>20. AsGood(n2, s2, nb, sb)
    BY <2>7, <2>18, <2>19
  <2>21. AsGood(nb + 2 - 0, sb + v, n1, s1)
    BY <2>9, <2>17
  <2> HIDE DEF n0, s0, n1, s1, nl, sl, nu, su, nb, sb, n2, s2, v
  <2> QED BY <2>8, <2>9, <2>19, <2>20, <2>21 DEF AsGood
<1>3. CASE m < 0 \/ o < 0
  BY <1>1, <1>3
<1>4. CASE m >= 0 /\ o >= 0
  <2>1. <<m, o>> \in Pairs /\ Index(<<m, o>>) \in Nat
    <3>1. m \in Modified /\ o \in Original
      BY <1>4, SizesAssumption DEF Modified, Original
    <3> QED BY <3>1, Neighbours
  <2>2. Index(<<m, o>>) \notin Bad
    BY <1>2
  <2>3. <<m, o>>[1] = m /\ <<m, o>>[2] = o
    OBVIOUS
  <2>4. ~ Exceeds(M, m, o)
    <3> HIDE DEF Good
    <3> QED BY <2>1, <2>2, <2>3
  <2> QED BY <2>4
<1> QED BY <1>3, <1>4

(***************************************************************************)
(* The walk, where no pair nests: the list has all the pairs matched       *)
(* beyond the cell.                                                        *)
(***************************************************************************)
MostSimilarity == SimilarityUpTo(ModifiedSize - 1, OriginalSize - 1)

GoesOnWell(P, m, o) ==
  /\ P \in Matchings
  /\ \A c \in P : m < c[1] /\ o < c[2]
  /\ 2 * Cardinality(P) + MatchedUpTo(m, o) = MostTwice
  /\ SumOfSimilarity(P) + SimilarityUpTo(m, o) = MostSimilarity

SettledWell(P, m, o, news, olds) ==
  /\ P \in Matchings
  /\ 2 * Cardinality(P) = MostTwice
  /\ SumOfSimilarity(P) = MostSimilarity
  /\ \A c \in Matchable : c[1] <= m /\ c[2] <= o => c[1] \in news \/ c[2] \in olds

LEMMA SettledWellStays ==
  ASSUME Walking, Walk, SettledWell(MatchedPairs, i, j, nlist, olist)
  PROVE  ~ Marked(i, j) /\ SettledWell(MatchedPairs, i', j', nlist, olist)
<1>1. ~ Marked(i, j)
  <2> SUFFICES ASSUME Marked(i, j) PROVE FALSE
    OBVIOUS
  <2>1. Table[<<i, j>>].marked /\ j \notin olist /\ i \notin nlist
    BY StepCases
  <2>2. i \in Modified /\ j \in Original
    BY StepBack
  <2>3. Unmatched(i, j) = 0
    BY <2>1, <2>2, MatchedWays
  <2>4. <<i, j>> \in Matchable /\ i <= i /\ j <= j
    BY <2>3, StepMatched, StepBack
  <2>5. <<i, j>>[1] = i /\ <<i, j>>[2] = j
    OBVIOUS
  <2> QED BY <2>1, <2>4, <2>5 DEF SettledWell
<1>2. ASSUME NEW c \in Matchable, c[1] <= i', c[2] <= j'
      PROVE  c[1] <= i /\ c[2] <= j
  <2>1. c[1] \in Nat /\ c[2] \in Nat
    BY CellType DEF Matchable, Pairs
  <2> QED BY <2>1, <1>2, StepBack
<1> QED BY <1>1, <1>2 DEF SettledWell

\* Where a cell has matched nothing, the next has the same similarity, none.
LEMMA StepSimilarity ==
  ASSUME Walking, Walk, NoneNests, Unmatched(i, j) # 0
  PROVE  /\ SimilarityUpTo(i', j') \in Int /\ 0 <= MatchedUpTo(i', j')
         /\ AsGood(MatchedUpTo(i', j'), SimilarityUpTo(i', j'), MatchedUpTo(i, j), SimilarityUpTo(i, j))
         /\ AsGood(0, 0, MatchedUpTo(i', j'), SimilarityUpTo(i', j'))
<1>1. i \in Modified /\ j \in Original
  BY StepBack
<1>2. /\ SimilarityUpTo(i, j - 1) \in Int /\ SimilarityUpTo(i - 1, j) \in Int
      /\ SimilarityUpTo(i - 1, j - 1) \in Int
      /\ AsGood(MatchedUpTo(i, j - 1), SimilarityUpTo(i, j - 1), MatchedUpTo(i, j), SimilarityUpTo(i, j))
      /\ AsGood(MatchedUpTo(i - 1, j), SimilarityUpTo(i - 1, j), MatchedUpTo(i, j), SimilarityUpTo(i, j))
      /\ AsGood(MatchedUpTo(i - 1, j - 1) + 2 - Unmatched(i, j),
                SimilarityUpTo(i - 1, j - 1) + Similarity(i, j), MatchedUpTo(i, j), SimilarityUpTo(i, j))
  BY <1>1, SimilarityBounds
<1>3. Unmatched(i, j) = 2 /\ Similarity(i, j) = 0 /\ MatchedUpTo(i - 1, j - 1) \in Int
  <2>1. Similarity(i, j) = 0
    BY <1>1, PairSimilarity
  <2> QED BY <2>1, <1>1, UnmatchedType, MatchedBounds
<1>4. AsGood(MatchedUpTo(i - 1, j - 1), SimilarityUpTo(i - 1, j - 1), MatchedUpTo(i, j), SimilarityUpTo(i, j))
  <2> DEFINE n == MatchedUpTo(i - 1, j - 1)
             s == SimilarityUpTo(i - 1, j - 1)
  <2>1. n + 2 - 2 = n /\ s + 0 = s
    <3>1. n \in Int /\ s \in Int
      BY <1>2, <1>3
    <3> HIDE DEF n, s
    <3> QED BY <3>1
  <2> QED BY <1>2, <1>3, <2>1
<1>5. SimilarityUpTo(i', j') \in Int
      /\ AsGood(MatchedUpTo(i', j'), SimilarityUpTo(i', j'), MatchedUpTo(i, j), SimilarityUpTo(i, j))
  <2>1. CASE i' = i /\ j' = j - 1
    BY <2>1, <1>2
  <2>2. CASE i' = i - 1 /\ j' = j
    BY <2>2, <1>2
  <2>3. CASE i' = i - 1 /\ j' = j - 1
    BY <2>3, <1>2, <1>4
  <2> QED BY <2>1, <2>2, <2>3, StepCases
<1>6. AsGood(0, 0, MatchedUpTo(i', j'), SimilarityUpTo(i', j'))
  <2>1. /\ i' \in Int /\ j' \in Int /\ i' < ModifiedSize /\ j' < OriginalSize
    BY <1>1, StepBack, SizesAssumption DEF Modified, Original
  <2>2. Within({}, i', j')
    BY DEF Within
  <2>3. AsGood(2 * Cardinality({}), SumOfSimilarity({}), MatchedUpTo(i', j'), SimilarityUpTo(i', j'))
    BY <2>1, <2>2, SimilarityBound, NoPairsMatching
  <2>4. 2 * Cardinality({}) = 0
    BY NoPairsMatching
  <2> QED BY <2>3, <2>4, SumNothing
<1> QED BY <1>5, <1>6, StepMatched

LEMMA GoesOnOrSettlesWell ==
  ASSUME Walking, Walk, NoneNests, Listed(MatchedPairs, nlist, olist),
         GoesOnWell(MatchedPairs, i, j)
  PROVE  \/ GoesOnWell(MatchedPairs', i', j')
         \/ SettledWell(MatchedPairs', i', j', nlist', olist')
<1> DEFINE e == Table[<<i, j>>]
           c == <<i, j>>
           U == Unmatched(i, j)
           S == Similarity(i, j)
           M == MatchedPairs
           n == MatchedUpTo(i, j)
           s == SimilarityUpTo(i, j)
           nn == MatchedUpTo(i', j')
           sn == SimilarityUpTo(i', j')
<1>1. /\ M \in Matchings
      /\ \A b \in M : i < b[1] /\ j < b[2]
      /\ 2 * Cardinality(M) + n = MostTwice
      /\ SumOfSimilarity(M) + s = MostSimilarity
  BY DEF GoesOnWell
<1>2. /\ i \in Modified /\ j \in Original /\ i \in Nat /\ j \in Nat
      /\ i' \in Int /\ j' \in Int /\ i' <= i /\ j' <= j
  BY StepBack
<1>3. i \notin nlist /\ j \notin olist
  <2>1. ~ (i < i) /\ ~ (j < j)
    BY <1>2
  <2> QED BY <1>1, <2>1 DEF Listed
<1>4. c \in Pairs /\ (c \in Matchable <=> U = 0) /\ U \in {0, 2} /\ n \in Int /\ nn \in Int
  BY StepMatched, UnmatchedType
<1>5. /\ Marked(i, j) <=> e.marked
      /\ e.direction = 1 => i' = i /\ j' = j - 1
      /\ e.direction = 2 => i' = i - 1 /\ j' = j
      /\ e.direction = 3 => i' = i - 1 /\ j' = j - 1
  <2>1. verdict[c].operation # "NEST"
    BY <1>4 DEF NoneNests, Pairs
  <2> QED BY <1>3, <2>1, StepCases
<1>6. \/ n = 2 - U /\ s = S /\ e.marked = (U = 0)
      \/ e.marked = FALSE /\ n = nn /\ s = sn
      \/ /\ e.marked = (U = 0) /\ i' = i - 1 /\ j' = j - 1
         /\ n = nn + 2 - U /\ s = sn + S
  <2>1. \/ n = 2 - U /\ s = S /\ e.marked = (U = 0)
        \/ /\ e.direction = 1 /\ e.marked = FALSE
           /\ n = MatchedUpTo(i, j - 1) /\ s = SimilarityUpTo(i, j - 1)
        \/ /\ e.direction = 2 /\ e.marked = FALSE
           /\ n = MatchedUpTo(i - 1, j) /\ s = SimilarityUpTo(i - 1, j)
        \/ /\ e.direction = 3 /\ e.marked = (U = 0)
           /\ n = MatchedUpTo(i - 1, j - 1) + 2 - U
           /\ s = SimilarityUpTo(i - 1, j - 1) + S
    BY <1>2, SimilarityWays
  <2> HIDE DEF e, U, S
  <2> QED BY <2>1, <1>5
<1>7. MatchedPairs' = IF Marked(i, j) THEN M \cup {c} ELSE M
  BY WalkLists
<1>8. ASSUME NEW b \in M PROVE i' < b[1] /\ j' < b[2]
  <2>1. b[1] \in Nat /\ b[2] \in Nat /\ i < b[1] /\ j < b[2]
    BY <1>1, MatchingIs, CellType
  <2> QED BY <2>1, <1>2
<1>9. CASE ~ e.marked
  <2>1. nn = n /\ sn = s
    <3>1. CASE e.marked = FALSE /\ n = nn /\ s = sn
      BY <3>1
    <3>2. CASE U # 0 /\ (\/ n = 2 - U /\ s = S
                         \/ n = nn + 2 - U /\ s = sn + S)
      <4>1. U = 2 /\ S = 0
        BY <3>2, <1>2, <1>4, PairSimilarity
      <4>2. sn \in Int /\ 0 <= nn /\ AsGood(nn, sn, n, s) /\ AsGood(0, 0, nn, sn)
        BY <3>2, StepSimilarity
      <4> HIDE DEF n, s, nn, sn, U, S
      <4> QED BY <3>2, <4>1, <4>2, <1>4 DEF AsGood
    <3> QED BY <1>6, <1>9, <3>1, <3>2
  <2>2. MatchedPairs' = M
    BY <1>5, <1>7, <1>9
  <2> QED BY <2>1, <2>2, <1>1, <1>8 DEF GoesOnWell
<1>10. CASE e.marked
  <2> DEFINE N == M \cup {c}
             size == Cardinality(N)
             before == Cardinality(M)
             sum == SumOfSimilarity(N)
             part == SumOfSimilarity(M)
  <2>1. U = 0 /\ c \in Matchable /\ MatchedPairs' = N /\ Marked(i, j)
    BY <1>4, <1>5, <1>6, <1>7, <1>10
  <2>2. N \in Matchings /\ size = before + 1 /\ before \in Nat
    <3>1. \A b \in M : c[1] < b[1] /\ c[2] < b[2]
      BY <1>1
    <3>2. N \in Matchings /\ Cardinality(N) = Cardinality(M) + 1
      BY <1>1, <2>1, <3>1, MatchingWith
    <3> QED BY <1>1, <3>2, MatchingIs
  <2>3. sum = part + S /\ part \in Nat /\ S \in Nat
    <3>1. c \notin M
      BY <1>1, <1>2
    <3>2. /\ SumOfSimilarity(M \cup {c}) = SumOfSimilarity(M) + verdict[c].similarity
          /\ SumOfSimilarity(M) \in Nat /\ verdict[c].similarity \in Nat
      <4> HIDE DEF M, c
      <4> QED BY <1>1, <1>4, <3>1, SumWith
    <3>3. S = verdict[c].similarity
      BY <1>2, <2>1, PairSimilarity
    <3> QED BY <3>2, <3>3
  <2>4. c[1] = i /\ c[2] = j
    OBVIOUS
  <2>5. CASE i' = i - 1 /\ j' = j - 1 /\ n = nn + 2 - U /\ s = sn + S
    <3>1. \A b \in N : i' < b[1] /\ j' < b[2]
      BY <1>2, <1>8, <2>4, <2>5
    <3>2. sn \in Int
      BY <1>2, <2>5, SimilarityBounds
    <3>3. 2 * size + nn = MostTwice /\ sum + sn = MostSimilarity
      <4>1. 2 * before + n = MostTwice /\ part + s = MostSimilarity
        BY <1>1
      <4> HIDE DEF size, before, sum, part, n, s, nn, sn, U, S
      <4> QED BY <4>1, <1>4, <2>1, <2>2, <2>3, <2>5, <3>2
    <3> QED BY <2>1, <2>2, <3>1, <3>3 DEF GoesOnWell
  <2>6. CASE n = 2 - U /\ s = S
    <3>1. 2 * size = MostTwice /\ sum = MostSimilarity
      <4>1. 2 * before + n = MostTwice /\ part + s = MostSimilarity
        BY <1>1
      <4> HIDE DEF size, before, sum, part, n, s, U, S
      <4> QED BY <4>1, <1>4, <2>1, <2>2, <2>3, <2>6
    <3>2. nlist' = nlist \cup {i} /\ olist' = olist \cup {j}
      BY <2>1 DEF Walk
    <3>3. ASSUME NEW b \in Matchable, b[1] <= i', b[2] <= j'
          PROVE  b[1] \in nlist' \/ b[2] \in olist'
      <4>1. b \in Pairs /\ b[1] \in Nat /\ b[2] \in Nat
        BY CellType DEF Matchable, Pairs
      <4>2. SUFFICES ASSUME b[1] < c[1] /\ b[2] < c[2] PROVE FALSE
        BY <3>2, <3>3, <4>1, <1>2, <2>4
      <4>3. {c} \in Matchings /\ Cardinality({c}) = 1
        BY <2>1, OnePairMatching
      <4>4. {c} \cup {b} \in Matchings /\ Cardinality({c} \cup {b}) = 1 + 1
        BY <4>2, <4>3, MatchingWith
      <4>5. Within({c} \cup {b}, i, j)
        BY <4>1, <4>2, <1>2, <2>4 DEF Within
      <4>6. i \in Int /\ j \in Int /\ i < ModifiedSize /\ j < OriginalSize
        BY <1>2, SizesAssumption DEF Modified, Original
      <4>7. 2 * Cardinality({c} \cup {b}) <= n
        BY <4>4, <4>5, <4>6, MatchingBound
      <4>8. n = 2
        BY <2>1, <2>6
      <4> QED BY <4>4, <4>7, <4>8
    <3> QED BY <2>1, <2>2, <3>1, <3>3 DEF SettledWell
  <2>7. \/ n = 2 - U /\ s = S
        \/ i' = i - 1 /\ j' = j - 1 /\ n = nn + 2 - U /\ s = sn + S
    BY <1>6, <1>10
  <2> QED BY <2>5, <2>6, <2>7
<1> QED BY <1>9, <1>10

Maximizing ==
  /\ Minimizing
  /\ NoneNests => GoesOnWell(MatchedPairs, i, j) \/ SettledWell(MatchedPairs, i, j, nlist, olist)

LEMMA InitMaximizing == Init => Maximizing
<1> SUFFICES ASSUME Init PROVE Maximizing
  OBVIOUS
<1>1. Minimizing /\ Walking
  BY InitMinimizing DEF Minimizing
<1>2. MatchedPairs = {}
  <2>1. changes = <<>>
    BY DEF Init
  <2> QED BY <2>1, PairsListed, PairsOfNothing
<1>3. ModifiedSize - 1 \in Modified /\ OriginalSize - 1 \in Original
  BY SizesAssumption DEF Modified, Original
<1>4. MostTwice \in Int /\ MostSimilarity \in Int
  BY <1>1, <1>3, MatchedBounds, SimilarityBounds DEF MostTwice, MostSimilarity
<1>5. MatchedUpTo(i, j) = MostTwice /\ SimilarityUpTo(i, j) = MostSimilarity
  BY DEF Init, MostTwice, MostSimilarity
<1>6. 2 * Cardinality({}) = 0
  BY NoPairsMatching
<1>7. GoesOnWell({}, i, j)
  BY <1>4, <1>5, <1>6, NoPairsMatching, SumNothing DEF GoesOnWell
<1> QED BY <1>1, <1>2, <1>7 DEF Maximizing

LEMMA InputKeptWell ==
  ASSUME UNCHANGED input
  PROVE  /\ NoneNests' = NoneNests
         /\ GoesOnWell(MatchedPairs', i', j') => GoesOnWell(MatchedPairs, i, j)'
         /\ SettledWell(MatchedPairs', i', j', nlist', olist') => SettledWell(MatchedPairs, i, j, nlist, olist)'
<1>1. verdict' = verdict
  BY DEF input
<1>2. Matchings' = Matchings /\ Matchable' = Matchable
  BY InputKept
<1>3. Table' = Table
  BY TableKept
<1>4. /\ MostTwice' = MostTwice /\ MatchedUpTo(i, j)' = MatchedUpTo(i', j')
      /\ MostSimilarity' = MostSimilarity /\ SimilarityUpTo(i, j)' = SimilarityUpTo(i', j')
  BY <1>3 DEF MostTwice, MatchedUpTo, MostSimilarity, SimilarityUpTo
<1>5. SumOfSimilarity(MatchedPairs)' = SumOfSimilarity(MatchedPairs')
  BY <1>1 DEF SumOfSimilarity
<1>6. GoesOnWell(MatchedPairs', i', j') => GoesOnWell(MatchedPairs, i, j)'
  BY <1>2, <1>4, <1>5 DEF GoesOnWell
<1>7. SettledWell(MatchedPairs', i', j', nlist', olist') => SettledWell(MatchedPairs, i, j, nlist, olist)'
  BY <1>2, <1>4, <1>5 DEF SettledWell
<1>8. NoneNests' = NoneNests
  BY <1>1 DEF NoneNests
<1> QED BY <1>6, <1>7, <1>8

LEMMA NotWalkMaximizing ==
  ASSUME Maximizing, Minimizing', UNCHANGED input, UNCHANGED walk, MatchedPairs' = MatchedPairs
  PROVE  Maximizing'
<1>1. i' = i /\ j' = j /\ nlist' = nlist /\ olist' = olist
  BY DEF walk
<1>2. NoneNests => GoesOnWell(MatchedPairs', i', j') \/ SettledWell(MatchedPairs', i', j', nlist', olist')
  BY <1>1 DEF Maximizing
<1>3. NoneNests' => (GoesOnWell(MatchedPairs, i, j) \/ SettledWell(MatchedPairs, i, j, nlist, olist))'
  BY <1>2, InputKeptWell
<1> QED BY <1>3 DEF Maximizing

LEMMA WalkMaximizing ==
  ASSUME Maximizing, Minimizing', Walk PROVE Maximizing'
<1>1. UNCHANGED input /\ Walking /\ Listed(MatchedPairs, nlist, olist)
  BY DEF Walk, Maximizing, Minimizing
<1>2. ASSUME NoneNests
      PROVE  GoesOnWell(MatchedPairs', i', j') \/ SettledWell(MatchedPairs', i', j', nlist', olist')
  <2>1. CASE GoesOnWell(MatchedPairs, i, j)
    BY <1>1, <1>2, <2>1, GoesOnOrSettlesWell
  <2>2. CASE SettledWell(MatchedPairs, i, j, nlist, olist)
    <3>1. ~ Marked(i, j) /\ SettledWell(MatchedPairs, i', j', nlist, olist)
      BY <1>1, <2>2, SettledWellStays
    <3>2. MatchedPairs' = MatchedPairs /\ nlist' = nlist /\ olist' = olist
      BY <1>1, <3>1, WalkLists DEF Walk
    <3> QED BY <3>1, <3>2
  <2> QED BY <1>2, <2>1, <2>2 DEF Maximizing
<1>3. NoneNests' => (GoesOnWell(MatchedPairs, i, j) \/ SettledWell(MatchedPairs, i, j, nlist, olist))'
  BY <1>1, <1>2, InputKeptWell
<1> QED BY <1>3 DEF Maximizing

LEMMA MaximizingDone == Maximizing => MaximizesUnlessNested
<1> SUFFICES ASSUME Maximizing, NoneNests, phase = "done"
             PROVE  \E M \in MaximumMatchings :
                      /\ MatchedPairs = {c \in M : verdict[c].operation # "NEST"}
                      /\ \A N \in MaximumMatchings : SumOfSimilarity(N) <= SumOfSimilarity(M)
  BY DEF MaximizesUnlessNested, MaximizesSimilarity
<1> DEFINE M == MatchedPairs
<1>1. /\ M \in Matchings /\ 2 * Cardinality(M) = MostTwice
      /\ SumOfSimilarity(M) = MostSimilarity /\ SumOfSimilarity(M) \in Nat
      /\ Cardinality(M) \in Nat
  <2>1. M \in Matchings
    BY DEF Maximizing, GoesOnWell, SettledWell
  <2>2. Cardinality(M) \in Nat /\ SumOfSimilarity(M) \in Nat
    BY <2>1, MatchingIs, SumType DEF Maximizing, Minimizing
  <2>3. CASE GoesOnWell(MatchedPairs, i, j)
    <3>1. i < 0 /\ j < 0
      BY DEF Maximizing, Minimizing
    <3>2. MatchedUpTo(i, j) = 0 /\ SimilarityUpTo(i, j) = 0
      BY <3>1 DEF MatchedUpTo, SimilarityUpTo
    <3>3. 2 * Cardinality(M) + 0 = MostTwice /\ SumOfSimilarity(M) + 0 = MostSimilarity
      BY <2>3, <3>2 DEF GoesOnWell
    <3> HIDE DEF M
    <3> QED BY <2>1, <2>2, <3>3
  <2>4. CASE SettledWell(MatchedPairs, i, j, nlist, olist)
    BY <2>2, <2>4 DEF SettledWell
  <2> QED BY <2>3, <2>4 DEF Maximizing
<1>2. MatchedPairs = {c \in M : verdict[c].operation # "NEST"}
  <2>1. \A c \in M : c \in Modified \X Original
    BY <1>1, MatchingIs DEF Pairs
  <2> QED BY <2>1 DEF NoneNests
<1> HIDE DEF M
<1>3. ASSUME NEW N \in Matchings
      PROVE  /\ AsGood(2 * Cardinality(N), SumOfSimilarity(N), MostTwice, MostSimilarity)
             /\ Cardinality(N) \in Nat /\ SumOfSimilarity(N) \in Nat
  <2>1. Within(N, ModifiedSize - 1, OriginalSize - 1)
    <3> SUFFICES ASSUME NEW c \in N PROVE c[1] <= ModifiedSize - 1 /\ c[2] <= OriginalSize - 1
      BY DEF Within
    <3>1. c[1] \in Nat /\ c[2] \in Nat /\ c[1] < ModifiedSize /\ c[2] < OriginalSize
      BY MatchingIs, CellType
    <3> QED BY <3>1, SizesAssumption
  <2>2. /\ ModifiedSize - 1 \in Int /\ OriginalSize - 1 \in Int
        /\ ModifiedSize - 1 < ModifiedSize /\ OriginalSize - 1 < OriginalSize
    BY SizesAssumption
  <2>3. Walking
    BY DEF Maximizing, Minimizing
  <2>4. AsGood(2 * Cardinality(N), SumOfSimilarity(N), MostTwice, MostSimilarity)
    BY <2>1, <2>2, <2>3, SimilarityBound DEF MostTwice, MostSimilarity
  <2> QED BY <2>3, <2>4, MatchingIs, SumType
<1>4. ASSUME NEW N \in Matchings PROVE Cardinality(N) <= Cardinality(M)
  BY <1>1, <1>3 DEF AsGood
<1>5. M \in MaximumMatchings
  BY <1>1, <1>4 DEF MaximumMatchings
<1>6. ASSUME NEW N \in MaximumMatchings PROVE SumOfSimilarity(N) <= SumOfSimilarity(M)
  <2>1. N \in Matchings /\ Cardinality(M) <= Cardinality(N)
    BY <1>1 DEF MaximumMatchings
  <2>2. Cardinality(N) = Cardinality(M)
    BY <2>1, <1>1, <1>3, <1>4
  <2>3. AsGood(MostTwice, SumOfSimilarity(N), MostTwice, SumOfSimilarity(M))
    BY <2>1, <2>2, <1>1, <1>3
  <2>4. ~ (MostTwice < MostTwice)
    BY <1>1
  <2> QED BY <2>3, <2>4 DEF AsGood
<1> QED BY <1>2, <1>5, <1>6

\* Where no pair nests, or would nest better elsewhere, the pairs of the list have as
\* much in common as those of any way to match that leaves as few constructs unmatched.
\* (change_matcher.cpp:50-284, "maximizing similarity" at 143)
THEOREM MostSimilar == Spec => []MaximizesUnlessNested
<1>1. ASSUME Minimizing, [Next]_vars PROVE Minimizing'
  BY <1>1, MinimizingNext
<1>2. ASSUME Maximizing, [Next]_vars PROVE Maximizing'
  <2>1. Minimizing /\ Minimizing' /\ Walking
    BY <1>1, <1>2 DEF Maximizing, Minimizing
  <2>2. CASE Fill
    <3>1. UNCHANGED input /\ UNCHANGED walk /\ changes' = changes
      BY <2>2 DEF Fill
    <3>2. MatchedPairs' = MatchedPairs
      BY <3>1 DEF MatchedPairs
    <3> QED BY <1>2, <2>1, <3>1, <3>2, NotWalkMaximizing
  <2>3. CASE Walk
    BY <1>2, <2>1, <2>3, WalkMaximizing
  <2>4. CASE Return
    <3>1. UNCHANGED input /\ UNCHANGED walk
      BY <2>4 DEF Return
    <3>2. MatchedPairs' = MatchedPairs
      BY <2>1, <2>4, ReturnLists
    <3> QED BY <1>2, <2>1, <3>1, <3>2, NotWalkMaximizing
  <2>5. CASE UNCHANGED vars
    <3>1. UNCHANGED input /\ UNCHANGED walk /\ changes' = changes
      BY <2>5 DEF vars
    <3>2. MatchedPairs' = MatchedPairs
      BY <3>1 DEF MatchedPairs
    <3> QED BY <1>2, <2>1, <3>1, <3>2, NotWalkMaximizing
  <2> QED BY <1>2, <2>2, <2>3, <2>4, <2>5 DEF Next
<1> QED BY <1>2, InitMaximizing, MaximizingDone, PTL DEF Spec
=============================================================================
