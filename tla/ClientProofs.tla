----------------------------- MODULE ClientProofs -----------------------------
(***************************************************************************)
(* Proofs about the list of files, for any file and any chunks in which it *)
(* is read: the buffer is a part of the file, and what readline returns is *)
(* a line of it.                                                           *)
(***************************************************************************)
EXTENDS Client, SourceManagerProofs, SharedTheorems

Streams ==
  [file : Seq(STRING), content : Seq(STRING), unread : Seq(STRING), chunk : Nat \ {0},
   startpos : Nat, endpos : Nat, eof : BOOLEAN, done : BOOLEAN, left : BOOLEAN]

\* How much of the file was taken off the front of the buffer.
Offset(s) == Len(s.file) - Len(s.content) - Len(s.unread)

\* The buffer, and behind it what is not yet read, are the rest of the file.
Follows(s) ==
  /\ Offset(s) \in Nat
  /\ \A i \in 1 .. Len(s.content) : s.content[i] = s.file[Offset(s) + i]
  /\ \A i \in 1 .. Len(s.unread) : s.unread[i] = s.file[Offset(s) + Len(s.content) + i]

\* Where in the file the line begins, where it is looked at, and where the buffer ends.
Begin(s) == Offset(s) + s.startpos

End(s) == Offset(s) + s.endpos

Limit(s) == Offset(s) + Len(s.content)

\* A line begins behind a line feed; behind the last line is the end of the file.
BeginsLine(s) == Begin(s) = 0 \/ Begin(s) > Len(s.file) \/ s.file[Begin(s)] = "\n"

\* Between two lines.
Waits(s) ==
  /\ BeginsLine(s)
  /\ Begin(s) <= Limit(s) \/ s.unread = <<>>
  /\ s.eof => s.unread = <<>> /\ Begin(s) >= Limit(s)

\* In the loop of readline: no line feed was passed, and while the end of the file is not
\* known there is more in the buffer.
Looks(s) ==
  /\ BeginsLine(s)
  /\ Begin(s) <= End(s)
  /\ \A i \in Begin(s) + 1 .. End(s) : i <= Limit(s) => s.file[i] # "\n"
  /\ s.eof \/ End(s) < Limit(s)
  /\ s.eof => s.unread = <<>> /\ End(s) >= Limit(s)
  /\ s.left => s.eof /\ End(s) > Limit(s)

\* What Refill takes off the front.
Removed(s) == Shrunk(s, IF s.startpos >= 1 THEN s.startpos - 1 ELSE 0)

\* The buffer without its first elements.
Shrink(s, k) ==
  [s EXCEPT !.content = SubSeq(@, k + 1, Len(@)),
            !.startpos = @ - k, !.endpos = @ - k, !.eof = s.unread = <<>>]

\* What Grow adds.
Added(s) == IF s.chunk < Len(s.unread) THEN s.chunk ELSE Len(s.unread)

\* A part of a row.
LEMMA PartOfRow ==
  ASSUME NEW S, NEW q \in Seq(S), NEW m \in 1 .. Len(q) + 1, NEW n \in m - 1 .. Len(q)
  PROVE  /\ SubSeq(q, m, n) \in Seq(S)
         /\ Len(SubSeq(q, m, n)) = n - m + 1
         /\ \A i \in 1 .. n - m + 1 : SubSeq(q, m, n)[i] = q[m + i - 1]
<1>1. Len(q) \in Nat /\ m \in Int /\ n \in Int
  BY LenProperties
<1>2. \A i \in m .. n : q[i] \in S
  BY <1>1, ElementOfSeq
<1>3. /\ SubSeq(q, m, n) \in Seq(S)
      /\ Len(SubSeq(q, m, n)) = IF m <= n THEN n - m + 1 ELSE 0
      /\ \A i \in 1 .. n - m + 1 : SubSeq(q, m, n)[i] = q[m + i - 1]
  BY <1>1, <1>2, SubSeqProperties
<1> QED
  BY <1>1, <1>3

\* A row without its first elements.
LEMMA RestOfRow ==
  ASSUME NEW S, NEW q \in Seq(S), NEW k \in 0 .. Len(q)
  PROVE  /\ SubSeq(q, k + 1, Len(q)) \in Seq(S)
         /\ Len(SubSeq(q, k + 1, Len(q))) = Len(q) - k
         /\ \A i \in 1 .. Len(q) - k : SubSeq(q, k + 1, Len(q))[i] = q[k + i]
<1> DEFINE m == k + 1
           n == Len(q)
<1>1. n \in Nat /\ k \in Int
  BY LenProperties
<1>2. m \in 1 .. n + 1 /\ n \in m - 1 .. n
  BY <1>1
<1> HIDE DEF m, n
<1>3. /\ SubSeq(q, m, n) \in Seq(S)
      /\ Len(SubSeq(q, m, n)) = n - m + 1
      /\ \A i \in 1 .. n - m + 1 : SubSeq(q, m, n)[i] = q[m + i - 1]
  BY <1>2, PartOfRow DEF n
<1>4. n - m + 1 = n - k /\ \A i \in Int : m + i - 1 = k + i
  BY <1>1 DEF m
<1>5. \A i \in 1 .. n - k : SubSeq(q, m, n)[i] = q[k + i]
  BY <1>1, <1>3, <1>4
<1> QED
  BY <1>3, <1>4, <1>5 DEF m, n

\* A chunk more behind the buffer: every place stays what it was, and Limit moves on.
LEMMA GrowFollows ==
  ASSUME NEW s \in Streams, Follows(s)
  PROVE  /\ Grow(s) \in Streams
         /\ Follows(Grow(s))
         /\ Begin(Grow(s)) = Begin(s) /\ End(Grow(s)) = End(s)
         /\ Limit(Grow(s)) >= Limit(s) /\ (s.unread # <<>> => Limit(Grow(s)) > Limit(s))
         /\ s.unread = <<>> => Grow(s).unread = <<>>
         /\ Grow(s).file = s.file /\ Grow(s).startpos = s.startpos /\ Grow(s).endpos = s.endpos
         /\ Grow(s).eof = s.eof /\ Grow(s).left = s.left
<1> DEFINE taken == SubSeq(s.unread, 1, Added(s))
           kept == SubSeq(s.unread, Added(s) + 1, Len(s.unread))
<1>1. /\ s.file \in Seq(STRING) /\ s.content \in Seq(STRING) /\ s.unread \in Seq(STRING)
      /\ s.chunk \in Nat \ {0} /\ s.startpos \in Nat /\ s.endpos \in Nat
      /\ Len(s.file) \in Nat /\ Len(s.content) \in Nat /\ Len(s.unread) \in Nat
  BY LenProperties DEF Streams
<1>2. Added(s) \in 0 .. Len(s.unread) /\ (s.unread # <<>> => Added(s) > 0)
  BY <1>1, EmptySeq DEF Added
<1>3. /\ taken \in Seq(STRING) /\ Len(taken) = Added(s)
      /\ \A i \in 1 .. Added(s) : taken[i] = s.unread[i]
  BY <1>1, <1>2, PartOfRow
<1>4. /\ kept \in Seq(STRING) /\ Len(kept) = Len(s.unread) - Added(s)
      /\ \A i \in 1 .. Len(s.unread) - Added(s) : kept[i] = s.unread[Added(s) + i]
  BY <1>1, <1>2, RestOfRow
<1>5. Grow(s) = [s EXCEPT !.content = s.content \o taken, !.unread = kept]
  BY DEF Grow, Added
<1>6. /\ s.content \o taken \in Seq(STRING)
      /\ Len(s.content \o taken) = Len(s.content) + Added(s)
      /\ \A i \in 1 .. Len(s.content) : (s.content \o taken)[i] = s.content[i]
      /\ \A i \in Len(s.content) + 1 .. Len(s.content) + Added(s) :
           (s.content \o taken)[i] = s.unread[i - Len(s.content)]
  <2> HIDE DEF taken
  <2>1. /\ s.content \o taken \in Seq(STRING)
        /\ Len(s.content \o taken) = Len(s.content) + Len(taken)
        /\ \A i \in 1 .. Len(s.content) + Len(taken) :
             (s.content \o taken)[i] = IF i <= Len(s.content) THEN s.content[i] ELSE taken[i - Len(s.content)]
    <3> DEFINE content == s.content
               S == STRING
    <3>1. content \in Seq(S) /\ taken \in Seq(S)
      BY <1>1, <1>3
    <3> HIDE DEF content, S
    <3>2. /\ content \o taken \in Seq(S)
          /\ Len(content \o taken) = Len(content) + Len(taken)
          /\ \A i \in 1 .. Len(content) + Len(taken) :
               (content \o taken)[i] = IF i <= Len(content) THEN content[i] ELSE taken[i - Len(content)]
      BY <3>1, ConcatProperties
    <3> QED BY <3>2 DEF content, S
  <2>2. ASSUME NEW i \in Len(s.content) + 1 .. Len(s.content) + Added(s)
        PROVE  (s.content \o taken)[i] = s.unread[i - Len(s.content)]
    <3>1. i - Len(s.content) \in 1 .. Added(s) /\ ~ i <= Len(s.content) /\ i \in 1 .. Len(s.content) + Len(taken)
      BY <1>1, <1>2, <1>3
    <3> QED BY <1>3, <2>1, <3>1
  <2> QED BY <1>1, <1>2, <1>3, <2>1, <2>2
<1> HIDE DEF taken, kept
<1>7. /\ Grow(s) \in Streams
      /\ Grow(s).content = s.content \o taken /\ Grow(s).unread = kept
      /\ Grow(s).file = s.file /\ Grow(s).startpos = s.startpos /\ Grow(s).endpos = s.endpos
      /\ Grow(s).eof = s.eof /\ Grow(s).left = s.left
  BY <1>1, <1>4, <1>5, <1>6 DEF Streams
<1>8. Offset(Grow(s)) = Offset(s)
  <2> DEFINE f == Len(s.file)
             c == Len(s.content)
             u == Len(s.unread)
             a == Added(s)
             before == Offset(s)
             after == Offset(Grow(s))
  <2>1. /\ Len(Grow(s).content) = c + a /\ Len(Grow(s).unread) = u - a
        /\ f \in Int /\ c \in Int /\ u \in Int /\ a \in Int
    BY <1>1, <1>2, <1>4, <1>6, <1>7
  <2>2. before = f - c - u /\ after = f - (c + a) - (u - a)
    BY <1>7, <2>1 DEF Offset
  <2> HIDE DEF f, c, u, a, before, after
  <2>3. after = before
    BY <2>1, <2>2
  <2> QED BY <2>3 DEF after, before
<1>9. Follows(Grow(s))
  <2>1. Offset(s) \in Nat
    BY DEF Follows
  <2>2. ASSUME NEW i \in 1 .. Len(s.content) + Added(s)
        PROVE  (s.content \o taken)[i] = s.file[Offset(s) + i]
    <3>1. CASE i \in 1 .. Len(s.content)
      BY <3>1, <1>6 DEF Follows
    <3>2. CASE i \in Len(s.content) + 1 .. Len(s.content) + Added(s)
      <4> DEFINE j == i - Len(s.content)
      <4>1. j \in 1 .. Len(s.unread)
        BY <3>2, <1>1, <1>2
      <4>2. (s.content \o taken)[i] = s.unread[j]
        BY <3>2, <1>6
      <4>3. s.unread[j] = s.file[Offset(s) + Len(s.content) + j]
        BY <4>1 DEF Follows
      <4>4. Offset(s) + Len(s.content) + j = Offset(s) + i
        <5>1. Len(s.content) \in Int /\ i \in Int
          BY <1>1, <1>2, <3>2
        <5> QED BY <2>1, <5>1
      <4> QED BY <4>2, <4>3, <4>4
    <3>3. i \in 1 .. Len(s.content) \/ i \in Len(s.content) + 1 .. Len(s.content) + Added(s)
      BY <1>1, <1>2
    <3> QED BY <3>1, <3>2, <3>3
  <2>3. ASSUME NEW i \in 1 .. Len(s.unread) - Added(s)
        PROVE  kept[i] = s.file[Offset(s) + (Len(s.content) + Added(s)) + i]
    <3>1. Added(s) + i \in 1 .. Len(s.unread)
      BY <1>1, <1>2
    <3>2. s.unread[Added(s) + i] = s.file[Offset(s) + Len(s.content) + (Added(s) + i)]
      BY <3>1 DEF Follows
    <3> DEFINE o == Offset(s)
               c == Len(s.content)
               a == Added(s)
    <3>3. o \in Int /\ c \in Int /\ a \in Int /\ i \in Int
      BY <1>1, <1>2, <2>1
    <3> HIDE DEF o, c, a
    <3>4. o + c + (a + i) = o + (c + a) + i
      BY <3>3
    <3>5. Offset(s) + Len(s.content) + (Added(s) + i) = Offset(s) + (Len(s.content) + Added(s)) + i
      BY <3>4 DEF o, c, a
    <3>6. kept[i] = s.unread[Added(s) + i]
      BY <1>4
    <3> QED BY ONLY <3>2, <3>5, <3>6
  <2>4. /\ Len(Grow(s).content) = Len(s.content) + Added(s)
        /\ Len(Grow(s).unread) = Len(s.unread) - Added(s)
    BY <1>4, <1>6, <1>7
  <2>5. \A i \in 1 .. Len(Grow(s).content) :
          Grow(s).content[i] = Grow(s).file[Offset(Grow(s)) + i]
    BY <1>7, <1>8, <2>2, <2>4
  <2>6. \A i \in 1 .. Len(Grow(s).unread) :
          Grow(s).unread[i] = Grow(s).file[Offset(Grow(s)) + Len(Grow(s).content) + i]
    BY <1>7, <1>8, <2>3, <2>4
  <2>7. Offset(Grow(s)) \in Nat
    BY <1>8, <2>1
  <2> QED BY ONLY <2>5, <2>6, <2>7 DEF Follows
<1>10. s.unread = <<>> => Grow(s).unread = <<>>
  BY <1>1, <1>2, <1>4, <1>7, EmptySeq
<1>11. /\ Offset(s) \in Nat /\ Len(s.content) \in Nat /\ Added(s) \in Nat
       /\ Len(Grow(s).content) = Len(s.content) + Added(s)
  BY <1>1, <1>2, <1>6, <1>7 DEF Follows
<1>12. /\ Begin(Grow(s)) = Begin(s) /\ End(Grow(s)) = End(s)
       /\ Limit(Grow(s)) = Offset(s) + (Len(s.content) + Added(s))
  BY <1>7, <1>8, <1>11 DEF Begin, End, Limit
<1>13. Limit(Grow(s)) >= Limit(s) /\ (s.unread # <<>> => Limit(Grow(s)) > Limit(s))
  <2> DEFINE o == Offset(s)
             c == Len(s.content)
             a == Added(s)
             after == Limit(Grow(s))
             before == Limit(s)
  <2>1. after = o + (c + a) /\ before = o + c /\ o \in Nat /\ c \in Nat /\ a \in Nat /\ (s.unread # <<>> => a > 0)
    BY <1>2, <1>11, <1>12 DEF Limit
  <2> HIDE DEF o, c, a, after, before
  <2>2. after >= before /\ (s.unread # <<>> => after > before)
    BY <2>1
  <2> QED BY <2>2 DEF after, before
<1> QED BY <1>7, <1>8, <1>9, <1>10, <1>12, <1>13

\* What is in front of the line is taken off the buffer: no place in the file changes.
LEMMA ShrinkFollows ==
  ASSUME NEW s \in Streams, Follows(s),
         NEW k \in Nat, k <= Len(s.content), k <= s.startpos, k <= s.endpos
  PROVE  /\ Shrink(s, k) \in Streams
         /\ Follows(Shrink(s, k))
         /\ Begin(Shrink(s, k)) = Begin(s) /\ End(Shrink(s, k)) = End(s)
         /\ Limit(Shrink(s, k)) = Limit(s)
         /\ Shrink(s, k).file = s.file /\ Shrink(s, k).unread = s.unread
         /\ Shrink(s, k).left = s.left /\ Shrink(s, k).eof = (s.unread = <<>>)
<1> DEFINE kept == SubSeq(s.content, k + 1, Len(s.content))
           t == Shrink(s, k)
<1>1. /\ s.file \in Seq(STRING) /\ s.content \in Seq(STRING) /\ s.unread \in Seq(STRING)
      /\ s.chunk \in Nat \ {0} /\ s.startpos \in Nat /\ s.endpos \in Nat
      /\ Len(s.file) \in Nat /\ Len(s.content) \in Nat /\ Len(s.unread) \in Nat
  BY LenProperties DEF Streams
<1>2. /\ kept \in Seq(STRING) /\ Len(kept) = Len(s.content) - k
      /\ \A i \in 1 .. Len(s.content) - k : kept[i] = s.content[k + i]
  <2>1. k \in 0 .. Len(s.content)
    BY <1>1
  <2> QED BY <1>1, <2>1, RestOfRow
<1> HIDE DEF kept
<1>3. t = [s EXCEPT !.content = kept, !.startpos = @ - k, !.endpos = @ - k, !.eof = s.unread = <<>>]
  BY DEF kept, Shrink
<1> HIDE DEF t
<1>4. s.startpos - k \in Nat /\ s.endpos - k \in Nat
  BY <1>1
<1>5. /\ t \in Streams
      /\ t.content = kept /\ t.startpos = s.startpos - k /\ t.endpos = s.endpos - k /\ t.eof = (s.unread = <<>>)
      /\ t.file = s.file /\ t.unread = s.unread /\ t.left = s.left
  BY <1>1, <1>2, <1>3, <1>4 DEF Streams
<1>6. /\ Offset(t) = Offset(s) + k /\ Offset(t) \in Nat
      /\ Begin(t) = Begin(s) /\ End(t) = End(s) /\ Limit(t) = Limit(s)
  <2> DEFINE f == Len(s.file)
             c == Len(s.content)
             u == Len(s.unread)
             b == s.startpos
             e == s.endpos
             before == Offset(s)
             after == Offset(t)
  <2>1. f \in Int /\ c \in Int /\ u \in Int /\ b \in Int /\ e \in Int
    BY <1>1
  <2>2. before = f - c - u /\ before \in Nat /\ after = f - (c - k) - u
    BY <1>2, <1>5 DEF Follows, Offset
  <2>3. /\ Begin(s) = before + b /\ End(s) = before + e /\ Limit(s) = before + c
        /\ Begin(t) = after + (b - k) /\ End(t) = after + (e - k) /\ Limit(t) = after + (c - k)
    BY <1>2, <1>5 DEF Begin, End, Limit
  <2> HIDE DEF f, c, u, b, e, before, after
  <2>4. after = before + k /\ after \in Nat
    BY <2>1, <2>2
  <2>5. after + (b - k) = before + b /\ after + (e - k) = before + e /\ after + (c - k) = before + c
    <3>1. ASSUME NEW n \in Int
          PROVE  after + (n - k) = before + n
      BY <2>2, <2>4
    <3> QED BY <2>1, <3>1
  <2> QED BY <2>3, <2>4, <2>5 DEF before, after
<1>7. Follows(t)
  <2>1. Offset(s) \in Nat /\ Len(t.content) = Len(s.content) - k
    BY <1>2, <1>5 DEF Follows
  <2>2. ASSUME NEW i \in 1 .. Len(s.content) - k
        PROVE  kept[i] = s.file[Offset(t) + i]
    <3>1. k + i \in 1 .. Len(s.content) /\ i \in Int /\ k \in Int
      BY <1>1
    <3>2. s.content[k + i] = s.file[Offset(s) + (k + i)]
      BY <3>1 DEF Follows
    <3>3. Offset(s) + (k + i) = Offset(s) + k + i
      BY <2>1, <3>1
    <3> QED BY <1>2, <1>6, <3>2, <3>3
  <2>3. ASSUME NEW i \in 1 .. Len(s.unread)
        PROVE  s.unread[i] = s.file[Offset(t) + Len(t.content) + i]
    <3>1. s.unread[i] = s.file[Offset(s) + Len(s.content) + i]
      BY DEF Follows
    <3>2. Offset(t) + Len(t.content) = Offset(s) + Len(s.content)
      BY <1>6 DEF Limit
    <3> QED BY <3>1, <3>2
  <2> QED BY <1>5, <1>6, <2>1, <2>2, <2>3 DEF Follows
<1> QED BY <1>5, <1>6, <1>7 DEF t

\* What was taken off the front and put behind the buffer changes positions, not places.
LEMMA RefillFollows ==
  ASSUME NEW s \in Streams, Follows(s), s.startpos <= s.endpos
  PROVE  /\ Refill(s) \in Streams
         /\ Follows(Refill(s))
         /\ Begin(Refill(s)) = Begin(s) /\ End(Refill(s)) = End(s)
         /\ Limit(Refill(s)) >= Limit(s) /\ (s.unread # <<>> => Limit(Refill(s)) > Limit(s))
         /\ Refill(s).eof => s.unread = <<>> /\ Refill(s).unread = <<>>
         /\ s.unread = <<>> => Refill(s).eof
         /\ Refill(s).file = s.file /\ Refill(s).left = s.left
<1> DEFINE k == Removed(s)
           t == Shrink(s, k)
<1>1. Len(s.content) \in Nat /\ s.startpos \in Nat /\ s.endpos \in Nat
  BY LenProperties DEF Streams
<1>2. k \in Nat /\ k <= Len(s.content) /\ k <= s.startpos /\ k <= s.endpos
  BY <1>1 DEF Removed, Shrunk
<1>3. Refill(s) = Grow(t)
  BY DEF Refill, Removed, Shrink
<1> HIDE DEF k
<1>4. /\ t \in Streams /\ Follows(t)
      /\ Begin(t) = Begin(s) /\ End(t) = End(s) /\ Limit(t) = Limit(s)
      /\ t.file = s.file /\ t.unread = s.unread /\ t.left = s.left /\ t.eof = (s.unread = <<>>)
  BY <1>2, ShrinkFollows
<1> HIDE DEF t
<1>5. /\ Grow(t) \in Streams /\ Follows(Grow(t))
      /\ Begin(Grow(t)) = Begin(t) /\ End(Grow(t)) = End(t)
      /\ Limit(Grow(t)) >= Limit(t) /\ (t.unread # <<>> => Limit(Grow(t)) > Limit(t))
      /\ t.unread = <<>> => Grow(t).unread = <<>>
      /\ Grow(t).file = t.file /\ Grow(t).eof = t.eof /\ Grow(t).left = t.left
  BY <1>4, GrowFollows
<1> QED BY <1>3, <1>4, <1>5

\* Places in the buffer are places in the file.
LEMMA PlacesFollow ==
  ASSUME NEW s \in Streams, Follows(s)
  PROVE  /\ s.startpos \in Nat /\ s.endpos \in Nat /\ Len(s.content) \in Nat /\ Len(s.file) \in Nat
         /\ Begin(s) \in Nat /\ End(s) \in Nat /\ Limit(s) \in Nat
         /\ Limit(s) <= Len(s.file)
         /\ s.unread = <<>> => Limit(s) = Len(s.file)
         /\ s.startpos < Len(s.content) <=> Begin(s) < Limit(s)
         /\ s.endpos < Len(s.content) <=> End(s) < Limit(s)
         /\ s.startpos <= s.endpos <=> Begin(s) <= End(s)
         /\ s.endpos < Len(s.content) => ContentAt(s, s.endpos) = s.file[End(s) + 1]
<1>1. /\ s.file \in Seq(STRING) /\ s.content \in Seq(STRING) /\ s.unread \in Seq(STRING)
      /\ s.startpos \in Nat /\ s.endpos \in Nat
      /\ Len(s.file) \in Nat /\ Len(s.content) \in Nat /\ Len(s.unread) \in Nat
  BY LenProperties DEF Streams
<1>2. s.unread = <<>> => Len(s.unread) = 0
  BY <1>1, EmptySeq
<1>3. /\ Begin(s) \in Nat /\ End(s) \in Nat /\ Limit(s) \in Nat
      /\ Limit(s) <= Len(s.file)
      /\ s.unread = <<>> => Limit(s) = Len(s.file)
      /\ s.startpos < Len(s.content) <=> Begin(s) < Limit(s)
      /\ s.endpos < Len(s.content) <=> End(s) < Limit(s)
      /\ s.startpos <= s.endpos <=> Begin(s) <= End(s)
  <2> DEFINE f == Len(s.file)
             c == Len(s.content)
             u == Len(s.unread)
             b == s.startpos
             e == s.endpos
             o == Offset(s)
  <2>1. f \in Nat /\ c \in Nat /\ u \in Nat /\ b \in Nat /\ e \in Nat /\ (s.unread = <<>> => u = 0)
    BY <1>1, <1>2
  <2>2. o = f - c - u /\ o \in Nat
    BY DEF Follows, Offset
  <2>3. Begin(s) = o + b /\ End(s) = o + e /\ Limit(s) = o + c
    BY DEF Begin, End, Limit
  <2> HIDE DEF f, c, u, b, e, o
  <2>4. /\ o + b \in Nat /\ o + e \in Nat /\ o + c \in Nat /\ o + c <= f /\ (u = 0 => o + c = f)
        /\ (b < c <=> o + b < o + c) /\ (e < c <=> o + e < o + c) /\ (b <= e <=> o + b <= o + e)
    BY <2>1, <2>2
  <2>5. /\ o + b \in Nat /\ o + e \in Nat /\ o + c \in Nat /\ o + c <= f /\ (s.unread = <<>> => o + c = f)
        /\ (b < c <=> o + b < o + c) /\ (e < c <=> o + e < o + c) /\ (b <= e <=> o + b <= o + e)
    BY <2>1, <2>4
  <2> QED BY <2>3, <2>5 DEF f, c, b, e
<1>4. ASSUME s.endpos < Len(s.content)
      PROVE  ContentAt(s, s.endpos) = s.file[End(s) + 1]
  <2>1. s.endpos + 1 \in 1 .. Len(s.content)
    BY <1>1, <1>4
  <2>2. s.content[s.endpos + 1] = s.file[Offset(s) + (s.endpos + 1)]
    BY <2>1 DEF Follows
  <2>3. Offset(s) + (s.endpos + 1) = End(s) + 1
    <3> DEFINE o == Offset(s)
               e == s.endpos
    <3>1. o \in Nat /\ e \in Nat /\ End(s) = o + e
      BY <1>1 DEF Follows, End
    <3> HIDE DEF o, e
    <3>2. o + (e + 1) = o + e + 1
      BY <3>1
    <3> QED BY <3>1, <3>2 DEF o, e
  <2> QED BY <1>4, <2>2, <2>3 DEF ContentAt
<1> QED BY <1>1, <1>3, <1>4

\* A file is open at its first line.
LEMMA OpenWaits ==
  ASSUME NEW file \in Seq(STRING), NEW chunk \in Nat \ {0}
  PROVE  /\ Open(file, chunk) \in Streams /\ Follows(Open(file, chunk)) /\ Waits(Open(file, chunk))
         /\ Open(file, chunk).file = file /\ Begin(Open(file, chunk)) = 0
<1> DEFINE s == [file |-> file, content |-> <<>>, unread |-> file, chunk |-> chunk, startpos |-> 0, endpos |-> 0,
                 eof |-> FALSE, done |-> file = <<>>, left |-> FALSE]
<1>1. Len(file) \in Nat
  BY LenProperties
<1>2. <<>> \in Seq(STRING) /\ Len(<<>>) = 0
  BY EmptySeq
<1>3. s \in Streams
  <2>1. (file = <<>>) \in BOOLEAN
    OBVIOUS
  <2> QED BY <1>2, <2>1 DEF Streams
<1>4. Offset(s) = 0
  <2>1. Len(s.file) = Len(file) /\ Len(s.content) = 0 /\ Len(s.unread) = Len(file)
    BY <1>2
  <2> HIDE DEF s
  <2> QED BY <1>1, <2>1 DEF Offset
<1>5. Follows(s) /\ Begin(s) = 0 /\ Limit(s) = 0 /\ s.file = file /\ s.eof = FALSE
  <2>1. s.file = file /\ s.unread = file /\ Len(s.content) = 0 /\ s.startpos = 0 /\ s.eof = FALSE
    BY <1>2
  <2> HIDE DEF s
  <2> QED BY <1>1, <1>4, <2>1 DEF Follows, Begin, Limit
<1>6. Open(file, chunk) = Grow(s)
  BY DEF Open
<1> HIDE DEF s
<1>7. /\ Grow(s) \in Streams /\ Follows(Grow(s)) /\ Begin(Grow(s)) = 0 /\ Limit(Grow(s)) >= 0
      /\ Grow(s).file = file /\ Grow(s).eof = FALSE
  BY <1>3, <1>5, GrowFollows
<1> QED BY <1>6, <1>7 DEF Waits, BeginsLine
-----------------------------------------------------------------------------
\* readline begins with a line that is in the buffer, unless the file ends.
LEMMA LineBegunLooks ==
  ASSUME NEW s \in Streams, Follows(s), Waits(s)
  PROVE  /\ LineBegun(s) \in Streams /\ Follows(LineBegun(s)) /\ Looks(LineBegun(s))
         /\ LineBegun(s).file = s.file /\ Begin(LineBegun(s)) = Begin(s)
<1> DEFINE t == [s EXCEPT !.endpos = s.startpos, !.left = FALSE]
<1>1. /\ t \in Streams
      /\ t.file = s.file /\ t.content = s.content /\ t.unread = s.unread /\ t.eof = s.eof
      /\ t.startpos = s.startpos /\ t.endpos = s.startpos /\ t.left = FALSE
  BY DEF Streams
<1>2. LineBegun(s) = IF t.endpos >= Len(t.content) THEN Refill(t) ELSE t
  BY DEF LineBegun
<1> HIDE DEF t
<1>3. Offset(t) = Offset(s)
  BY <1>1 DEF Offset
<1>4. /\ Follows(t) /\ Begin(t) = Begin(s) /\ End(t) = Begin(s) /\ Limit(t) = Limit(s)
  BY <1>1, <1>3 DEF Follows, Begin, End, Limit
<1>5. /\ t.startpos \in Nat /\ t.endpos \in Nat /\ Len(t.content) \in Nat
      /\ Begin(t) \in Nat /\ End(t) \in Nat /\ Limit(t) \in Nat
      /\ t.endpos < Len(t.content) <=> End(t) < Limit(t)
  BY <1>1, <1>4, PlacesFollow
<1>6. /\ BeginsLine(t) /\ (Begin(t) <= Limit(t) \/ t.unread = <<>>)
      /\ t.eof => t.unread = <<>> /\ Begin(t) >= Limit(t)
  BY <1>1, <1>4 DEF Waits, BeginsLine
<1>7. CASE t.endpos < Len(t.content)
  <2>1. LineBegun(s) = t
    BY <1>2, <1>5, <1>7
  <2>2. Looks(t)
    BY <1>1, <1>4, <1>5, <1>6, <1>7 DEF Looks
  <2> QED BY <1>1, <1>4, <2>1, <2>2
<1>8. CASE ~ t.endpos < Len(t.content)
  <2> DEFINE r == Refill(t)
  <2>1. LineBegun(s) = r
    BY <1>2, <1>5, <1>8
  <2>2. t.startpos <= t.endpos
    BY <1>1, <1>5
  <2>3. /\ r \in Streams /\ Follows(r)
        /\ Begin(r) = Begin(t) /\ End(r) = End(t)
        /\ Limit(r) >= Limit(t) /\ (t.unread # <<>> => Limit(r) > Limit(t))
        /\ r.eof => t.unread = <<>> /\ r.unread = <<>>
        /\ t.unread = <<>> => r.eof
        /\ r.file = t.file /\ r.left = t.left
    BY <1>1, <1>4, <2>2, RefillFollows
  <2> HIDE DEF r
  <2>4. Limit(r) \in Nat
    BY <2>3, PlacesFollow
  <2>5. BeginsLine(r)
    BY <1>6, <2>3 DEF BeginsLine
  <2>6. r.eof \/ End(r) < Limit(r)
    BY <1>4, <1>5, <1>6, <2>3, <2>4
  <2>7. Begin(r) = End(r) /\ r.left = FALSE
    BY <1>1, <1>4, <2>3
  <2>8. r.eof => r.unread = <<>> /\ End(r) >= Limit(r)
    <3>1. /\ t.unread = <<>> => Limit(t) = Len(t.file)
          /\ r.unread = <<>> => Limit(r) = Len(r.file)
      BY <1>1, <1>4, <2>3, PlacesFollow
    <3>2. End(t) >= Limit(t)
      BY <1>5, <1>8
    <3> QED BY <2>3, <3>1, <3>2
  <2>9. Looks(r)
    BY <1>4, <1>5, <2>3, <2>5, <2>6, <2>7, <2>8 DEF Looks
  <2> QED BY <1>1, <1>4, <2>1, <2>3, <2>9
<1> QED BY <1>7, <1>8

\* A turn of its loop passes one character, which is no line feed.
LEMMA LookedOnLooks ==
  ASSUME NEW s \in Streams, Follows(s), Looks(s), ~ IsAtEnd(s)
  PROVE  /\ LookedOn(s) \in Streams /\ Follows(LookedOn(s)) /\ Looks(LookedOn(s))
         /\ LookedOn(s).file = s.file /\ Begin(LookedOn(s)) = Begin(s)
<1> DEFINE t == [s EXCEPT !.endpos = @ + 1]
           l == [t EXCEPT !.left = TRUE]
<1>1. /\ s.startpos \in Nat /\ s.endpos \in Nat /\ Len(s.content) \in Nat
      /\ Begin(s) \in Nat /\ End(s) \in Nat /\ Limit(s) \in Nat
      /\ s.endpos < Len(s.content) <=> End(s) < Limit(s)
      /\ s.startpos <= s.endpos <=> Begin(s) <= End(s)
      /\ s.endpos < Len(s.content) => ContentAt(s, s.endpos) = s.file[End(s) + 1]
  BY PlacesFollow
<1>2. /\ t \in Streams
      /\ t.file = s.file /\ t.content = s.content /\ t.unread = s.unread /\ t.eof = s.eof
      /\ t.startpos = s.startpos /\ t.endpos = s.endpos + 1 /\ t.left = s.left
  <2> DEFINE e == s.endpos + 1
  <2>1. e \in Nat
    BY <1>1
  <2>2. t = [s EXCEPT !.endpos = e]
    OBVIOUS
  <2> HIDE DEF e, t
  <2>3. /\ t \in Streams
        /\ t.file = s.file /\ t.content = s.content /\ t.unread = s.unread /\ t.eof = s.eof
        /\ t.startpos = s.startpos /\ t.endpos = e /\ t.left = s.left
    BY <2>1, <2>2 DEF Streams
  <2> QED BY <2>3 DEF e
<1>3. LookedOn(s) = IF t.endpos < Len(s.content) THEN t ELSE IF s.eof THEN l ELSE Refill(t)
  BY DEF LookedOn
<1>4. /\ l \in Streams
      /\ l.file = s.file /\ l.content = s.content /\ l.unread = s.unread /\ l.eof = s.eof
      /\ l.startpos = s.startpos /\ l.endpos = s.endpos + 1 /\ l.left = TRUE
  BY <1>2 DEF Streams
<1> HIDE DEF t, l
<1>5. ~ s.left /\ (End(s) < Limit(s) => s.file[End(s) + 1] # "\n")
  BY <1>1 DEF IsAtEnd
<1>6. \A i \in Begin(s) + 1 .. End(s) + 1 : i <= Limit(s) => s.file[i] # "\n"
  <2> TAKE i \in Begin(s) + 1 .. End(s) + 1
  <2>1. CASE i \in Begin(s) + 1 .. End(s)
    BY <2>1 DEF Looks
  <2>2. CASE i = End(s) + 1
    BY <1>1, <1>5, <2>2
  <2>3. i \in Begin(s) + 1 .. End(s) \/ i = End(s) + 1
    BY <1>1
  <2> QED BY <2>1, <2>2, <2>3
<1>7. \A w \in {t, l} :
        /\ Follows(w) /\ BeginsLine(w)
        /\ Begin(w) = Begin(s) /\ End(w) = End(s) + 1 /\ Limit(w) = Limit(s)
  <2> TAKE w \in {t, l}
  <2>1. /\ w.file = s.file /\ w.content = s.content /\ w.unread = s.unread
        /\ w.startpos = s.startpos /\ w.endpos = s.endpos + 1
    BY <1>2, <1>4
  <2>2. Offset(w) = Offset(s)
    BY <2>1 DEF Offset
  <2>3. Follows(w) /\ Begin(w) = Begin(s) /\ Limit(w) = Limit(s)
    BY <2>1, <2>2 DEF Follows, Begin, Limit
  <2>4. End(w) = End(s) + 1
    <3> DEFINE o == Offset(s)
               e == s.endpos
    <3>1. o \in Nat /\ e \in Nat /\ End(s) = o + e /\ End(w) = o + (e + 1)
      BY <1>1, <2>1, <2>2 DEF End, Follows
    <3> HIDE DEF o, e
    <3>2. o + (e + 1) = o + e + 1
      BY <3>1
    <3> QED BY <3>1, <3>2
  <2>5. BeginsLine(w)
    BY <2>1, <2>3 DEF BeginsLine, Looks
  <2> QED BY <2>3, <2>4, <2>5
<1>8. CASE t.endpos < Len(s.content)
  <2>1. End(t) < Limit(t)
    BY <1>2, <1>7, <1>8, PlacesFollow
  <2>2. ~ t.eof
    BY <1>1, <1>2, <1>7, <2>1 DEF Looks
  <2>3. Looks(t)
    BY <1>1, <1>2, <1>5, <1>6, <1>7, <2>1, <2>2 DEF Looks
  <2> QED BY <1>2, <1>3, <1>7, <1>8, <2>3
<1>9. CASE ~ t.endpos < Len(s.content) /\ s.eof
  <2>1. End(l) > Limit(l)
    BY <1>1, <1>7, <1>9 DEF Looks
  <2>2. Looks(l)
    BY <1>1, <1>4, <1>6, <1>7, <1>9, <2>1 DEF Looks
  <2> QED BY <1>3, <1>4, <1>7, <1>9, <2>2
<1>10. CASE ~ t.endpos < Len(s.content) /\ ~ s.eof
  <2> DEFINE r == Refill(t)
  <2>1. LookedOn(s) = r
    BY <1>3, <1>10
  <2>2. End(s) < Limit(s) /\ ~ End(t) < Limit(t)
    BY <1>2, <1>7, <1>10, PlacesFollow DEF Looks
  <2>3. t.startpos <= t.endpos
    BY <1>1, <1>2 DEF Looks
  <2>4. /\ r \in Streams /\ Follows(r)
        /\ Begin(r) = Begin(t) /\ End(r) = End(t)
        /\ Limit(r) >= Limit(t) /\ (t.unread # <<>> => Limit(r) > Limit(t))
        /\ r.eof => t.unread = <<>> /\ r.unread = <<>>
        /\ t.unread = <<>> => r.eof
        /\ r.file = t.file /\ r.left = t.left
    BY <1>2, <1>7, <2>3, RefillFollows
  <2> HIDE DEF r
  <2>5. Limit(r) \in Nat
    BY <2>4, PlacesFollow
  <2>6. r.eof \/ End(r) < Limit(r)
    BY <1>1, <1>7, <2>2, <2>4, <2>5
  <2>7. \A i \in Begin(r) + 1 .. End(r) : r.file[i] # "\n"
    BY <1>1, <1>2, <1>6, <1>7, <2>2, <2>4
  <2>8. BeginsLine(r)
    BY <1>7, <2>4 DEF BeginsLine
  <2>9. Begin(r) <= End(r) /\ ~ r.left
    BY <1>1, <1>2, <1>5, <1>7, <2>4 DEF Looks
  <2>10. r.eof => r.unread = <<>> /\ End(r) >= Limit(r)
    <3>1. /\ t.unread = <<>> => Limit(t) = Len(t.file)
          /\ r.unread = <<>> => Limit(r) = Len(r.file)
      BY <1>2, <1>7, <2>4, PlacesFollow
    <3>2. End(t) >= Limit(t)
      BY <1>1, <1>7, <2>2
    <3> QED BY <2>4, <3>1, <3>2
  <2>11. Looks(r)
    BY <2>4, <2>6, <2>7, <2>8, <2>9, <2>10 DEF Looks
  <2> QED BY <1>2, <1>7, <2>1, <2>4, <2>11
<1> QED BY <1>8, <1>9, <1>10

\* Behind the line feed a line begins, or the file ends.
LEMMA LineEndedWaits ==
  ASSUME NEW s \in Streams, Follows(s), Looks(s), IsAtEnd(s)
  PROVE  /\ LineEnded(s) \in Streams /\ Follows(LineEnded(s)) /\ Waits(LineEnded(s))
         /\ LineEnded(s).file = s.file /\ Begin(LineEnded(s)) = End(s) + 1
<1> DEFINE t == LineEnded(s)
<1>1. /\ s.startpos \in Nat /\ s.endpos \in Nat /\ Len(s.content) \in Nat /\ Len(s.file) \in Nat
      /\ Begin(s) \in Nat /\ End(s) \in Nat /\ Limit(s) \in Nat
      /\ s.unread = <<>> => Limit(s) = Len(s.file)
      /\ s.endpos < Len(s.content) <=> End(s) < Limit(s)
      /\ s.endpos < Len(s.content) => ContentAt(s, s.endpos) = s.file[End(s) + 1]
  BY PlacesFollow
<1>2. /\ t \in Streams
      /\ t.file = s.file /\ t.content = s.content /\ t.unread = s.unread /\ t.eof = s.eof
      /\ t.startpos = s.endpos + 1
  <2> DEFINE place == s.endpos + 1
  <2>1. t = [s EXCEPT !.startpos = place] /\ place \in Nat
    BY <1>1 DEF LineEnded
  <2> HIDE DEF place, t
  <2>2. t \in Streams
    BY <2>1 DEF Streams
  <2>3. /\ t.file = s.file /\ t.content = s.content /\ t.unread = s.unread /\ t.eof = s.eof
        /\ t.startpos = place
    BY <2>1 DEF Streams
  <2> QED BY <2>2, <2>3 DEF place
<1> HIDE DEF t
<1>3. Offset(t) = Offset(s)
  BY <1>2 DEF Offset
<1>4. Follows(t) /\ Limit(t) = Limit(s)
  BY <1>2, <1>3 DEF Follows, Limit
<1>5. Begin(t) = End(s) + 1
  <2> DEFINE o == Offset(s)
             e == s.endpos
  <2>1. o \in Nat /\ e \in Nat /\ End(s) = o + e /\ Begin(t) = o + (e + 1)
    BY <1>1, <1>2, <1>3 DEF End, Begin, Follows
  <2> HIDE DEF o, e
  <2>2. o + (e + 1) = o + e + 1
    BY <2>1
  <2> QED BY <2>1, <2>2
<1>6. t.eof => t.unread = <<>> /\ Begin(t) >= Limit(t)
  BY <1>1, <1>2, <1>4, <1>5 DEF Looks
<1>7. CASE s.left
  <2>1. s.eof /\ s.unread = <<>> /\ End(s) >= Limit(s)
    BY <1>7 DEF Looks
  <2>2. Begin(t) > Len(t.file)
    BY <1>1, <1>2, <1>5, <2>1
  <2> QED BY <1>2, <1>4, <1>5, <1>6, <2>1, <2>2 DEF Waits, BeginsLine, t
<1>8. CASE ~ s.left
  <2>1. ContentAt(s, s.endpos) = "\n"
    BY <1>8 DEF IsAtEnd
  <2>2. s.endpos < Len(s.content)
    BY <2>1 DEF ContentAt
  <2>3. End(s) < Limit(s) /\ s.file[End(s) + 1] = "\n"
    BY <1>1, <2>1, <2>2
  <2>4. BeginsLine(t) /\ Begin(t) <= Limit(t)
    BY <1>1, <1>2, <1>4, <1>5, <2>3 DEF BeginsLine
  <2> QED BY <1>2, <1>4, <1>5, <1>6, <2>4 DEF Waits, t
<1> QED BY <1>7, <1>8

\* What readline returns is a line of the file, without the carriage return at its end: the
\* line begins the file, or a line feed is in front of it; it ends the file, or a line feed
\* is behind it; and there is none in it.
IsLine(file, first, last) ==
  /\ first \in 1 .. Len(file) /\ last \in first - 1 .. Len(file)
  /\ first = 1 \/ file[first - 1] = "\n"
  /\ last = Len(file) \/ file[last + 1] = "\n"
  /\ \A i \in first .. last : file[i] # "\n"

IsWhole(s) ==
  \E first, last \in Nat :
    /\ IsLine(s.file, first, last)
    /\ \/ LineRead(s) = SubSeq(s.file, first, last)
       \/ last >= first /\ s.file[last] = "\r" /\ LineRead(s) = SubSeq(s.file, first, last - 1)

\* A part of the buffer is a part of the file.
LEMMA PartOfBuffer ==
  ASSUME NEW s \in Streams, Follows(s), NEW m \in Nat, NEW n \in Nat,
         1 <= m, m <= n + 1, n <= Len(s.content), m <= Len(s.content)
  PROVE  SubSeq(s.content, m, n) = SubSeq(s.file, Offset(s) + m, Offset(s) + n)
<1> DEFINE o == Offset(s)
           c == Len(s.content)
           f == Len(s.file)
<1>1. s.file \in Seq(STRING) /\ s.content \in Seq(STRING) /\ c \in Nat /\ f \in Nat
  BY LenProperties DEF Streams
<1>2. o \in Nat /\ o + c = Limit(s)
  BY DEF Follows, Limit
<1>3. o + c <= f
  BY <1>2, PlacesFollow
<1> DEFINE a == SubSeq(s.content, m, n)
           b == SubSeq(s.file, o + m, o + n)
           l == n - m + 1
<1>4. /\ a \in Seq(STRING) /\ Len(a) = l /\ \A i \in 1 .. l : a[i] = s.content[m + i - 1]
  <2>1. m \in 1 .. c + 1 /\ n \in m - 1 .. c
    BY <1>1
  <2> QED BY <1>1, <2>1, PartOfRow
<1>5. /\ b \in Seq(STRING) /\ Len(b) = l /\ \A i \in 1 .. l : b[i] = s.file[o + m + i - 1]
  <2> DEFINE p == o + m
             q == o + n
  <2>1. p \in 1 .. Len(s.file) + 1 /\ q \in p - 1 .. Len(s.file) /\ q - p + 1 = l
    <3> HIDE DEF o, c
    <3>1. p \in Nat /\ q \in Nat /\ 1 <= p /\ p <= f + 1 /\ p <= q + 1 /\ q <= f /\ q - p + 1 = l
      BY <1>1, <1>2, <1>3 DEF c
    <3> QED BY <1>1, <3>1
  <2> HIDE DEF p, q
  <2>2. /\ SubSeq(s.file, p, q) \in Seq(STRING) /\ Len(SubSeq(s.file, p, q)) = q - p + 1
        /\ \A i \in 1 .. q - p + 1 : SubSeq(s.file, p, q)[i] = s.file[p + i - 1]
    BY <1>1, <2>1, PartOfRow
  <2> QED BY <2>1, <2>2 DEF p, q
<1>6. ASSUME NEW i \in 1 .. l
      PROVE  a[i] = b[i]
  <2> DEFINE j == m + i - 1
  <2>1. j \in 1 .. c
    BY <1>1
  <2>2. s.content[j] = s.file[o + j]
    BY <2>1 DEF Follows
  <2>3. o + j = o + m + i - 1
    <3> HIDE DEF o
    <3> QED BY <1>2
  <2> QED BY <1>4, <1>5, <2>2, <2>3
<1> HIDE DEF a, b
<1>7. a = b
  BY <1>4, <1>5, <1>6, SeqEqual
<1> QED BY <1>7 DEF a, b

\* The line that is read, in places of the file: the carriage return counts at the end of
\* the file.
LineAt(s) ==
  \E first, last \in Nat :
    /\ IsLine(s.file, first, last)
    /\ first = Begin(s) + 1 /\ Begin(s) < Limit(s)
    /\ last = IF End(s) < Limit(s) THEN End(s) ELSE Limit(s)
    /\ LineRead(s) =
         SubSeq(s.file, first,
                IF End(s) < Limit(s) /\ first <= last /\ s.file[last] = "\r" THEN last - 1 ELSE last)

\* In the buffer readline finds a line where the file has one.
LEMMA LineReadAt ==
  ASSUME NEW s \in Streams, Follows(s), Looks(s), IsAtEnd(s), HasLine(s)
  PROVE  LineAt(s)
<1> DEFINE o == Offset(s)
           c == Len(s.content)
           b == s.startpos
           e == s.endpos
           n == IF e < c THEN e ELSE c
           first == o + (b + 1)
           last == o + n
<1>1. /\ b \in Nat /\ e \in Nat /\ c \in Nat /\ Len(s.file) \in Nat
      /\ Begin(s) \in Nat /\ End(s) \in Nat /\ Limit(s) \in Nat
      /\ Limit(s) <= Len(s.file)
      /\ s.unread = <<>> => Limit(s) = Len(s.file)
      /\ b < c <=> Begin(s) < Limit(s)
      /\ e < c <=> End(s) < Limit(s)
      /\ b <= e <=> Begin(s) <= End(s)
      /\ e < c => ContentAt(s, e) = s.file[End(s) + 1]
  BY PlacesFollow
<1>2. o \in Nat /\ Begin(s) = o + b /\ End(s) = o + e /\ Limit(s) = o + c
  BY DEF Follows, Begin, End, Limit
<1>3. b < c /\ b <= e /\ b <= n /\ n <= c /\ n <= e /\ n \in Nat
  BY <1>1 DEF HasLine, Looks
<1>4. e < c => n = e
  OBVIOUS
<1>5. ~ e < c => n = c
  OBVIOUS
<1>6. /\ first \in Nat /\ last \in Nat
      /\ first = Begin(s) + 1 /\ Begin(s) <= last /\ last <= Limit(s) /\ last <= End(s)
      /\ (e < c => last = End(s)) /\ (~ e < c => last = Limit(s))
  <2> HIDE DEF o, c, b, e, n
  <2> QED BY <1>1, <1>2, <1>3, <1>4, <1>5
<1> HIDE DEF first, last
<1>7. IsLine(s.file, first, last)
  <2>1. first \in 1 .. Len(s.file) /\ last \in first - 1 .. Len(s.file)
    BY <1>1, <1>3, <1>6
  <2>2. first = 1 \/ s.file[first - 1] = "\n"
    <3>1. first - 1 = Begin(s) /\ ~ Begin(s) > Len(s.file)
      <4>1. Begin(s) < Limit(s)
        BY <1>1, <1>3
      <4> HIDE DEF b, c, e, n, o
      <4> QED BY <1>1, <1>6, <4>1
    <3>2. Begin(s) = 0 \/ s.file[Begin(s)] = "\n"
      BY <3>1 DEF Looks, BeginsLine
    <3>3. first = Begin(s) + 1 /\ Begin(s) \in Nat
      BY <1>1, <1>6
    <3> QED BY <3>1, <3>2, <3>3
  <2>3. last = Len(s.file) \/ s.file[last + 1] = "\n"
    <3>1. CASE s.left
      BY <1>1, <1>6, <3>1 DEF Looks
    <3>2. CASE ~ s.left
      <4>1. ContentAt(s, e) = "\n"
        BY <3>2 DEF IsAtEnd
      <4>2. e < c
        BY <4>1 DEF ContentAt
      <4> QED BY <1>1, <1>6, <4>1, <4>2
    <3> QED BY <3>1, <3>2
  <2>4. \A i \in first .. last : s.file[i] # "\n"
    BY <1>1, <1>6 DEF Looks
  <2> QED BY <2>1, <2>2, <2>3, <2>4 DEF IsLine
<1>10. first = Begin(s) + 1 /\ Begin(s) < Limit(s) /\ last = IF End(s) < Limit(s) THEN End(s) ELSE Limit(s)
  <2>1. Begin(s) < Limit(s) /\ (e < c <=> End(s) < Limit(s))
    BY <1>1, <1>3
  <2> HIDE DEF b, c, e, n, o
  <2> QED BY <1>6, <2>1
<1>8. CASE ~ (e >= 1 /\ ContentAt(s, e - 1) = "\r")
  <2>1. LineRead(s) = SubSeq(s.content, b + 1, n)
    BY <1>8 DEF LineRead
  <2>2. SubSeq(s.content, b + 1, n) = SubSeq(s.file, first, last)
    <3>1. b + 1 \in Nat /\ 1 <= b + 1 /\ b + 1 <= n + 1 /\ b + 1 <= c
      <4>1. b < c /\ b <= n /\ b \in Nat /\ n \in Nat /\ c \in Nat
        BY <1>1, <1>3
      <4> HIDE DEF b, n, c
      <4> QED BY <4>1
    <3> HIDE DEF b, n
    <3> QED BY <1>3, <3>1, PartOfBuffer DEF first, last
  <2>3. ~ (End(s) < Limit(s) /\ first <= last /\ s.file[last] = "\r")
    <3>1. SUFFICES ASSUME End(s) < Limit(s), first <= last, s.file[last] = "\r"
                   PROVE  FALSE
      OBVIOUS
    <3>2. e < c /\ n = e /\ last = o + e
      BY <1>1, <1>4, <3>1 DEF last
    <3>3. b < e
      <4>1. o + (b + 1) <= o + e
        BY <3>1, <3>2 DEF first
      <4>2. o \in Nat /\ b \in Nat /\ e \in Nat
        BY <1>1, <1>2
      <4> HIDE DEF o, b, e
      <4> QED BY ONLY <4>1, <4>2
    <3>4. e >= 1 /\ e \in 1 .. c /\ e - 1 < c /\ e - 1 + 1 = e
      <4>1. b \in Nat /\ e \in Nat /\ c \in Nat
        BY <1>1
      <4> HIDE DEF b, e, c
      <4> QED BY <3>2, <3>3, <4>1
    <3>5. s.content[e] = "\r"
      <4>1. s.content[e] = s.file[o + e]
        BY <3>4 DEF Follows
      <4> QED BY <3>1, <3>2, <4>1
    <3>6. ContentAt(s, e - 1) = "\r"
      BY <3>4, <3>5 DEF ContentAt
    <3> QED BY <1>8, <3>4, <3>6
  <2> QED BY <1>6, <1>7, <1>10, <2>1, <2>2, <2>3 DEF LineAt
<1>9. CASE e >= 1 /\ ContentAt(s, e - 1) = "\r"
  <2>1. e - 1 < c /\ s.content[e - 1 + 1] = "\r"
    BY <1>9 DEF ContentAt
  <2>2. e - 1 + 1 = e /\ n = e /\ e - 1 \in Nat
    BY <1>1, <1>9, <2>1
  <2>3. last = End(s) /\ s.file[last] = "\r"
    <3>1. e \in 1 .. c
      BY <1>1, <1>9, <2>1
    <3>2. s.content[e] = s.file[o + e]
      BY <3>1 DEF Follows
    <3> QED BY <1>2, <2>1, <2>2, <3>2 DEF last
  <2>4. b # e
    <3>1. SUFFICES ASSUME b = e
                   PROVE  FALSE
      OBVIOUS
    <3>2. Begin(s) = End(s) /\ Begin(s) # 0
      BY <1>1, <1>2, <1>9, <3>1
    <3>3. s.file[Begin(s)] = "\n"
      BY <1>1, <1>3, <3>2 DEF Looks, BeginsLine
    <3> QED BY <2>3, <3>2, <3>3
  <2>5. LineRead(s) = SubSeq(s.content, b + 1, e - 1)
    BY <1>9, <2>1 DEF LineRead
  <2> DEFINE m == b + 1
             k == e - 1
  <2>6. m \in Nat /\ k \in Nat /\ 1 <= m /\ m <= k + 1 /\ k <= c /\ m <= c
    <3>1. b \in Nat /\ e \in Nat /\ b < e /\ e <= c /\ b < c /\ c \in Nat
      BY <1>1, <1>3, <2>2, <2>4
    <3> HIDE DEF b, e, c
    <3> QED BY <3>1
  <2>7. first = o + m /\ last - 1 = o + k
    <3>1. last = o + e /\ o \in Nat /\ e \in Nat
      BY <1>1, <1>2, <2>2 DEF last
    <3> HIDE DEF o, e
    <3>2. o + e - 1 = o + (e - 1)
      BY <3>1
    <3> QED BY <3>1, <3>2 DEF first
  <2>8. last >= first
    <3>1. /\ first = Begin(s) + 1 /\ Begin(s) = o + b /\ End(s) = o + e /\ last = End(s)
          /\ b <= e /\ b # e /\ b \in Nat /\ e \in Nat /\ o \in Nat
      BY <1>1, <1>2, <1>3, <1>6, <2>3, <2>4
    <3> HIDE DEF o, b, e
    <3> QED BY ONLY <3>1
  <2> HIDE DEF m, k
  <2>9. SubSeq(s.content, m, k) = SubSeq(s.file, o + m, o + k)
    BY <2>6, PartOfBuffer
  <2>10. End(s) < Limit(s)
    <3>1. ~ s.left
      <4>1. e <= c /\ End(s) = o + e /\ Limit(s) = o + c
        BY <1>2, <1>3, <2>2
      <4>2. End(s) <= Limit(s)
        <5>1. e \in Nat /\ c \in Nat /\ o \in Nat
          BY <1>1, <1>2
        <5> HIDE DEF e, c, o
        <5> QED BY <4>1, <5>1
      <4> QED BY <1>1, <4>2 DEF Looks
    <3>2. ContentAt(s, e) = "\n"
      BY <3>1 DEF IsAtEnd
    <3>3. e < c
      BY <3>2 DEF ContentAt
    <3> QED BY <1>1, <3>3
  <2>11. LineRead(s) = SubSeq(s.file, first, last - 1)
    BY <2>5, <2>7, <2>9 DEF m, k
  <2> QED BY <1>6, <1>7, <1>10, <2>3, <2>8, <2>10, <2>11 DEF LineAt
<1> QED BY <1>8, <1>9

\* So it is a whole line of the file.
LEMMA LineIsWhole ==
  ASSUME NEW s \in Streams, Follows(s), Looks(s), IsAtEnd(s), HasLine(s)
  PROVE  IsWhole(s)
<1>1. PICK first \in Nat, last \in Nat :
        /\ IsLine(s.file, first, last)
        /\ LineRead(s) =
             SubSeq(s.file, first,
                    IF End(s) < Limit(s) /\ first <= last /\ s.file[last] = "\r" THEN last - 1 ELSE last)
  BY LineReadAt DEF LineAt
<1> QED BY <1>1 DEF IsWhole
-----------------------------------------------------------------------------
\* The list of files is read line by line: a turn of ClientNext leaves the stream between
\* two lines, or in one.
Reads ==
  /\ phase \in {"read", "look", "consume", "process"}
  /\ phase \in {"read", "look"} => stream \in Streams /\ Follows(stream)
  /\ phase = "read" => Waits(stream)
  /\ phase = "look" => Looks(stream)

\* Every line that readline returns is a whole line of the list of files, wherever the
\* chunks end in which the file is read.  (uri_stream.tcc:95-168)
LinesWhole == phase = "look" /\ IsAtEnd(stream) /\ HasLine(stream) => IsWhole(stream)

\* Nothing was read yet.
LEMMA ReadsInit == ClientInit => Reads
<1> SUFFICES ASSUME ClientInit
             PROVE  Reads
  OBVIOUS
<1>1. PICK command \in Commands :
        /\ stream = Open(command.file, command.chunk)
        /\ phase = IF command.file = <<>> THEN "consume" ELSE "read"
  BY DEF ClientInit
<1>2. command.file \in Seq(STRING) /\ command.chunk \in Nat \ {0}
  BY CommandsAssumption
<1> HIDE <1>1
<1>3. stream \in Streams /\ Follows(stream) /\ Waits(stream)
  BY <1>1, <1>2, OpenWaits
<1> QED BY <1>1, <1>3 DEF Reads

\* BeginLine, Look and EndLine take Waits and Looks to each other; the others do not read.
LEMMA ReadsStep == Reads /\ [ClientNext]_clientVars => Reads'
<1> SUFFICES ASSUME Reads, [ClientNext]_clientVars
             PROVE  Reads'
  OBVIOUS
<1>1. CASE BeginLine
  <2>1. stream \in Streams /\ Follows(stream) /\ Waits(stream)
    BY <1>1 DEF BeginLine, Reads
  <2>2. stream' \in Streams /\ Follows(stream') /\ Looks(stream')
    BY <1>1, <2>1, LineBegunLooks DEF BeginLine
  <2>3. phase' \in {"look", "consume"}
    BY <1>1 DEF BeginLine
  <2> QED BY <2>2, <2>3 DEF Reads
<1>2. CASE Look
  <2>1. stream \in Streams /\ Follows(stream) /\ Looks(stream) /\ ~ IsAtEnd(stream)
    BY <1>2 DEF Look, Reads
  <2>2. stream' \in Streams /\ Follows(stream') /\ Looks(stream')
    BY <1>2, <2>1, LookedOnLooks DEF Look
  <2>3. phase' = "look"
    BY <1>2 DEF Look
  <2> QED BY <2>2, <2>3 DEF Reads
<1>3. CASE EndLine
  <2>1. stream \in Streams /\ Follows(stream) /\ Looks(stream) /\ IsAtEnd(stream)
    BY <1>3 DEF EndLine, Reads
  <2>2. CASE HasLine(stream)
    <3>1. stream' = LineEnded(stream) /\ phase' = "read"
      BY <1>3, <2>2 DEF EndLine
    <3>2. stream' \in Streams /\ Follows(stream') /\ Waits(stream')
      BY <2>1, <3>1, LineEndedWaits
    <3> QED BY <3>1, <3>2 DEF Reads
  <2>3. CASE ~ HasLine(stream)
    BY <1>3, <2>3 DEF EndLine, Reads
  <2> QED BY <2>2, <2>3
<1>4. CASE Display
  BY <1>4 DEF Display, Reads
<1>5. CASE Work
  <2>1. phase \in {"consume", "process"} /\ phase' \in {"consume", "process"}
    <3>1. CASE CompareFile
      BY <3>1 DEF CompareFile, ProcessFile
    <3>2. CASE ReadDelta
      BY <3>2 DEF ReadDelta, ConsumeSingle, IsReady
    <3>3. CASE Consume
      BY <3>3 DEF Consume, IsReady
    <3>4. CASE ConsumeMissing
      BY <3>4 DEF ConsumeMissing, IsReady
    <3>5. CASE ProcessDirectory
      BY <3>5 DEF ProcessDirectory
    <3>6. CASE NoFile
      BY <3>6 DEF NoFile
    <3> QED BY <1>5, <3>1, <3>2, <3>3, <3>4, <3>5, <3>6 DEF Work
  <2> QED BY <2>1 DEF Reads
<1>6. CASE UNCHANGED clientVars
  BY <1>6 DEF clientVars, Reads
<1> QED BY <1>1, <1>2, <1>3, <1>4, <1>5, <1>6 DEF ClientNext

\* Whatever the list of files holds and however it is read, each line of it is read as a
\* whole.  (uri_stream.tcc:55-168)
THEOREM LinesAreWhole == ClientSpec => []LinesWhole
<1>1. Reads => LinesWhole
  BY LineIsWhole DEF Reads, LinesWhole
<1> QED BY <1>1, ReadsInit, ReadsStep, PTL DEF ClientSpec
-----------------------------------------------------------------------------
(***************************************************************************)
(* The lines of the list of files, by the places where they end, and the   *)
(* pairs that they add.                                                    *)
(***************************************************************************)
\* A file without lines stays one.
LEMMA DoneGrow ==
  ASSUME NEW s, "done" \in DOMAIN s
  PROVE  Grow(s).done = s.done
BY DEF Grow

\* Whether there was a list at all is not changed by reading it.
LEMMA DoneStays ==
  ASSUME NEW s \in Streams
  PROVE  LineBegun(s).done = s.done /\ LookedOn(s).done = s.done /\ LineEnded(s).done = s.done
<1>1. ASSUME NEW t, DOMAIN t = DOMAIN s, t.done = s.done
      PROVE  Refill(t).done = s.done
  <2> DEFINE u == Shrink(t, Removed(t))
  <2>1. DOMAIN u = DOMAIN s /\ u.done = s.done /\ "done" \in DOMAIN s
    BY <1>1 DEF Shrink, Streams
  <2>2. Refill(t) = Grow(u)
    BY DEF Refill, Removed, Shrink
  <2> HIDE DEF u
  <2> QED BY <2>1, <2>2, DoneGrow
<1>2. LineEnded(s).done = s.done
  BY DEF LineEnded, Streams
<1>3. LineBegun(s).done = s.done
  <2> DEFINE t == [s EXCEPT !.endpos = s.startpos, !.left = FALSE]
  <2>1. DOMAIN t = DOMAIN s /\ t.done = s.done
    BY DEF Streams
  <2>2. LineBegun(s) = IF t.endpos >= Len(t.content) THEN Refill(t) ELSE t
    BY DEF LineBegun
  <2> HIDE DEF t
  <2> QED BY <1>1, <2>1, <2>2
<1>4. LookedOn(s).done = s.done
  <2> DEFINE t == [s EXCEPT !.endpos = @ + 1]
             l == [t EXCEPT !.left = TRUE]
  <2>1. DOMAIN t = DOMAIN s /\ t.done = s.done /\ l.done = s.done
    BY DEF Streams
  <2>2. LookedOn(s) = IF t.endpos < Len(s.content) THEN t ELSE IF s.eof THEN l ELSE Refill(t)
    BY DEF LookedOn
  <2> HIDE DEF t, l
  <2> QED BY <1>1, <2>1, <2>2
<1> QED BY <1>2, <1>3, <1>4

\* A line begins where one is behind the last line feed before its end.
LEMMA LineStartIs ==
  ASSUME NEW file, NEW end \in Nat, NEW first \in 1 .. end,
         first = 1 \/ file[first - 1] = "\n", \A i \in first .. end - 1 : file[i] # "\n"
  PROVE  LineStart(file, end) = first
<1> DEFINE IsStart(n) == (n = 1 \/ file[n - 1] = "\n") /\ \A i \in n .. end - 1 : file[i] # "\n"
<1>1. \A n \in 1 .. end : IsStart(n) => n = first
  <2> SUFFICES ASSUME NEW n \in 1 .. end, IsStart(n), n # first
               PROVE  FALSE
    OBVIOUS
  <2>1. CASE n < first
    <3>1. file[first - 1] = "\n" /\ first - 1 \in n .. end - 1
      BY <2>1
    <3> QED BY <3>1
  <2>2. CASE first < n
    <3>1. file[n - 1] = "\n" /\ n - 1 \in first .. end - 1
      BY <2>2
    <3> QED BY <3>1
  <2> QED BY <2>1, <2>2
<1>2. IsStart(first)
  OBVIOUS
<1>3. LineStart(file, end) = CHOOSE n \in 1 .. end : IsStart(n)
  BY DEF LineStart
<1> HIDE DEF IsStart
<1> QED BY <1>1, <1>2, <1>3

\* The line that is read is the next one of the file, as it is meant.
NextLine(s, end) ==
  /\ end \in LineEnds(s.file) /\ Begin(s) < end
  /\ LineRead(s) = LineText(s.file, end)
  /\ \A n \in LineEnds(s.file) : n <= End(s) + 1 <=> n <= Begin(s) \/ n = end

\* The line is the one behind the last that was read: its end is the only one between Begin
\* and the character behind End, and the text is that of the line that ends there.
LEMMA LineIsNext ==
  ASSUME NEW s \in Streams, Follows(s), Looks(s), IsAtEnd(s), HasLine(s)
  PROVE  \E end \in Nat : NextLine(s, end)
<1> DEFINE f == s.file
           N == Len(f)
           B == Begin(s)
           E == End(s)
           L == Limit(s)
<1>1. /\ f \in Seq(STRING) /\ N \in Nat /\ B \in Nat /\ E \in Nat /\ L \in Nat /\ L <= N
      /\ s.unread = <<>> => L = N
      /\ s.endpos < Len(s.content) => E < L /\ ContentAt(s, s.endpos) = f[E + 1]
  BY PlacesFollow DEF Streams
<1>2. PICK first \in Nat, last \in Nat :
        /\ IsLine(f, first, last)
        /\ first = B + 1 /\ B < L
        /\ last = IF E < L THEN E ELSE L
        /\ LineRead(s) =
             SubSeq(f, first, IF E < L /\ first <= last /\ f[last] = "\r" THEN last - 1 ELSE last)
  BY LineReadAt DEF LineAt
<1>3. \/ E < L /\ f[E + 1] = "\n"
      \/ E > L /\ L = N
  <2>1. CASE s.left
    BY <1>1, <2>1 DEF Looks
  <2>2. CASE ~ s.left
    <3>1. ContentAt(s, s.endpos) = "\n"
      BY <2>2 DEF IsAtEnd
    <3>2. s.endpos < Len(s.content)
      BY <3>1 DEF ContentAt
    <3> QED BY <1>1, <3>1, <3>2
  <2> QED BY <2>1, <2>2
<1> HIDE DEF f, N, B, E, L
<1>4. /\ first \in 1 .. N /\ last \in first - 1 .. N
      /\ first = 1 \/ f[first - 1] = "\n"
      /\ \A i \in first .. last : f[i] # "\n"
  BY <1>2 DEF IsLine, N
<1>5. LineStart(f, last + 1) = first
  <2> DEFINE end == last + 1
  <2>1. end \in Nat /\ first \in 1 .. end /\ end - 1 = last
    BY <1>1, <1>4
  <2> HIDE DEF end
  <2> QED BY <1>4, <2>1, LineStartIs DEF end
<1>6. DOMAIN f = 1 .. N /\ f # <<>>
  BY <1>1, <1>4, LenProperties, EmptySeq DEF N
<1>7. LineEnds(f) = {n \in 1 .. N : f[n] = "\n"} \cup (IF f[N] = "\n" THEN {} ELSE {N + 1})
  BY <1>6 DEF LineEnds, N
<1> DEFINE end == last + 1
<1>8. end \in Nat /\ end - 1 = last /\ end - 2 = last - 1 /\ (first < end <=> first <= last)
  BY <1>1, <1>4
<1>9. LineText(f, end) =
        SubSeq(f, first, IF end <= N /\ first <= last /\ f[last] = "\r" THEN last - 1 ELSE last)
  <2>1. LineText(f, end) =
          SubSeq(f, first, IF end <= N /\ first < end /\ f[end - 1] = "\r" THEN end - 2 ELSE end - 1)
    BY <1>5 DEF LineText, N
  <2> QED BY <1>8, <2>1
<1>10. CASE E < L /\ f[E + 1] = "\n"
  <2>1. end = E + 1 /\ end <= N /\ end \in 1 .. N /\ B < end
    BY <1>1, <1>2, <1>4, <1>10
  <2>2. LineRead(s) = LineText(f, end)
    BY <1>2, <1>9, <1>10, <2>1
  <2>3. end \in LineEnds(f)
    BY <1>7, <1>10, <2>1
  <2>4. ASSUME NEW n \in LineEnds(f)
        PROVE  n <= E + 1 <=> n <= B \/ n = end
    <3>1. n \in Nat /\ (n <= N => f[n] = "\n")
      BY <1>1, <1>7
    <3>2. n \notin first .. last
      BY <1>1, <1>4, <3>1
    <3> HIDE DEF end
    <3> QED BY <1>1, <1>2, <1>8, <1>10, <2>1, <3>1, <3>2
  <2> QED BY <1>8, <2>1, <2>2, <2>3, <2>4 DEF NextLine, f, B, E
<1>11. CASE E > L /\ L = N
  <2>1. last = N /\ end = N + 1 /\ ~ end <= N /\ B < end /\ first <= N
    BY <1>1, <1>2, <1>4, <1>11
  <2>2. LineRead(s) = LineText(f, end)
    BY <1>1, <1>2, <1>9, <1>11, <2>1
  <2>3. f[N] # "\n"
    BY <1>1, <1>4, <2>1
  <2>4. end \in LineEnds(f)
    BY <1>7, <2>1, <2>3
  <2>5. ASSUME NEW n \in LineEnds(f)
        PROVE  n <= E + 1 <=> n <= B \/ n = end
    <3>1. n \in Nat /\ n <= N + 1 /\ (n <= N => f[n] = "\n")
      BY <1>1, <1>7
    <3>2. n \notin first .. last
      BY <1>1, <1>4, <2>1, <3>1
    <3> HIDE DEF end
    <3> QED BY <1>1, <1>2, <1>8, <1>11, <2>1, <3>1, <3>2
  <2> QED BY <1>8, <2>1, <2>2, <2>4, <2>5 DEF NextLine, f, B, E
<1> QED BY <1>3, <1>10, <1>11

\* When there is no line any more, all were read.
LEMMA AllLinesRead ==
  ASSUME NEW s \in Streams, Follows(s), Looks(s), IsAtEnd(s), ~ HasLine(s), s.file # <<>>
  PROVE  \A n \in LineEnds(s.file) : n <= Begin(s)
<1> DEFINE f == s.file
           N == Len(f)
           B == Begin(s)
<1>1. /\ f \in Seq(STRING) /\ N \in Nat /\ B \in Nat
      /\ Limit(s) \in Nat /\ End(s) \in Nat /\ s.startpos \in Nat /\ s.endpos \in Nat /\ Len(s.content) \in Nat
      /\ s.unread = <<>> => Limit(s) = N
      /\ s.startpos < Len(s.content) <=> B < Limit(s)
      /\ s.startpos <= s.endpos <=> B <= End(s)
  BY PlacesFollow DEF Streams
<1>2. s.left
  <2> SUFFICES ASSUME ~ s.left PROVE FALSE
    OBVIOUS
  <2>1. ContentAt(s, s.endpos) = "\n"
    BY DEF IsAtEnd
  <2>2. s.endpos < Len(s.content) /\ s.startpos <= s.endpos
    BY <1>1, <2>1 DEF ContentAt, Looks
  <2> QED BY <1>1, <2>2 DEF HasLine
<1>3. B >= N
  BY <1>1, <1>2 DEF Looks, HasLine
<1>4. DOMAIN f = 1 .. N /\ f # <<>> /\ N # 0
  BY <1>1, LenProperties, EmptySeq
<1>5. B = N => f[N] = "\n"
  BY <1>1, <1>4 DEF Looks, BeginsLine
<1>6. LineEnds(f) = {n \in 1 .. N : f[n] = "\n"} \cup (IF f[N] = "\n" THEN {} ELSE {N + 1})
  BY <1>4 DEF LineEnds
<1> HIDE DEF f, N, B
<1>7. \A n \in LineEnds(f) : n <= B
  BY <1>1, <1>3, <1>5, <1>6
<1> QED BY <1>7 DEF f, B

\* A row in which numbers increase is the only one of their set.
IsInOrder(S, row) ==
  row \in [1 .. Cardinality(S) -> S] /\ \A m, n \in DOMAIN row : m < n => row[m] < row[n]

\* There is one order: two rows would differ first at some n, and what one has there the
\* other would have further behind.
LEMMA OneOrder ==
  ASSUME NEW S, S \subseteq Nat, IsFiniteSet(S), NEW a, IsInOrder(S, a), NEW b, IsInOrder(S, b)
  PROVE  a = b
<1> DEFINE N == Cardinality(S)
           Bad == {n \in Nat : n \in 1 .. N /\ a[n] # b[n]}
<1>1. N \in Nat
  BY FS_CardinalityType
<1>2. /\ a \in [1 .. N -> S] /\ b \in [1 .. N -> S]
      /\ \A m, n \in 1 .. N : m < n => a[m] < a[n]
      /\ \A m, n \in 1 .. N : m < n => b[m] < b[n]
  BY DEF IsInOrder
<1>3. \A n \in 1 .. N : a[n] \in Nat /\ b[n] \in Nat /\ a[n] \in S /\ b[n] \in S
  BY <1>2
<1>4. /\ \A p \in S : \E n \in 1 .. N : a[n] = p
      /\ \A p \in S : \E n \in 1 .. N : b[n] = p
  <2>1. /\ \A m, n \in 1 .. N : m < n => a[m] # a[n]
        /\ \A m, n \in 1 .. N : m < n => b[m] # b[n]
    <3> HIDE DEF N
    <3> QED BY <1>1, <1>2, <1>3
  <2> HIDE DEF N, Bad
  <2>2. \A p \in S : \E n \in 1 .. N : a[n] = p
    BY <1>1, <1>2, <2>1, RowIsAll DEF N
  <2>3. \A p \in S : \E n \in 1 .. N : b[n] = p
    BY <1>1, <1>2, <2>1, RowIsAll DEF N
  <2> QED BY <2>2, <2>3
<1>5. Bad = {}
  <2> SUFFICES ASSUME Bad # {} PROVE FALSE
    OBVIOUS
  <2>1. PICK n \in Bad : \A k \in Bad : n <= k
    <3>1. Bad \subseteq Nat
      OBVIOUS
    <3> HIDE DEF Bad
    <3> QED BY <3>1, LeastElement
  <2>2. n \in 1 .. N /\ a[n] # b[n]
    OBVIOUS
  <2>3. \A k \in 1 .. N : k < n => a[k] = b[k]
    <3> SUFFICES ASSUME NEW k \in 1 .. N, k < n, a[k] # b[k]
                 PROVE  FALSE
      OBVIOUS
    <3>1. k \in Bad
      BY <1>1
    <3>2. n <= k
      <4> HIDE DEF Bad
      <4> QED BY <2>1, <3>1
    <3> QED BY <1>1, <2>2, <3>2
  <2> HIDE DEF N, Bad
  <2>4. CASE a[n] < b[n]
    <3>1. PICK m \in 1 .. N : b[m] = a[n]
      BY <1>3, <1>4, <2>2
    <3>2. m # n
      BY <2>2, <3>1
    <3>3. ~ m < n
      <4> SUFFICES ASSUME m < n PROVE FALSE
        OBVIOUS
      <4>1. a[m] < a[n] /\ a[m] = a[n]
        BY <1>2, <2>2, <2>3, <3>1
      <4> QED BY <1>3, <2>2, <4>1
    <3>4. n < m
      BY <1>1, <2>2, <3>2, <3>3
    <3>5. b[n] < b[m]
      BY <1>2, <2>2, <3>4
    <3> QED BY <1>3, <2>2, <2>4, <3>1, <3>5
  <2>5. CASE b[n] < a[n]
    <3>1. PICK m \in 1 .. N : a[m] = b[n]
      BY <1>3, <1>4, <2>2
    <3>2. m # n
      BY <2>2, <3>1
    <3>3. ~ m < n
      <4> SUFFICES ASSUME m < n PROVE FALSE
        OBVIOUS
      <4>1. b[m] < b[n] /\ b[m] = b[n]
        BY <1>2, <2>2, <2>3, <3>1
      <4> QED BY <1>3, <2>2, <4>1
    <3>4. n < m
      BY <1>1, <2>2, <3>2, <3>3
    <3>5. a[n] < a[m]
      BY <1>2, <2>2, <3>4
    <3> QED BY <1>3, <2>2, <2>5, <3>1, <3>5
  <2> QED BY <1>3, <2>2, <2>4, <2>5
<1>6. \A n \in 1 .. N : a[n] = b[n]
  <2> SUFFICES ASSUME NEW n \in 1 .. N PROVE a[n] = b[n]
    OBVIOUS
  <2>1. n \in Nat /\ (n \notin Bad => a[n] = b[n])
    BY <1>1
  <2>2. n \notin Bad
    <3> HIDE DEF Bad
    <3> QED BY <1>5
  <2> QED BY <2>1, <2>2
<1> HIDE DEF N, Bad
<1>7. a = [n \in 1 .. N |-> a[n]] /\ b = [n \in 1 .. N |-> b[n]]
  BY <1>2
<1> QED BY <1>6, <1>7

\* There is such a row, which InOrder chooses.
LEMMA InOrderIs ==
  ASSUME NEW S, S \subseteq Nat, IsFiniteSet(S)
  PROVE  IsInOrder(S, InOrder(S)) /\ \A row : IsInOrder(S, row) => InOrder(S) = row
<1> DEFINE R == {r \in Nat \X Nat : r[1] < r[2]}
           N == Cardinality(S)
           Increases(row) == \A m, n \in DOMAIN row : m < n => row[m] < row[n]
<1>1. \A p, q \in Nat : <<p, q>> \in R <=> p < q
  OBVIOUS
<1> HIDE DEF R
<1>2. \E row \in [1 .. N -> S] : \A m, n \in 1 .. N : m < n => <<row[m], row[n]>> \in R
  <2>1. \A p, q \in S : p # q => <<p, q>> \in R \/ <<q, p>> \in R
    BY <1>1
  <2>2. \A p \in S : <<p, p>> \notin R
    BY <1>1
  <2>3. \A p, q, r \in S : <<p, q>> \in R /\ <<q, r>> \in R => <<p, r>> \in R
    BY <1>1
  <2> QED BY <2>1, <2>2, <2>3, RowOfOrder
<1>3. PICK row \in [1 .. N -> S] : \A m, n \in 1 .. N : m < n => <<row[m], row[n]>> \in R
  BY <1>2
<1>4. Increases(row)
  <2> SUFFICES ASSUME NEW m \in 1 .. N, NEW n \in 1 .. N, m < n
               PROVE  row[m] < row[n]
    OBVIOUS
  <2>1. row[m] \in Nat /\ row[n] \in Nat
    OBVIOUS
  <2> QED BY <1>1, <1>3, <2>1
<1>5. InOrder(S) = CHOOSE r \in [1 .. N -> S] : Increases(r)
  BY DEF InOrder
<1> HIDE DEF Increases
<1>6. InOrder(S) \in [1 .. N -> S] /\ Increases(InOrder(S))
  BY <1>4, <1>5
<1>7. IsInOrder(S, InOrder(S))
  BY <1>6 DEF IsInOrder, Increases
<1> QED BY <1>7, OneOrder

\* One line more, behind the others.
LEMMA InOrderMore ==
  ASSUME NEW S, S \subseteq Nat, IsFiniteSet(S), NEW end \in Nat, \A n \in S : n < end
  PROVE  /\ InOrder(S) \in Seq(S) /\ Len(InOrder(S)) = Cardinality(S)
         /\ InOrder(S \cup {end}) = Append(InOrder(S), end)
         /\ Cardinality(S \cup {end}) = Cardinality(S) + 1
<1> DEFINE N == Cardinality(S)
           T == S \cup {end}
           row == InOrder(S)
           more == Append(row, end)
<1>1. N \in Nat
  BY FS_CardinalityType
<1>2. IsFiniteSet(T) /\ T \subseteq Nat /\ Cardinality(T) = N + 1
  <2>1. end \notin S
    <3> SUFFICES ASSUME end \in S PROVE FALSE
      OBVIOUS
    <3>1. end < end
      OBVIOUS
    <3> QED BY <3>1
  <2> QED BY <2>1, FS_AddElement
<1>3. row \in [1 .. N -> S] /\ \A m, n \in 1 .. N : m < n => row[m] < row[n]
  <2>1. IsInOrder(S, row)
    BY InOrderIs
  <2> HIDE DEF row
  <2> QED BY <2>1 DEF IsInOrder
<1> HIDE DEF row, N
<1>4. row \in Seq(S) /\ Len(row) = N
  BY <1>1, <1>3, IsASeq
<1>5. /\ more \in Seq(T) /\ Len(more) = N + 1 /\ more[N + 1] = end
      /\ \A n \in 1 .. N : more[n] = row[n]
  <2>1. row \in Seq(T) /\ end \in T
    BY <1>3, <1>4
  <2> HIDE DEF T
  <2> QED BY <1>4, <2>1, AppendProperties
<1> HIDE DEF more
<1>6. more \in [1 .. N + 1 -> T]
  BY <1>5, LenProperties, ElementOfSeq
<1>7. \A m, n \in 1 .. N + 1 : m < n => more[m] < more[n]
  <2> SUFFICES ASSUME NEW m \in 1 .. N + 1, NEW n \in 1 .. N + 1, m < n
               PROVE  more[m] < more[n]
    OBVIOUS
  <2>1. m \in 1 .. N /\ more[m] = row[m] /\ row[m] \in S
    BY <1>1, <1>3, <1>5
  <2>2. CASE n = N + 1
    BY <1>5, <2>1, <2>2
  <2>3. CASE n # N + 1
    BY <1>1, <1>3, <1>5, <2>1, <2>3
  <2> QED BY <2>2, <2>3
<1>8. IsInOrder(T, more)
  BY <1>2, <1>6, <1>7 DEF IsInOrder
<1>9. InOrder(T) = more
  <2> HIDE DEF T
  <2> QED BY <1>2, <1>8, InOrderIs
<1> QED BY <1>2, <1>4, <1>9 DEF row, N, more

\* The same for the lines of a file.
LEMMA EndsFinite ==
  ASSUME NEW file \in Seq(STRING)
  PROVE  IsFiniteSet(LineEnds(file)) /\ LineEnds(file) \subseteq Nat \ {0}
<1> DEFINE N == Len(file)
           All == 1 .. N + 1
<1>1. N \in Nat /\ DOMAIN file = 1 .. N
  BY LenProperties
<1> HIDE DEF N
<1>2. IsFiniteSet(All)
  BY <1>1, FS_Interval
<1>3. LineEnds(file) \subseteq All
  BY <1>1 DEF LineEnds, N
<1>4. IsFiniteSet(LineEnds(file))
  <2> HIDE DEF All
  <2> QED BY <1>2, <1>3, FS_Subset
<1> QED BY <1>1, <1>3, <1>4

\* The lines in order, with one that ends behind them.
LEMMA LinesMore ==
  ASSUME NEW file \in Seq(STRING), NEW S \in SUBSET LineEnds(file)
  PROVE  /\ InOrder(S) \in Seq(S)
         /\ S = {} => InOrder(S) = <<>>
         /\ \A end \in Nat : (\A n \in S : n < end) => InOrder(S \cup {end}) = Append(InOrder(S), end)
<1>1. IsFiniteSet(S) /\ S \subseteq Nat
  BY EndsFinite, FS_Subset
<1>2. InOrder(S) \in Seq(S) /\ Len(InOrder(S)) = Cardinality(S)
  <2>1. IsInOrder(S, InOrder(S))
    BY <1>1, InOrderIs
  <2>2. InOrder(S) \in [1 .. Cardinality(S) -> S] /\ Cardinality(S) \in Nat
    BY <1>1, <2>1, FS_CardinalityType DEF IsInOrder
  <2> DEFINE row == InOrder(S)
             N == Cardinality(S)
  <2> HIDE DEF row, N
  <2>3. row \in [1 .. N -> S] /\ N \in Nat
    BY <2>2 DEF row, N
  <2>4. row \in Seq(S) /\ Len(row) = N
    BY <2>3, IsASeq
  <2> QED BY <2>4 DEF row, N
<1>3. S = {} => InOrder(S) = <<>>
  BY <1>2, FS_EmptySet, EmptySeq
<1>4. ASSUME NEW end \in Nat, \A n \in S : n < end
      PROVE  InOrder(S \cup {end}) = Append(InOrder(S), end)
  BY <1>1, <1>4, InOrderMore
<1> QED BY <1>2, <1>3, <1>4
-----------------------------------------------------------------------------
LOCAL INSTANCE SequencesExt

(***************************************************************************)
(* The lines of the list of files add pairs to the list of sources, before *)
(* anything is consumed: the walks keep what they promise in the program.  *)
(***************************************************************************)
Starts ==
  /\ IsList(given) /\ sources = given /\ reported = <<>> /\ current = [side \in Both |-> Nothing]
  /\ phase # "process"
  /\ OnlyGiven

\* A list of which nothing is consumed is sound, in this state and in the next one.
LEMMA StartsSound == Starts => IInv
BY GivenSound DEF Starts

\* In the next state.
LEMMA StartsSoundThen == Starts' => IInv'
BY StartsSound, PTL

\* A source made from a name is one that the walks are about.
LEMMA NamedSource ==
  ASSUME NEW name, NEW pair, pair \in Nat \ {0}, NEW side, side \in Both
  PROVE  /\ IsSource(SourceOf(name, pair, side))
         /\ SourceOf(name, pair, side).kind # "single"
         /\ SourceOf(name, pair, side).pair = pair /\ SourceOf(name, pair, side).side = side
<1>1. IsTree(<<>>) /\ DOMAIN <<>> = {}
  <2>1. DOMAIN <<>> = {}
    OBVIOUS
  <2>2. IsFiniteSet({})
    BY FS_EmptySet
  <2> QED BY <2>1, <2>2 DEF IsTree
<1>2. CASE name = <<>>
  <2>1. SourceOf(name, pair, side) = Source("null", FALSE, pair, side, <<>>)
    BY <1>2 DEF SourceOf
  <2> QED BY <1>1, <2>1 DEF IsSource, Source
<1>3. CASE name # <<>> /\ name \in DOMAIN Existing
  <2>1. SourceOf(name, pair, side) = Source("local", FALSE, pair, side, Existing[name])
    BY <1>3 DEF SourceOf
  <2>2. IsTree(Existing[name]) /\ <<>> \in DOMAIN Existing[name] /\ Existing[name][<<>>] # "output"
    BY <1>3, ExistingAssumption
  <2> QED BY <2>1, <2>2 DEF IsSource, Source
<1>4. CASE name # <<>> /\ name \notin DOMAIN Existing
  <2>1. SourceOf(name, pair, side) = Source("local", TRUE, pair, side, <<>>)
    BY <1>4 DEF SourceOf
  <2> QED BY <1>1, <2>1 DEF IsSource, Source
<1> QED BY <1>2, <1>3, <1>4

\* A command gives a list of sources, or a list of files that is yet to be read.
LEMMA InitStarts == ClientInit => IInv
<1> SUFFICES ASSUME ClientInit
             PROVE  IInv
  OBVIOUS
<1>1. PICK command \in Commands :
        /\ given = command.sources
        /\ phase = IF command.file = <<>> THEN "consume" ELSE "read"
  BY DEF ClientInit
<1>2. /\ IsList(command.sources)
      /\ command.file # <<>> => \A s \in ToSet(command.sources) : s.pair <= Len(command.sources) \div 2
  BY CommandsAssumption
<1>3. sources = given /\ reported = <<>> /\ current = [side \in Both |-> Nothing]
  BY DEF ClientInit
<1> HIDE <1>1
<1>4. Starts
  BY <1>1, <1>2, <1>3 DEF Starts, OnlyGiven
<1> QED BY <1>4, StartsSound

\* The pair of a line, if it is one that counts, is behind those before it.
LEMMA EndLineKeeps ==
  ASSUME IInv, EndLine
  PROVE  IInv'
<1> DEFINE pair == Len(given) \div 2 + 1
           text == Stripped(LineRead(stream))
           separator == SelectInSeq(text, LAMBDA c : c = "|")
           original == IF separator = 0 THEN text ELSE SubSeq(text, 1, separator - 1)
           modified == SubSeq(text, separator + 1, Len(text))
           a == SourceOf(original, pair, "original")
           b == SourceOf(modified, pair, "modified")
           more == AtEnd(given, a, b)
<1>1. /\ phase = "look" /\ phase' \in {"read", "consume"}
      /\ current' = current /\ reported' = reported
  BY DEF EndLine, ReadsOn
<1>2. /\ sources = given /\ reported = <<>> /\ IsList(given)
      /\ \A s \in ToSet(given) : s.pair <= Len(given) \div 2
      /\ current = [side \in Both |-> Nothing]
  <2>1. current = [side \in Both |-> current[side]] /\ \A side \in Both : current[side] = Nothing
    BY <1>1 DEF IInv, CurrentSound
  <2> QED BY <1>1, <2>1 DEF IInv, OnlyGiven, CurrentSound
<1>3. given \in Seq(ToSet(given)) /\ Len(given) \in Nat /\ pair \in Nat \ {0}
  <2>1. given \in Seq(ToSet(given)) /\ Len(given) \in Nat
    BY <1>2 DEF IsList
  <2> QED BY <2>1
<1>4. \/ sources' = given \o <<>> /\ given' = given \o <<>>
      \/ sources' = more /\ given' = more
  <2>1. SourcesOf(LineRead(stream), pair) = <<a, b>>
    BY DEF SourcesOf
  <2> QED BY <1>2, <2>1 DEF EndLine, AtEnd
<1>5. /\ IsSource(a) /\ a.kind # "single" /\ a.pair = pair /\ a.side = "original"
      /\ IsSource(b) /\ b.kind # "single" /\ b.pair = pair /\ b.side = "modified"
  <2>1. "original" \in Both /\ "modified" \in Both
    BY DEF Both
  <2> HIDE DEF pair, original, modified
  <2> QED BY <1>3, <2>1, NamedSource
<1> HIDE DEF a, b, more, pair
<1>6. CASE sources' = given \o <<>> /\ given' = given \o <<>>
  <2>1. given \o <<>> = given
    BY <1>3
  <2>2. Starts'
    BY <1>1, <1>2, <1>6, <2>1 DEF Starts, OnlyGiven
  <2> QED BY <2>2, StartsSoundThen
<1>7. CASE sources' = more /\ given' = more
  <2>1. IsRow(given) /\ IsPaired(given)
    BY <1>2 DEF IsList, IsRow
  <2>2. \A s \in ToSet(given) : s.pair # pair
    <3> SUFFICES ASSUME NEW s \in ToSet(given), s.pair = pair
                 PROVE  FALSE
      OBVIOUS
    <3>1. s.pair <= Len(given) \div 2 /\ Len(given) \div 2 \in Nat
      BY <1>2, <1>3
    <3> QED BY <3>1 DEF pair
  <2>3. IsRow(more) /\ IsPaired(more) /\ ToSet(more) = ToSet(given) \cup {a, b} /\ Len(more) = Len(given) + 2
    <3>1. /\ a.side = "original" /\ b.side = "modified" /\ b.pair = a.pair /\ a.kind # "single" /\ b.kind # "single"
          /\ \A s \in ToSet(given) : s.pair # a.pair
      BY <1>5, <2>2
    <3>2. more = AtEnd(given, a, b)
      BY DEF more
    <3> QED BY ONLY <2>1, <3>1, <3>2, AddPair
  <2>4. IsList(more)
    <3>1. \A s \in ToSet(more) : IsSource(s)
      BY <1>2, <1>5, <2>3 DEF IsList
    <3> QED BY <2>3, <3>1 DEF IsList, IsRow
  <2>5. \A s \in ToSet(more) : s.pair <= Len(more) \div 2
    <3>1. Len(more) \div 2 = pair
      BY <1>3, <2>3 DEF pair
    <3>2. \A s \in ToSet(given) : s.pair <= pair
      <4> SUFFICES ASSUME NEW s \in ToSet(given)
                   PROVE  s.pair <= pair
        OBVIOUS
      <4>1. s.pair \in Nat
        BY <1>2 DEF IsList, IsSource
      <4>2. s.pair <= Len(given) \div 2 /\ Len(given) \div 2 \in Nat
        BY <1>2, <1>3
      <4> QED BY <4>1, <4>2 DEF pair
    <3> QED BY <1>3, <1>5, <2>3, <3>1, <3>2
  <2>6. Starts'
    BY <1>1, <1>2, <1>7, <2>4, <2>5 DEF Starts, OnlyGiven
  <2> QED BY <2>6, StartsSoundThen
<1> QED BY <1>4, <1>6, <1>7

\* The steps of the program are those of the manager, or change none of its state, but for a line.
LEMMA ClientNextKeeps ==
  ASSUME IInv, [ClientNext]_clientVars
  PROVE  IInv'
<1>1. CASE BeginLine
  <2>1. /\ phase = "read" /\ phase' \in {"look", "consume"}
        /\ sources' = sources /\ current' = current /\ given' = given /\ reported' = reported
    BY <1>1 DEF BeginLine, ReadsOn
  <2> QED BY <2>1, PhaseKeeps
<1>2. CASE Look
  <2>1. /\ phase' = phase
        /\ sources' = sources /\ current' = current /\ given' = given /\ reported' = reported
    BY <1>2 DEF Look, ReadsOn
  <2> QED BY <2>1, PhaseKeeps
<1>3. CASE EndLine
  BY <1>3, EndLineKeeps
<1>4. CASE Display
  <2>1. /\ phase' = phase
        /\ sources' = sources /\ current' = current /\ given' = given /\ reported' = reported
    BY <1>4 DEF Display
  <2> QED BY <2>1, PhaseKeeps
<1>5. CASE Work
  <2>1. Next
    BY <1>5 DEF Work, CompareFile, ReadDelta, Next
  <2> QED BY <2>1, NextKeeps
<1>6. CASE UNCHANGED clientVars
  <2>1. /\ phase' = phase
        /\ sources' = sources /\ current' = current /\ given' = given /\ reported' = reported
    BY <1>6 DEF clientVars
  <2> QED BY <2>1, PhaseKeeps
<1> QED BY <1>1, <1>2, <1>3, <1>4, <1>5, <1>6 DEF ClientNext

\* The same in the program, whose sources may also come from a list of files, and which
\* displays deltas between the comparisons: whatever is at the paths and in the list, each
\* entry of a version that is compared is taken exactly once, or is still to come.
\* (srcdiff.cpp:56-78; input_source_local.cpp:92-122; input_source_manager.cpp:104-257)
THEOREM EntriesOnceInTheProgram == ClientSpec => []EachOnce
<1>1. IInv /\ [ClientNext]_clientVars => IInv'
  BY ClientNextKeeps
<1> QED BY <1>1, InitStarts, InvariantMeans, PTL DEF ClientSpec

\* The list of files adds pairs before any directory is entered.
LEMMA ClientNextMeets ==
  ASSUME IInv, Meets, [ClientNext]_clientVars
  PROVE  Meets'
<1>1. CASE EndLine
  <2>1. reported' = <<>>
    BY <1>1 DEF EndLine, ReadsOn, IInv, OnlyGiven
  <2> QED BY <2>1 DEF Meets
<1>2. CASE Work
  <2>1. Next
    BY <1>2 DEF Work, CompareFile, ReadDelta, Next
  <2> QED BY <2>1, NextMeets
<1>3. CASE BeginLine \/ Look \/ Display \/ UNCHANGED clientVars
  <2>1. sources' = sources /\ current' = current /\ given' = given /\ reported' = reported
    BY <1>3 DEF BeginLine, Look, ReadsOn, Display, clientVars
  <2>2. Held' = Held
    BY <2>1 DEF Held
  <2> QED BY <2>1, <2>2, StayMeets
<1> QED BY <1>1, <1>2, <1>3 DEF ClientNext

\* The same in the program: where two directories were entered together, no file that both
\* have is compared alone.  (input_source_manager.cpp:158-176, 219-241)
THEOREM NamesakesMeetInTheProgram == ClientSpec => []FilesMeet
<1>1. ClientInit => IInv /\ Meets
  BY InitStarts, InitMeets DEF ClientInit
<1>2. IInv /\ Meets /\ [ClientNext]_clientVars => (IInv /\ Meets)'
  BY ClientNextKeeps, ClientNextMeets
<1> QED BY <1>1, <1>2, MeetsMeans, PTL DEF ClientSpec
-----------------------------------------------------------------------------
(***************************************************************************)
(* What was added so far are the pairs of the lines that were read.        *)
(***************************************************************************)
EndsUpTo(file, place) == {end \in KeptEnds(file) : end <= place}

EndsSoFar ==
  IF phase \in {"read", "look"} THEN EndsUpTo(stream.file, Begin(stream)) ELSE KeptEnds(stream.file)

IsListed(command, ends) ==
  /\ command.file = stream.file
  /\ given = command.sources \o Listed(stream.file, ends, Len(command.sources) \div 2)
  /\ Len(given) = Len(command.sources) + 2 * Len(InOrder(ends))

ListsSoFar ==
  /\ stream.done = (stream.file = <<>>)
  /\ stream.file # <<>> => \E command \in Commands : IsListed(command, EndsSoFar)

\* One pair more.
LEMMA FlattenMore ==
  ASSUME NEW S, NEW ss \in Seq(Seq(S)), NEW a \in Seq(S)
  PROVE  FlattenSeq(ss) \in Seq(S) /\ FlattenSeq(Append(ss, a)) = FlattenSeq(ss) \o a
<1> DEFINE ts == Append(ss, a)
           N == Len(ss)
           f == CHOOSE f : Flattens(ss, f)
           g == CHOOSE g : Flattens(ts, g)
<1>1. ts \in Seq(Seq(S)) /\ N \in Nat /\ Len(ts) = N + 1
  BY LenProperties, AppendProperties
<1>2. Flattens(ss, f) /\ Flattens(ts, g)
  <2>1. \A l \in Nat : (\E h : FlattensTo(ts, l, h)) /\ (\E h : FlattensTo(ss, l, h))
    BY FlattenExists
  <2> HIDE DEF ts
  <2>2. Len(ts) \in Nat
    BY <1>1
  <2>3. \E h : Flattens(ts, h)
    BY <2>1, <2>2 DEF Flattens, FlattensTo
  <2>4. \E h : Flattens(ss, h)
    BY <1>1, <2>1 DEF Flattens, FlattensTo
  <2> QED BY <2>3, <2>4
<1>3. FlattenSeq(ts) = g[N + 1]
  <2> HIDE DEF ts
  <2>1. Len(ts) # 0
    BY <1>1
  <2>2. FlattenSeq(ts) = g[Len(ts)]
    BY <2>1 DEF FlattenSeq, Flattens
  <2> HIDE DEF g
  <2> QED BY <1>1, <2>2
<1>4. ss # <<>> => N # 0 /\ FlattenSeq(ss) = f[N]
  <2>1. ss # <<>> => N # 0
    BY EmptySeq
  <2> QED BY <2>1 DEF FlattenSeq, Flattens
<1>5. ss = <<>> => FlattenSeq(ss) = <<>>
  BY DEF FlattenSeq
<1> HIDE DEF f, g
<1>6. g[N + 1] = IF ss = <<>> THEN a ELSE f[N] \o a
  BY <1>2, FlattensAppend
<1>7. CASE ss = <<>>
  <2>1. <<>> \o a = a
    BY ConcatEmptySeq
  <2> QED BY <1>3, <1>5, <1>6, <1>7, <2>1, EmptySeq
<1>8. CASE ss # <<>>
  <2>1. f \in [1 .. N -> Seq(S)]
    BY <1>2, <1>8, FlattensType
  <2>2. N \in 1 .. N
    BY <1>1, <1>4, <1>8
  <2> HIDE DEF N, ts
  <2>3. f[N] \in Seq(S)
    BY <2>1, <2>2
  <2> QED BY <1>3, <1>4, <1>6, <1>8, <2>3 DEF ts
<1> QED BY <1>7, <1>8

\* What a line more adds: its pair, with the next number.
LEMMA ListedMore ==
  ASSUME NEW file \in Seq(STRING), NEW S \in SUBSET LineEnds(file), NEW end \in LineEnds(file),
         \A n \in S : n < end, NEW before \in Nat, NEW X,
         \A e \in LineEnds(file) : \A n \in Nat : SourcesOf(LineText(file, e), n) \in Seq(X)
  PROVE  /\ Listed(file, S, before) \in Seq(X)
         /\ Listed(file, S \cup {end}, before) =
              Listed(file, S, before) \o SourcesOf(LineText(file, end), before + Len(InOrder(S)) + 1)
         /\ Len(InOrder(S \cup {end})) = Len(InOrder(S)) + 1 /\ Len(InOrder(S)) \in Nat
<1> DEFINE row == InOrder(S)
           more == InOrder(S \cup {end})
           Added1(e, n) == SourcesOf(LineText(file, e), before + n)
           ss == [n \in DOMAIN row |-> Added1(row[n], n)]
           ts == [n \in DOMAIN more |-> Added1(more[n], n)]
           N == Len(row)
           a == Added1(end, N + 1)
<1>1. end \in Nat
  BY EndsFinite
<1>2. row \in Seq(S) /\ more = Append(row, end)
  BY <1>1, LinesMore
<1>3. /\ N \in Nat /\ DOMAIN row = 1 .. N /\ \A n \in 1 .. N : row[n] \in S
      /\ Len(more) = N + 1 /\ DOMAIN more = 1 .. N + 1 /\ more[N + 1] = end
      /\ \A n \in 1 .. N : more[n] = row[n]
  <2>1. row \in Seq(LineEnds(file)) /\ \A n \in 1 .. N : row[n] \in S
    <3> HIDE DEF row
    <3>1. row \in Seq(S)
      BY <1>2
    <3> QED BY <3>1
  <2> HIDE DEF row, more
  <2>2. /\ N \in Nat /\ DOMAIN row = 1 .. N
        /\ Append(row, end) \in Seq(LineEnds(file)) /\ Len(Append(row, end)) = N + 1
        /\ Append(row, end)[N + 1] = end /\ \A n \in 1 .. N : Append(row, end)[n] = row[n]
    BY <2>1, LenProperties, AppendProperties
  <2>3. DOMAIN more = 1 .. N + 1
    BY <1>2, <2>2, LenProperties
  <2> QED BY <1>2, <2>1, <2>2, <2>3
<1>4. Listed(file, S, before) = FlattenSeq(ss) /\ Listed(file, S \cup {end}, before) = FlattenSeq(ts)
  BY DEF Listed
<1> HIDE DEF row, more, N
<1>5. \A e \in LineEnds(file) : \A n \in Nat : Added1(e, n) \in Seq(X)
  <2> SUFFICES ASSUME NEW e \in LineEnds(file), NEW n \in Nat PROVE Added1(e, n) \in Seq(X)
    OBVIOUS
  <2>1. before + n \in Nat
    OBVIOUS
  <2> QED BY <2>1
<1> HIDE DEF Added1
<1>6. a \in Seq(X)
  <2>1. N + 1 \in Nat
    BY <1>3
  <2> QED BY <1>5, <2>1
<1>7. ss \in Seq(Seq(X)) /\ Len(ss) = N /\ \A n \in 1 .. N : ss[n] = Added1(row[n], n)
  <2>1. \A n \in 1 .. N : Added1(row[n], n) \in Seq(X)
    <3> SUFFICES ASSUME NEW n \in 1 .. N PROVE Added1(row[n], n) \in Seq(X)
      OBVIOUS
    <3>1. n \in Nat /\ row[n] \in LineEnds(file)
      BY <1>3
    <3> QED BY <1>5, <3>1
  <2>2. ss = [n \in 1 .. N |-> Added1(row[n], n)]
    BY <1>3
  <2> HIDE DEF ss
  <2>3. ss \in [1 .. N -> Seq(X)] /\ \A n \in 1 .. N : ss[n] = Added1(row[n], n)
    BY <2>1, <2>2
  <2> QED BY <1>3, <2>3, IsASeq
<1>8. ts = Append(ss, a)
  <2>1. ts = [n \in 1 .. N + 1 |-> Added1(more[n], n)]
    BY <1>3
  <2> HIDE DEF a
  <2> DEFINE us == Append(ss, a)
  <2> HIDE DEF ss, ts
  <2>2. /\ us \in Seq(Seq(X)) /\ Len(us) = N + 1 /\ us[N + 1] = a
        /\ \A n \in 1 .. N : us[n] = ss[n]
    <3>1. /\ Append(ss, a) \in Seq(Seq(X)) /\ Len(Append(ss, a)) = Len(ss) + 1
          /\ Append(ss, a)[Len(ss) + 1] = a /\ \A n \in 1 .. Len(ss) : Append(ss, a)[n] = ss[n]
      <4> DEFINE Y == Seq(X)
      <4>1. ss \in Seq(Y) /\ a \in Y
        BY <1>6, <1>7
      <4> HIDE DEF Y
      <4>2. /\ Append(ss, a) \in Seq(Y) /\ Len(Append(ss, a)) = Len(ss) + 1
            /\ Append(ss, a)[Len(ss) + 1] = a /\ \A n \in 1 .. Len(ss) : Append(ss, a)[n] = ss[n]
        BY ONLY <4>1, AppendProperties
      <4> QED BY <4>2 DEF Y
    <3> QED BY <1>7, <3>1
  <2>3. DOMAIN us = 1 .. N + 1 /\ us = [n \in 1 .. N + 1 |-> us[n]]
    <3> HIDE DEF us
    <3>1. DOMAIN us = 1 .. N + 1
      BY <2>2, LenProperties
    <3>2. us = [n \in DOMAIN us |-> us[n]]
      BY <2>2
    <3> QED BY <3>1, <3>2
  <2>4. \A n \in 1 .. N + 1 : us[n] = Added1(more[n], n)
    <3> SUFFICES ASSUME NEW n \in 1 .. N + 1 PROVE us[n] = Added1(more[n], n)
      OBVIOUS
    <3>1. CASE n = N + 1
      BY <1>3, <2>2, <3>1 DEF a
    <3>2. CASE n # N + 1
      <4>1. n \in 1 .. N
        BY <1>3, <3>2
      <4> QED BY <1>3, <1>7, <2>2, <4>1
    <3> QED BY <3>1, <3>2
  <2> HIDE DEF us
  <2>5. us = ts
    BY <2>1, <2>3, <2>4
  <2> QED BY <2>5 DEF us
<1> HIDE DEF ss, ts, a
<1>9. FlattenSeq(ss) \in Seq(X) /\ FlattenSeq(ts) = FlattenSeq(ss) \o a
  BY <1>6, <1>7, <1>8, FlattenMore
<1>10. a = SourcesOf(LineText(file, end), before + N + 1)
  <2>1. before + (N + 1) = before + N + 1
    BY <1>3
  <2> QED BY <2>1 DEF a, Added1
<1> QED BY <1>3, <1>4, <1>9, <1>10 DEF row, more, N

\* No lines, no pairs.
LEMMA ListedNothing ==
  ASSUME NEW file \in Seq(STRING), NEW before
  PROVE  Listed(file, {}, before) = <<>> /\ Len(InOrder({})) = 0
<1> DEFINE row == InOrder({})
           ss == [n \in DOMAIN row |-> SourcesOf(LineText(file, row[n]), before + n)]
<1>1. row = <<>>
  BY LinesMore
<1>2. Listed(file, {}, before) = FlattenSeq(ss)
  BY DEF Listed
<1> HIDE DEF row
<1>3. ss = <<>>
  BY <1>1
<1> HIDE DEF ss
<1>4. FlattenSeq(ss) = <<>>
  BY <1>3 DEF FlattenSeq
<1> QED BY <1>1, <1>2, <1>4, EmptySeq DEF row

\* Lines that were read, and those that are added by the next one.
LEMMA TakenEnds ==
  ASSUME NEW file \in Seq(STRING), NEW place \in Nat
  PROVE  /\ EndsUpTo(file, place) \in SUBSET LineEnds(file)
         /\ \A n \in EndsUpTo(file, place) : n \in Nat /\ n <= place
         /\ place = 0 => EndsUpTo(file, place) = {}
<1>1. LineEnds(file) \subseteq Nat \ {0}
  BY EndsFinite
<1> QED BY <1>1 DEF EndsUpTo, KeptEnds

\* While the list is read nothing else is done, and its sources are the ones that were added.
LEMMA ReadingGiven ==
  ASSUME IInv, phase \in {"read", "look"}
  PROVE  /\ sources = given
         /\ given \in Seq(ToSet(given))
BY DEF IInv, OnlyGiven, IsList

\* Before the list is read there are the sources of the command line.
LEMMA ListsInit == ClientInit => ListsSoFar
<1> SUFFICES ASSUME ClientInit
             PROVE  ListsSoFar
  OBVIOUS
<1>1. PICK command \in Commands :
        /\ given = command.sources
        /\ stream = Open(command.file, command.chunk)
        /\ phase = IF command.file = <<>> THEN "consume" ELSE "read"
  BY DEF ClientInit
<1>2. command.file \in Seq(STRING) /\ command.chunk \in Nat \ {0} /\ IsList(command.sources)
  BY CommandsAssumption
<1>3. stream.file = command.file /\ Begin(stream) = 0
  BY <1>1, <1>2, OpenWaits
<1>4. stream.done = (command.file = <<>>)
  <2> DEFINE file == command.file
             s == [file |-> file, content |-> <<>>, unread |-> file, chunk |-> command.chunk,
                   startpos |-> 0, endpos |-> 0, eof |-> FALSE, done |-> file = <<>>, left |-> FALSE]
  <2>1. stream = Grow(s)
    BY <1>1 DEF Open
  <2>2. "done" \in DOMAIN s /\ s.done = (file = <<>>)
    OBVIOUS
  <2> HIDE DEF s
  <2>3. Grow(s).done = s.done
    BY <2>2, DoneGrow
  <2> QED BY <2>1, <2>2, <2>3
<1>5. ASSUME stream.file # <<>>
      PROVE  IsListed(command, EndsSoFar)
  <2>1. EndsSoFar = {}
    <3>1. phase = "read"
      BY <1>1, <1>3, <1>5
    <3> QED BY <1>2, <1>3, <3>1, TakenEnds DEF EndsSoFar
  <2>2. Listed(stream.file, {}, Len(command.sources) \div 2) = <<>> /\ Len(InOrder({})) = 0
    BY <1>2, <1>3, ListedNothing
  <2>3. command.sources \in Seq(ToSet(command.sources)) /\ Len(command.sources) \in Nat
    BY <1>2 DEF IsList
  <2>4. given = command.sources \o <<>> /\ Len(given) = Len(command.sources) + 2 * 0
    BY <1>1, <2>3, ConcatEmptySeq
  <2> QED BY <1>3, <2>1, <2>2, <2>4 DEF IsListed
<1> QED BY <1>3, <1>4, <1>5 DEF ListsSoFar

\* A step that adds nothing.
LEMMA ListsStay ==
  ASSUME ListsSoFar, stream'.file = stream.file, stream'.done = stream.done, given' = given,
         stream.file # <<>> => EndsSoFar' = EndsSoFar
  PROVE  ListsSoFar'
<1>1. stream'.done = (stream'.file = <<>>)
  BY DEF ListsSoFar
<1>2. ASSUME stream'.file # <<>>
      PROVE  \E command \in Commands : IsListed(command, EndsSoFar)'
  <2>1. PICK command \in Commands : IsListed(command, EndsSoFar)
    BY <1>2 DEF ListsSoFar
  <2>2. IsListed(command, EndsSoFar)'
    BY <1>2, <2>1 DEF IsListed
  <2> QED BY <2>2
<1> QED BY <1>1, <1>2 DEF ListsSoFar

(* Half of a number of sources with K pairs more is half of it, and K.     *)
LEMMA HalfOfSum ==
  ASSUME NEW l \in Nat, NEW k \in Nat
  PROVE  (l + 2 * k) \div 2 = (l \div 2) + k /\ l \div 2 \in Nat
OBVIOUS

\* The end of a line.
LEMMA ListsEndLine ==
  ASSUME IInv, Reads, ListsSoFar, EndLine
  PROVE  ListsSoFar'
<1> DEFINE f == stream.file
           B == Begin(stream)
           E == End(stream)
<1>1. /\ phase = "look" /\ stream \in Streams /\ Follows(stream) /\ Looks(stream) /\ IsAtEnd(stream)
      /\ f \in Seq(STRING)
  BY DEF EndLine, Reads, Streams
<1>2. sources = given /\ given \in Seq(ToSet(given)) /\ Len(given) \in Nat
  <2>1. sources = given /\ given \in Seq(ToSet(given))
    BY <1>1, ReadingGiven
  <2> QED BY <2>1
<1>3. B \in Nat /\ E \in Nat
  BY <1>1, PlacesFollow
<1>4. EndsSoFar = EndsUpTo(f, B)
  BY <1>1 DEF EndsSoFar
<1>5. CASE ~ HasLine(stream)
  <2>1. given' = given /\ stream' = stream /\ phase' = "consume"
    <3>1. given' = given \o <<>> /\ stream' = stream /\ phase' = "consume"
      BY <1>5 DEF EndLine
    <3> QED BY <1>2, <3>1, ConcatEmptySeq
  <2>2. ASSUME f # <<>>
        PROVE  EndsSoFar' = EndsSoFar
    <3>1. EndsSoFar' = KeptEnds(f)
      BY <2>1 DEF EndsSoFar
    <3>2. \A n \in LineEnds(f) : n <= B
      BY <1>1, <1>5, <2>2, AllLinesRead
    <3> QED BY <1>4, <3>1, <3>2 DEF EndsUpTo, KeptEnds
  <2> QED BY <2>1, <2>2, ListsStay
<1>6. CASE HasLine(stream)
  <2> DEFINE line == LineRead(stream)
             added == IF IsPassedOver(line) THEN <<>> ELSE SourcesOf(line, Len(given) \div 2 + 1)
  <2>1. given' = given \o added /\ stream' = LineEnded(stream) /\ phase' = "read"
    BY <1>2, <1>6 DEF EndLine
  <2>2. PICK end \in Nat : NextLine(stream, end)
    BY <1>1, <1>6, LineIsNext
  <2>3. /\ end \in LineEnds(f) /\ B < end /\ line = LineText(f, end)
        /\ \A n \in LineEnds(f) : n <= E + 1 <=> n <= B \/ n = end
    BY <2>2 DEF NextLine
  <2>4. stream'.file = f /\ stream'.done = stream.done /\ Begin(stream)' = E + 1
    <3>1. LineEnded(stream).file = f /\ Begin(LineEnded(stream)) = E + 1
      BY <1>1, LineEndedWaits
    <3>2. LineEnded(stream).done = stream.done
      BY <1>1, DoneStays
    <3>3. Begin(stream)' = Begin(LineEnded(stream))
      BY <2>1
    <3> QED BY <2>1, <3>1, <3>2, <3>3
  <2>5. EndsSoFar' = EndsUpTo(f, E + 1)
    BY <2>1, <2>4 DEF EndsSoFar
  <2> HIDE DEF line, f, B, E
  <2>6. CASE IsPassedOver(line)
    <3>1. EndsUpTo(f, E + 1) = EndsUpTo(f, B)
      BY <2>3, <2>6 DEF EndsUpTo, KeptEnds
    <3>2. given' = given
      BY <1>2, <2>1, <2>6, ConcatEmptySeq
    <3> QED BY <1>4, <2>4, <2>5, <3>1, <3>2, ListsStay DEF f
  <2>7. CASE ~ IsPassedOver(line)
    <3> DEFINE T == EndsUpTo(f, B)
    <3>1. EndsUpTo(f, E + 1) = T \cup {end}
      BY <2>3, <2>7 DEF EndsUpTo, KeptEnds
    <3>2. T \in SUBSET LineEnds(f) /\ \A n \in T : n < end
      <4>1. T \in SUBSET LineEnds(f) /\ \A n \in T : n \in Nat /\ n <= B
        BY <1>1, <1>3, TakenEnds DEF f
      <4> HIDE DEF T
      <4> QED BY <1>3, <2>3, <4>1
    <3> HIDE DEF T
    <3>3. ASSUME f # <<>>
          PROVE  \E command \in Commands : IsListed(command, EndsSoFar)'
      <4>1. PICK command \in Commands : IsListed(command, T)
        BY <1>4, <3>3 DEF ListsSoFar, f, T
      <4> DEFINE list == command.sources
                 before == Len(list) \div 2
                 L == Listed(f, T, before)
                 k == Len(InOrder(T))
                 pair == Len(given) \div 2 + 1
                 two == SourcesOf(line, pair)
                 Parts == {SourcesOf(LineText(f, e), n) : e \in LineEnds(f), n \in Nat}
                 X == ToSet(list) \cup {p[1] : p \in Parts} \cup {p[2] : p \in Parts}
      <4>2. list \in Seq(ToSet(list)) /\ Len(list) \in Nat /\ before \in Nat
        <5>1. IsList(list)
          BY CommandsAssumption
        <5>2. list \in Seq(ToSet(list)) /\ Len(list) \in Nat
          BY <5>1 DEF IsList
        <5> HIDE DEF list
        <5> QED BY <5>2
      <4>3. \A e \in LineEnds(f) : \A n \in Nat : SourcesOf(LineText(f, e), n) \in Seq(X)
        <5>1. ASSUME NEW e \in LineEnds(f), NEW n \in Nat
              PROVE  SourcesOf(LineText(f, e), n) \in Seq(X)
          <6> DEFINE p == SourcesOf(LineText(f, e), n)
          <6>1. p \in Parts
            OBVIOUS
          <6>2. p = <<p[1], p[2]>>
            BY DEF SourcesOf
          <6> HIDE DEF p, Parts
          <6>3. p[1] \in X /\ p[2] \in X
            BY <6>1
          <6> HIDE DEF X
          <6>4. <<p[1], p[2]>> \in Seq(X)
            BY <6>3
          <6> QED BY <6>2, <6>4 DEF p
        <5> HIDE DEF X, Parts
        <5> QED BY <5>1
      <4>4. \A n : Len(SourcesOf(line, n)) = 2
        BY DEF SourcesOf
      <4>5. list \in Seq(X)
        <5> HIDE DEF list, Parts
        <5>1. \A n \in 1 .. Len(list) : list[n] \in X
          BY <4>2
        <5>2. list \in [1 .. Len(list) -> X]
          <6> HIDE DEF X
          <6> QED BY <4>2, <5>1
        <5> HIDE DEF X
        <5> QED BY <4>2, <5>2, IsASeq
      <4> HIDE DEF X, Parts
      <4>6. /\ L \in Seq(X)
            /\ Listed(f, T \cup {end}, before) = L \o SourcesOf(LineText(f, end), before + k + 1)
            /\ Len(InOrder(T \cup {end})) = k + 1 /\ k \in Nat
        <5> HIDE DEF before
        <5>1. f \in Seq(STRING)
          BY <1>1 DEF f
        <5> QED BY <2>3, <3>2, <4>2, <4>3, <5>1, ListedMore
      <4>7. command.file = f /\ given = list \o L /\ Len(given) = Len(list) + 2 * k
        BY <4>1 DEF IsListed, f
      <4>8. pair = before + k + 1 /\ pair \in Nat
        <5> DEFINE l == Len(list)
        <5>1. l \in Nat /\ k \in Nat /\ Len(given) = l + 2 * k /\ before = l \div 2
          BY <4>2, <4>6, <4>7
        <5> HIDE DEF k, l, list, before
        <5>2. pair = (l + 2 * k) \div 2 + 1
          BY <5>1
        <5> HIDE DEF pair
        <5> QED BY <5>1, <5>2, HalfOfSum
      <4>9. two \in Seq(X) /\ Len(two) = 2
        <5> HIDE DEF pair
        <5> QED BY <2>3, <4>3, <4>4, <4>8
      <4>10. given' = (list \o L) \o two
        BY <2>1, <2>7, <4>7
      <4>11. Listed(f, T \cup {end}, before) = L \o two
        BY <2>3, <4>6, <4>8
      <4> HIDE DEF two, L, k, before
      <4>12. given' = list \o (L \o two)
        <5>1. Associative(X)
          BY Associates
        <5> HIDE DEF list
        <5> QED BY <4>5, <4>6, <4>9, <4>10, <5>1 DEF Associative
      <4>13. Len(given') = Len(list) + 2 * (k + 1)
        <5>1. Len(given') = Len(list \o L) + Len(two)
          <6> HIDE DEF list
          <6>1. list \o L \in Seq(X)
            BY <4>5, <4>6, ConcatProperties
          <6> QED BY <4>9, <4>10, <6>1, ConcatProperties
        <5>2. Len(given') = Len(list) + 2 * k + 2
          BY <4>7, <4>9, <5>1
        <5> HIDE DEF list
        <5> QED BY <4>2, <4>6, <5>2
      <4>14. IsListed(command, EndsSoFar)'
        <5>1. (EndsSoFar)' = T \cup {end}
          BY <2>5, <3>1
        <5>2. command.file = stream'.file
          BY <2>4, <4>7
        <5>3. given' = list \o Listed(stream'.file, (EndsSoFar)', Len(list) \div 2)
          BY <2>4, <4>11, <4>12, <5>1 DEF before
        <5>4. Len(given') = Len(list) + 2 * Len(InOrder((EndsSoFar)'))
          BY <4>6, <4>13, <5>1
        <5> QED BY <5>2, <5>3, <5>4 DEF IsListed
      <4> QED BY <4>14
    <3>4. stream'.done = (stream'.file = <<>>)
      BY <2>4 DEF ListsSoFar, f
    <3> QED BY <2>4, <3>3, <3>4 DEF ListsSoFar
  <2> QED BY <2>6, <2>7
<1> QED BY <1>5, <1>6

\* Only EndLine adds; the end of the list is where all lines were read.
LEMMA ListsStep ==
  ASSUME IInv, Reads, ListsSoFar, [ClientNext]_clientVars
  PROVE  ListsSoFar'
<1>1. CASE BeginLine
  <2>1. /\ phase = "read" /\ given' = given /\ stream' = LineBegun(stream)
        /\ phase' = IF stream.done THEN "consume" ELSE "look"
        /\ stream \in Streams /\ Follows(stream) /\ Waits(stream)
    BY <1>1 DEF BeginLine, Reads
  <2>2. stream'.file = stream.file /\ stream'.done = stream.done /\ Begin(stream)' = Begin(stream)
    <3>1. LineBegun(stream).file = stream.file /\ Begin(LineBegun(stream)) = Begin(stream)
      BY <2>1, LineBegunLooks
    <3>2. LineBegun(stream).done = stream.done
      BY <2>1, DoneStays
    <3>3. Begin(stream)' = Begin(LineBegun(stream))
      BY <2>1
    <3> QED BY <2>1, <3>1, <3>2, <3>3
  <2>3. ASSUME stream.file # <<>>
        PROVE  EndsSoFar' = EndsSoFar
    <3>1. phase' = "look"
      BY <2>1, <2>3 DEF ListsSoFar
    <3> QED BY <2>1, <2>2, <3>1 DEF EndsSoFar
  <2> QED BY <2>1, <2>2, <2>3, ListsStay
<1>2. CASE Look
  <2>1. /\ phase = "look" /\ given' = given /\ stream' = LookedOn(stream) /\ phase' = phase
        /\ stream \in Streams /\ Follows(stream) /\ Looks(stream) /\ ~ IsAtEnd(stream)
    BY <1>2 DEF Look, Reads
  <2>2. stream'.file = stream.file /\ stream'.done = stream.done /\ Begin(stream)' = Begin(stream)
    <3>1. LookedOn(stream).file = stream.file /\ Begin(LookedOn(stream)) = Begin(stream)
      BY <2>1, LookedOnLooks
    <3>2. LookedOn(stream).done = stream.done
      BY <2>1, DoneStays
    <3>3. Begin(stream)' = Begin(LookedOn(stream))
      BY <2>1
    <3> QED BY <2>1, <3>1, <3>2, <3>3
  <2>3. EndsSoFar' = EndsSoFar
    BY <2>1, <2>2 DEF EndsSoFar
  <2> QED BY <2>1, <2>2, <2>3, ListsStay
<1>3. CASE EndLine
  BY <1>3, ListsEndLine
<1>4. CASE Display \/ UNCHANGED clientVars
  <2>1. stream' = stream /\ given' = given /\ phase' = phase
    BY <1>4 DEF Display, clientVars
  <2>2. EndsSoFar' = EndsSoFar
    BY <2>1 DEF EndsSoFar, Begin, Offset
  <2> QED BY <2>1, <2>2, ListsStay
<1>5. CASE Work
  <2>1. /\ phase \notin {"read", "look"} /\ phase' \notin {"read", "look"}
        /\ given' = given /\ stream' = stream
    <3>1. CASE CompareFile
      BY <3>1 DEF CompareFile, ProcessFile, ProcessUnit, NoUnit
    <3>2. CASE ReadDelta
      BY <3>2 DEF ReadDelta, ConsumeSingle, IsReady, ProcessUnit, NoUnit
    <3>3. CASE Consume /\ NoUnit
      BY <3>3 DEF Consume, IsReady, NoUnit
    <3>4. CASE ConsumeMissing /\ NoUnit
      BY <3>4 DEF ConsumeMissing, IsReady, NoUnit
    <3>5. CASE ProcessDirectory /\ NoUnit
      BY <3>5 DEF ProcessDirectory, NoUnit
    <3>6. CASE NoFile /\ NoUnit
      BY <3>6 DEF NoFile, NoUnit
    <3> QED BY <1>5, <3>1, <3>2, <3>3, <3>4, <3>5, <3>6 DEF Work
  <2>2. EndsSoFar' = EndsSoFar
    BY <2>1 DEF EndsSoFar
  <2> QED BY <2>1, <2>2, ListsStay
<1> QED BY <1>1, <1>2, <1>3, <1>4, <1>5 DEF ClientNext

\* Once the list is read, the invariant is the property.
LEMMA ListsMean == ListsSoFar => ListRead
<1> SUFFICES ASSUME ListsSoFar, stream.file # <<>>, phase \notin {"read", "look"}
             PROVE  \E command \in ListCommands :
                      /\ command.file = stream.file
                      /\ given = command.sources \o
                           Listed(stream.file, KeptEnds(stream.file), Len(command.sources) \div 2)
  BY DEF ListRead
<1>1. PICK command \in Commands : IsListed(command, EndsSoFar)
  BY DEF ListsSoFar
<1>2. EndsSoFar = KeptEnds(stream.file)
  BY DEF EndsSoFar
<1>3. command \in ListCommands
  BY <1>1 DEF IsListed, ListCommands
<1> QED BY <1>1, <1>2, <1>3 DEF IsListed

\* Whatever is in the list of files, and in whatever chunks it is read: once it is read, the
\* sources are those of the command line and behind them, in the order of the lines, one pair
\* for each line that is neither blank nor a comment.
\* (uri_stream.tcc:55-168; input_source_manager.cpp:106-142)
THEOREM ListIsRead == ClientSpec => []ListRead
<1>1. ClientInit => IInv /\ Reads /\ ListsSoFar
  BY InitStarts, ReadsInit, ListsInit
<1>2. IInv /\ Reads /\ ListsSoFar /\ [ClientNext]_clientVars => (IInv /\ Reads /\ ListsSoFar)'
  BY ClientNextKeeps, ReadsStep, ListsStep
<1> QED BY <1>1, <1>2, ListsMean, PTL DEF ClientSpec
=============================================================================
