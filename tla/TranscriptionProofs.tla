------------------------ MODULE TranscriptionProofs -------------------------
(***************************************************************************)
(* The transcription of a document, for any page counts, texts, limits and *)
(* interruptions: what is joined, and that a reader finds every page in it.*)
(***************************************************************************)
EXTENDS Transcription, SequenceTheorems, FiniteSetTheorems, WellFoundedInduction, TLAPS

-----------------------------------------------------------------------------
(***************************************************************************)
(* Induction over numbers.  The induction theorems of the library take a   *)
(* predicate as a parameter; here the predicate is a set.                  *)
(***************************************************************************)

\* A set of numbers that is not empty has a least one.
LEMMA Least ==
    ASSUME NEW T, T \subseteq Nat, T # {}
    PROVE  \E x \in T : \A y \in T : x <= y
<1>1. PICK x \in T : \A y \in T : ~(<<y, x>> \in OpToRel(<, Nat))
  BY NatLessThanWellFounded, WFMin
<1>2. \A y, z \in Nat : y < z => <<y, z>> \in OpToRel(<, Nat)
  BY DEF OpToRel
<1>3. \A y \in T : ~(y < x)
  BY <1>1, <1>2
<1> QED
  BY <1>3

\* Induction, about a set of numbers in place of a predicate.
LEMMA UpToN ==
    ASSUME NEW S, NEW N \in Nat, 0 \in S, \A n \in 0..(N - 1) : n \in S => n + 1 \in S
    PROVE  0..N \subseteq S
<1> DEFINE T == (0..N) \ S
<1> SUFFICES ASSUME T # {} PROVE FALSE
  OBVIOUS
<1>1. PICK x \in T : \A y \in T : x <= y
  <2>1. T \subseteq Nat
    OBVIOUS
  <2> HIDE DEF T
  <2> QED
    BY <2>1, Least
<1>2. x - 1 \in 0..(N - 1) /\ (x - 1) + 1 = x
  OBVIOUS
<1> QED
  BY <1>1, <1>2

\* A function that begins with b and goes on by the given steps exists.
LEMMA Recursion ==
    ASSUME NEW V, NEW b \in V, NEW N \in Nat, NEW next \in [1..N -> [V -> V]]
    PROVE  \E f \in [0..N -> V] : f[0] = b /\ \A n \in 1..N : f[n] = next[n][f[n - 1]]
<1> DEFINE Good(f, k) == f[0] = b /\ \A n \in 1..k : f[n] = next[n][f[n - 1]]
           S == {k \in 0..N : \E f \in [0..k -> V] : Good(f, k)}
<1>1. 0 \in S
  <2> DEFINE f == [i \in 0..0 |-> b]
  <2>1. f \in [0..0 -> V] /\ f[0] = b /\ 1..0 = {}
    OBVIOUS
  <2> HIDE DEF f
  <2> QED
    BY <2>1
<1>2. ASSUME NEW n \in 0..(N - 1), n \in S
      PROVE  n + 1 \in S
  <2>1. PICK f \in [0..n -> V] : Good(f, n)
    BY <1>2
  <2> DEFINE g == [i \in 0..(n + 1) |-> IF i = n + 1 THEN next[n + 1][f[n]] ELSE f[i]]
  <2>2. next[n + 1][f[n]] \in V
    OBVIOUS
  <2>3. g \in [0..(n + 1) -> V]
    BY <2>2
  <2>4. g[0] = b
    BY <2>1
  <2>5. ASSUME NEW m \in 1..(n + 1) PROVE g[m] = next[m][g[m - 1]]
    <3>1. CASE m = n + 1
      BY <3>1
    <3>2. CASE m \in 1..n
      BY <2>1, <3>2
    <3> QED
      BY <3>1, <3>2
  <2> HIDE DEF g
  <2> QED
    BY <2>3, <2>4, <2>5
<1>3. N \in S
  <2> HIDE DEF S
  <2>1. 0..N \subseteq S
    BY <1>1, <1>2, UpToN
  <2> QED
    BY <2>1
<1> QED
  BY <1>3

-----------------------------------------------------------------------------
(***************************************************************************)
(* What Join writes.                                                       *)
(***************************************************************************)

\* What texts are made of.
Tokens == {NewLine} \cup {Header(n, b) : n \in Nat, b \in Nat}
             \cup UNION {{t[i] : i \in DOMAIN t} : t \in PageTexts}

\* What the model reads on a page is a text.
LEMMA PagesAreTexts == PageTexts \subseteq Seq(Tokens)
<1> SUFFICES ASSUME NEW t \in PageTexts PROVE t \in Seq(Tokens)
  OBVIOUS
<1>1. t \in Seq({t[i] : i \in DOMAIN t})
  BY TranscriptionAssumption
<1>2. {t[i] : i \in DOMAIN t} \subseteq Tokens
  BY DEF Tokens
<1>3. DOMAIN t = 1..Len(t) /\ Len(t) \in Nat /\ \A i \in 1..Len(t) : t[i] \in Tokens
  BY <1>1, <1>2, LenProperties
<1>4. t = [i \in 1..Len(t) |-> t[i]]
  BY <1>1, <1>3
<1> QED
  BY <1>3, <1>4, IsASeq

\* A page with its header and the lines before it, appended to a text.
WithPage(a, p, n, t) == a \o p \o pageSeparator(n, t) \o t

\* What d consists of: a, p, the header at h with its blank line, t.
Composed(d, h, a, p, n, t) ==
    /\ d \in Seq(Tokens) /\ Len(d) = h + 2 + Len(t) /\ h \in Nat
    /\ \A i \in 1..Len(a) : d[i] = a[i]
    /\ \A i \in 1..Len(p) : d[Len(a) + i] = p[i]
    /\ d[h] = Header(n, Len(t)) /\ \A i \in 1..2 : d[h + i] = NewLine
    /\ \A i \in 1..Len(t) : d[h + 2 + i] = t[i]

\* A text appended to a text.
LEMMA TextAppended ==
    ASSUME NEW a \in Seq(Tokens), NEW b \in Seq(Tokens)
    PROVE  /\ a \o b \in Seq(Tokens) /\ Len(a \o b) = Len(a) + Len(b)
           /\ \A i \in 1..(Len(a) + Len(b)) : (a \o b)[i] = IF i <= Len(a) THEN a[i] ELSE b[i - Len(a)]
BY ConcatProperties

\* Appending a page changes nothing that was there before.
LEMMA PageAppended ==
    ASSUME NEW a \in Seq(Tokens), NEW p \in Seq(Tokens), NEW t \in Seq(Tokens), NEW n \in Nat
    PROVE  Composed(WithPage(a, p, n, t), Len(a) + Len(p) + 1, a, p, n, t)
<1> DEFINE s == pageSeparator(n, t)
           c == a \o p \o s \o t
<1>0. Len(a) \in Nat /\ Len(p) \in Nat /\ Len(t) \in Nat
  BY LenProperties
<1>1. s \in Seq(Tokens) /\ Len(s) = 3 /\ s[1] = Header(n, Len(t)) /\ s[2] = NewLine /\ s[3] = NewLine
  <2>1. Header(n, Len(t)) \in Tokens /\ NewLine \in Tokens
    BY <1>0 DEF Tokens
  <2> QED
    BY <2>1 DEF pageSeparator, BlankLine
<1> HIDE DEF s
<1>2. /\ a \o p \in Seq(Tokens) /\ Len(a \o p) = Len(a) + Len(p)
      /\ \A i \in 1..(Len(a) + Len(p)) : (a \o p)[i] = IF i <= Len(a) THEN a[i] ELSE p[i - Len(a)]
  BY TextAppended
<1> DEFINE ap == a \o p
<1>a. ap \in Seq(Tokens) /\ Len(ap) = Len(a) + Len(p)
  BY <1>2 DEF ap
<1>b. s \in Seq(Tokens)
  BY <1>1
<1> HIDE DEF ap, c
<1>3. /\ ap \o s \in Seq(Tokens) /\ Len(ap \o s) = Len(ap) + Len(s)
      /\ \A i \in 1..(Len(ap) + Len(s)) : (ap \o s)[i] = IF i <= Len(ap) THEN ap[i] ELSE s[i - Len(ap)]
  BY <1>a, <1>b, TextAppended, Zenon
<1> DEFINE aps == ap \o s
<1> HIDE DEF aps
<1>4. /\ aps \o t \in Seq(Tokens) /\ Len(aps \o t) = Len(aps) + Len(t)
      /\ \A i \in 1..(Len(aps) + Len(t)) : (aps \o t)[i] = IF i <= Len(aps) THEN aps[i] ELSE t[i - Len(aps)]
  <2>1. aps \in Seq(Tokens)
    BY <1>3 DEF aps
  <2> QED
    BY <2>1, TextAppended, Zenon
<1>5. c = aps \o t
  BY DEF aps, ap, c, s
<1> HIDE DEF c
<1>6. Len(ap) = Len(a) + Len(p) /\ Len(aps) = Len(a) + Len(p) + 3
  BY <1>0, <1>1, <1>2, <1>3 DEF ap, aps
<1>7. c \in Seq(Tokens) /\ Len(c) = Len(a) + Len(p) + 3 + Len(t)
  BY <1>0, <1>4, <1>5, <1>6
<1>8. \A i \in 1..(Len(a) + Len(p) + 3) : c[i] = aps[i]
  BY <1>0, <1>4, <1>5, <1>6
<1>9. \A i \in 1..Len(t) : c[Len(a) + Len(p) + 3 + i] = t[i]
  BY <1>0, <1>4, <1>5, <1>6
<1>10. \A i \in 1..(Len(a) + Len(p)) : aps[i] = IF i <= Len(a) THEN a[i] ELSE p[i - Len(a)]
  BY <1>0, <1>1, <1>2, <1>3, <1>6 DEF ap, aps
<1>11. \A i \in 1..3 : aps[Len(a) + Len(p) + i] = s[i]
  BY <1>0, <1>1, <1>3, <1>6 DEF aps
<1>12. \A i \in 1..Len(a) : c[i] = a[i]
  BY <1>0, <1>8, <1>10
<1>13. \A i \in 1..Len(p) : c[Len(a) + i] = p[i]
  BY <1>0, <1>8, <1>10
<1>14. \A i \in 1..3 : c[Len(a) + Len(p) + i] = s[i]
  BY <1>0, <1>8, <1>11
<1>15. /\ c[Len(a) + Len(p) + 1] = s[1] /\ c[Len(a) + Len(p) + 1 + 1] = s[2]
       /\ c[Len(a) + Len(p) + 1 + 2] = s[3]
  BY <1>0, <1>14
<1>16. \A i \in 1..Len(t) : c[Len(a) + Len(p) + 1 + 2 + i] = t[i]
  BY <1>0, <1>9
<1> DEFINE h == Len(a) + Len(p) + 1
<1>17. Composed(c, h, a, p, n, t)
  BY <1>0, <1>1, <1>7, <1>12, <1>13, <1>15, <1>16 DEF Composed
<1> QED
  BY <1>17, Zenon DEF c, s, WithPage

\* The number of pages the batches cover, and the lines before page n.
End(v) == v[Len(v)].range[2]
Padding(v, n) == IF n = 1 THEN <<>> ELSE blankLinePadding(Text(v, n - 1))

\* What ends with a line end or a blank line ends with those tokens.
LEMMA Ending ==
    ASSUME NEW t \in Seq(Tokens)
    PROVE  /\ EndsWith(t, <<NewLine>>) => Len(t) >= 1 /\ t[Len(t)] = NewLine
           /\ EndsWith(t, BlankLine) =>
                 Len(t) >= 2 /\ t[Len(t)] = NewLine /\ t[Len(t) - 1] = NewLine
<1>0. Len(t) \in Nat /\ \A i \in 1..Len(t) : t[i] \in Tokens
  BY LenProperties, ElementOfSeq
<1>1. ASSUME EndsWith(t, <<NewLine>>)
      PROVE  Len(t) >= 1 /\ t[Len(t)] = NewLine
  <2>1. Len(t) >= 1 /\ SubSeq(t, Len(t), Len(t)) = <<NewLine>>
    BY <1>0, <1>1 DEF EndsWith
  <2>2. SubSeq(t, Len(t), Len(t))[1] = t[Len(t) + 1 - 1]
    <3>1. \A i \in Len(t)..Len(t) : t[i] \in Tokens
      BY <1>0, <2>1
    <3>2. \A i \in 1..(Len(t) - Len(t) + 1) : SubSeq(t, Len(t), Len(t))[i] = t[Len(t) + i - 1]
      BY <1>0, <3>1, SubSeqProperties
    <3> QED
      BY <1>0, <3>2
  <2> QED
    BY <1>0, <2>1, <2>2
<1>2. ASSUME EndsWith(t, BlankLine)
      PROVE  Len(t) >= 2 /\ t[Len(t)] = NewLine /\ t[Len(t) - 1] = NewLine
  <2>1. Len(t) >= 2 /\ SubSeq(t, Len(t) - 1, Len(t)) = <<NewLine, NewLine>>
    BY <1>0, <1>2 DEF EndsWith, BlankLine
  <2>2. \A i \in 1..2 : SubSeq(t, Len(t) - 1, Len(t))[i] = t[Len(t) - 1 + i - 1]
    <3>1. \A i \in (Len(t) - 1)..Len(t) : t[i] \in Tokens
      BY <1>0, <2>1
    <3>2. \A i \in 1..(Len(t) - (Len(t) - 1) + 1) :
             SubSeq(t, Len(t) - 1, Len(t))[i] = t[Len(t) - 1 + i - 1]
      BY <1>0, <3>1, SubSeqProperties
    <3> QED
      BY <1>0, <3>2
  <2>3. t[Len(t) - 1 + 1 - 1] = NewLine /\ t[Len(t) - 1 + 2 - 1] = NewLine
    <3>1. /\ SubSeq(t, Len(t) - 1, Len(t))[1] = t[Len(t) - 1 + 1 - 1]
          /\ SubSeq(t, Len(t) - 1, Len(t))[2] = t[Len(t) - 1 + 2 - 1]
      BY <2>2
    <3>2. <<NewLine, NewLine>>[1] = NewLine /\ <<NewLine, NewLine>>[2] = NewLine
      OBVIOUS
    <3> QED
      BY <2>1, <3>1, <3>2, Zenon
  <2> QED
    BY <1>0, <2>1, <2>3
<1> QED
  BY <1>1, <1>2

\* The padding completes what the text ends with to a blank line.
LEMMA PaddingCompletes ==
    ASSUME NEW t \in Seq(Tokens)
    PROVE  LET p == blankLinePadding(t)
           IN /\ p \in Seq(Tokens) /\ Len(p) \in 0..2 /\ \A i \in 1..Len(p) : p[i] = NewLine
              /\ Len(p) < 2 => Len(t) >= 1 /\ t[Len(t)] = NewLine
              /\ Len(p) = 0 => Len(t) >= 2 /\ t[Len(t) - 1] = NewLine
<1> DEFINE p == blankLinePadding(t)
<1>0. NewLine \in Tokens
  BY DEF Tokens
<1>1. CASE EndsWith(t, BlankLine)
  <2>1. p = <<>>
    BY <1>1 DEF blankLinePadding
  <2>2. p \in Seq(Tokens) /\ Len(p) = 0
    BY <2>1, EmptySeq
  <2> QED
    BY <1>1, <2>2, Ending
<1>2. CASE ~EndsWith(t, BlankLine) /\ EndsWith(t, <<NewLine>>)
  <2>1. p = <<NewLine>>
    BY <1>2 DEF blankLinePadding
  <2>2. p \in Seq(Tokens) /\ Len(p) = 1 /\ p[1] = NewLine
    BY <1>0, <2>1
  <2> QED
    BY <1>2, <2>2, Ending
<1>3. CASE ~EndsWith(t, BlankLine) /\ ~EndsWith(t, <<NewLine>>)
  <2>1. p = <<NewLine, NewLine>>
    BY <1>3 DEF blankLinePadding, BlankLine
  <2>2. p \in Seq(Tokens) /\ Len(p) = 2 /\ p[1] = NewLine /\ p[2] = NewLine
    BY <1>0, <2>1
  <2> QED
    BY <2>2
<1> QED
  BY <1>1, <1>2, <1>3

\* What Join computes, page by page: the recursion in it is well defined.
LEMMA JoinByPages ==
    ASSUME NEW v, End(v) \in Nat, \A n \in 1..End(v) : Text(v, n) \in Seq(Tokens)
    PROVE  \E f \in [0..End(v) -> Seq(Tokens)] :
              /\ Join(v) = f[End(v)] /\ f[0] = <<>>
              /\ \A n \in 1..End(v) :
                    f[n] = WithPage(f[n - 1], Padding(v, n), n, Text(v, n))
<1> DEFINE N == End(v)
           add(s, n) == WithPage(s, Padding(v, n), n, Text(v, n))
           next == [n \in 1..N |-> [s \in Seq(Tokens) |-> add(s, n)]]
           eqn(f) == f = [n \in 0..N |-> IF n = 0 THEN <<>> ELSE add(f[n - 1], n)]
<1>1. ASSUME NEW n \in 1..N
      PROVE  Padding(v, n) \in Seq(Tokens)
  <2>1. CASE n = 1
    BY <2>1, EmptySeq DEF Padding
  <2>2. CASE n # 1
    <3>1. n - 1 \in 1..N
      BY <2>2
    <3> QED
      BY <2>2, <3>1, PaddingCompletes DEF Padding
  <2> QED
    BY <2>1, <2>2
<1>2. ASSUME NEW n \in 1..N, NEW s \in Seq(Tokens)
      PROVE  add(s, n) \in Seq(Tokens)
  <2>1. Padding(v, n) \in Seq(Tokens) /\ Text(v, n) \in Seq(Tokens) /\ n \in Nat
    BY <1>1
  <2> QED
    BY <2>1, PageAppended DEF Composed
<1> HIDE DEF add
<1>3. next \in [1..N -> [Seq(Tokens) -> Seq(Tokens)]]
  BY <1>2
<1>4. <<>> \in Seq(Tokens) /\ N \in Nat
  BY EmptySeq
<1> HIDE DEF next, N
<1>5. PICK g \in [0..N -> Seq(Tokens)] : g[0] = <<>> /\ \A n \in 1..N : g[n] = next[n][g[n - 1]]
  <2> DEFINE V == Seq(Tokens)
             b == <<>>
  <2>1. b \in V /\ N \in Nat /\ next \in [1..N -> [V -> V]]
    BY <1>3, <1>4
  <2> HIDE DEF V, b
  <2>2. \E g \in [0..N -> V] : g[0] = b /\ \A n \in 1..N : g[n] = next[n][g[n - 1]]
    BY <2>1, Recursion
  <2> QED
    BY <2>2 DEF V, b
<1>6. ASSUME NEW n \in 1..N
      PROVE  g[n] = add(g[n - 1], n)
  <2>1. g[n - 1] \in Seq(Tokens)
    BY <1>4, <1>5
  <2>2. next[n][g[n - 1]] = add(g[n - 1], n)
    BY <2>1 DEF next
  <2> QED
    BY <1>5, <2>2
<1>7. eqn(g)
  BY <1>4, <1>5, <1>6
<1> DEFINE f == CHOOSE f : eqn(f)
<1>8. eqn(f)
  BY <1>7, Zenon
<1>9. Join(v) = f[N]
  BY DEF Join, add, Padding, End, N, WithPage
<1> HIDE DEF f
<1>10. f[0] = <<>> /\ \A n \in 1..N : f[n] = add(f[n - 1], n)
  BY <1>4, <1>8
<1>11. 0..N \subseteq {n \in 0..N : f[n] \in Seq(Tokens)}
  <2> DEFINE S == {n \in 0..N : f[n] \in Seq(Tokens)}
  <2>1. 0 \in S
    <3>1. 0 \in 0..N
      BY <1>4
    <3>2. f[0] \in Seq(Tokens)
      BY <1>4, <1>10, Zenon
    <3> QED
      BY <3>1, <3>2, Zenon
  <2>2. \A n \in 0..(N - 1) : n \in S => n + 1 \in S
    BY <1>2, <1>4, <1>10
  <2> HIDE DEF S
  <2>3. 0..N \subseteq S
    BY <1>4, <2>1, <2>2, UpToN
  <2> QED
    BY <2>3 DEF S
<1>12. f \in [0..N -> Seq(Tokens)]
  BY <1>8, <1>11
<1> QED
  BY <1>9, <1>10, <1>12 DEF add, N

\* A joined text c: page n has its header at pos[n], a blank line, its tokens; between
\* it and the next header are line ends only, with the end of the page a blank line.
LaidOut(c, N, pages, pos) ==
    /\ c \in Seq(Tokens) /\ pos \in [1..N -> Nat] /\ pos[1] = 1
    /\ \A n \in 1..N :
          /\ c[pos[n]] = Header(n, Len(pages[n]))
          /\ (\A i \in 1..2 : c[pos[n] + i] = NewLine)
          /\ \A i \in 1..Len(pages[n]) : c[pos[n] + 2 + i] = pages[n][i]
    /\ Len(c) = pos[N] + 2 + Len(pages[N])
    /\ \A n \in 2..N :
          /\ pos[n] \in (pos[n - 1] + 3 + Len(pages[n - 1]))..Len(c) /\ pos[n] > 2
          /\ \A i \in (pos[n - 1] + 3 + Len(pages[n - 1]))..(pos[n] - 1) : c[i] = NewLine
          /\ c[pos[n] - 1] = NewLine /\ c[pos[n] - 2] = NewLine

\* Join lays the pages out like this, whatever they end with.
LEMMA JoinLaysOut ==
    ASSUME NEW v, End(v) \in Nat \ {0}, \A n \in 1..End(v) : Text(v, n) \in Seq(Tokens)
    PROVE  \E pos : LaidOut(Join(v), End(v), [n \in 1..End(v) |-> Text(v, n)], pos)
<1> DEFINE N == End(v)
           t(n) == Text(v, n)
           p(n) == Padding(v, n)
<1>1. PICK f \in [0..N -> Seq(Tokens)] :
         /\ Join(v) = f[N] /\ f[0] = <<>>
         /\ \A n \in 1..N : f[n] = WithPage(f[n - 1], p(n), n, t(n))
  BY JoinByPages
<1>t. N \in Nat \ {0} /\ \A n \in 1..N : t(n) \in Seq(Tokens) /\ Len(t(n)) \in Nat
  BY LenProperties
<1>p. ASSUME NEW n \in 1..N
      PROVE  /\ p(n) \in Seq(Tokens) /\ Len(p(n)) \in Nat /\ \A i \in 1..Len(p(n)) : p(n)[i] = NewLine
             /\ n = 1 => Len(p(n)) = 0
             /\ n # 1 => /\ Len(p(n)) \in 0..2
                         /\ Len(p(n)) < 2 => Len(t(n - 1)) >= 1 /\ t(n - 1)[Len(t(n - 1))] = NewLine
                         /\ Len(p(n)) = 0 => Len(t(n - 1)) >= 2 /\ t(n - 1)[Len(t(n - 1)) - 1] = NewLine
  <2>1. CASE n = 1
    BY <2>1, EmptySeq DEF Padding
  <2>2. CASE n # 1
    <3>1. n - 1 \in 1..N
      BY <2>2
    <3>2. t(n - 1) \in Seq(Tokens) /\ p(n) = blankLinePadding(t(n - 1))
      BY <2>2, <3>1, <1>t DEF Padding
    <3> HIDE DEF t, p
    <3>3. /\ p(n) \in Seq(Tokens) /\ Len(p(n)) \in 0..2 /\ \A i \in 1..Len(p(n)) : p(n)[i] = NewLine
          /\ Len(p(n)) < 2 => Len(t(n - 1)) >= 1 /\ t(n - 1)[Len(t(n - 1))] = NewLine
          /\ Len(p(n)) = 0 => Len(t(n - 1)) >= 2 /\ t(n - 1)[Len(t(n - 1)) - 1] = NewLine
      BY <3>2, PaddingCompletes
    <3> QED
      BY <2>2, <3>3
  <2> QED
    BY <2>1, <2>2
<1> DEFINE L(n) == Len(f[n])
           pos == [n \in 1..N |-> L(n - 1) + Len(p(n)) + 1]
           c == Join(v)
<1> HIDE DEF N, t, p
<1>2. \A n \in 0..N : f[n] \in Seq(Tokens) /\ L(n) \in Nat
  BY LenProperties
<1>3. ASSUME NEW n \in 1..N
      PROVE  /\ pos[n] = L(n - 1) + Len(p(n)) + 1 /\ pos[n] \in Nat /\ L(n) = pos[n] + 2 + Len(t(n))
             /\ \A i \in 1..L(n - 1) : f[n][i] = f[n - 1][i]
             /\ \A i \in 1..Len(p(n)) : f[n][L(n - 1) + i] = p(n)[i]
             /\ f[n][pos[n]] = Header(n, Len(t(n)))
             /\ (\A i \in 1..2 : f[n][pos[n] + i] = NewLine)
             /\ \A i \in 1..Len(t(n)) : f[n][pos[n] + 2 + i] = t(n)[i]
  <2>1. f[n - 1] \in Seq(Tokens) /\ p(n) \in Seq(Tokens) /\ t(n) \in Seq(Tokens) /\ n \in Nat
    BY <1>2, <1>p, <1>t
  <2>2. f[n] = WithPage(f[n - 1], p(n), n, t(n))
    BY <1>1
  <2>3. pos[n] = L(n - 1) + Len(p(n)) + 1
    OBVIOUS
  <2> HIDE DEF pos
  <2>4. /\ f[n] \in Seq(Tokens) /\ Len(f[n]) = pos[n] + 2 + Len(t(n)) /\ pos[n] \in Nat
        /\ \A i \in 1..Len(f[n - 1]) : f[n][i] = f[n - 1][i]
        /\ \A i \in 1..Len(p(n)) : f[n][Len(f[n - 1]) + i] = p(n)[i]
        /\ f[n][pos[n]] = Header(n, Len(t(n)))
        /\ (\A i \in 1..2 : f[n][pos[n] + i] = NewLine)
        /\ \A i \in 1..Len(t(n)) : f[n][pos[n] + 2 + i] = t(n)[i]
    <3>1. Composed(f[n], pos[n], f[n - 1], p(n), n, t(n))
      BY <2>1, <2>2, <2>3, PageAppended
    <3> QED
      BY <3>1 DEF Composed
  <2> QED
    BY <2>3, <2>4
<1> HIDE DEF pos
<1>4. ASSUME NEW m \in 0..N
      PROVE  L(m) <= L(N) /\ \A i \in 1..L(m) : c[i] = f[m][i]
  <2> DEFINE S == {n \in 0..N : n >= m => L(m) <= L(n) /\ \A i \in 1..L(m) : f[n][i] = f[m][i]}
  <2>1. 0 \in S
    BY <1>t, <1>2
  <2>2. ASSUME NEW n \in 0..(N - 1), n \in S
        PROVE  n + 1 \in S
    <3>0. n + 1 \in 1..N /\ (n + 1) - 1 = n /\ L(m) \in Nat /\ L(n) \in Nat
      BY <1>t, <1>2
    <3>1. CASE n + 1 = m
      BY <3>0, <3>1
    <3>2. CASE n + 1 < m
      BY <3>0, <3>2
    <3>3. CASE n >= m
      <4>1. L(m) <= L(n) /\ \A i \in 1..L(m) : f[n][i] = f[m][i]
        BY <2>2, <3>3
      <4>2. L(n) <= L(n + 1) /\ \A i \in 1..L(n) : f[n + 1][i] = f[n][i]
        <5>1. /\ pos[n + 1] = L((n + 1) - 1) + Len(p(n + 1)) + 1
              /\ L(n + 1) = pos[n + 1] + 2 + Len(t(n + 1))
              /\ \A i \in 1..L((n + 1) - 1) : f[n + 1][i] = f[(n + 1) - 1][i]
          BY <1>3, <3>0
        <5>2. Len(p(n + 1)) \in Nat /\ Len(t(n + 1)) \in Nat
          BY <1>p, <1>t, <3>0
        <5> HIDE DEF L
        <5> QED
          BY <3>0, <5>1, <5>2
      <4> HIDE DEF L
      <4>3. L(m) <= L(n + 1) /\ \A i \in 1..L(m) : f[n + 1][i] = f[m][i]
        <5>1. L(n + 1) \in Nat
          BY <1>2, <3>0
        <5> QED
          BY <3>0, <4>1, <4>2, <5>1
      <4> QED
        BY <3>0, <4>3
    <3> QED
      BY <3>0, <3>1, <3>2, <3>3
  <2> HIDE DEF S
  <2>3. 0..N \subseteq S
    BY <1>t, <2>1, <2>2, UpToN
  <2> QED
    BY <1>1, <1>t, <2>3 DEF S, N
<1>5. ASSUME NEW n \in 1..N
      PROVE  /\ c[pos[n]] = Header(n, Len(t(n)))
             /\ (\A i \in 1..2 : c[pos[n] + i] = NewLine)
             /\ \A i \in 1..Len(t(n)) : c[pos[n] + 2 + i] = t(n)[i]
             /\ \A i \in 1..Len(p(n)) : c[L(n - 1) + i] = NewLine
             /\ pos[n] \in 1..L(N) /\ pos[n] = L(n - 1) + Len(p(n)) + 1
             /\ L(n) = pos[n] + 2 + Len(t(n)) /\ L(n - 1) \in Nat
  <2>1. /\ pos[n] = L(n - 1) + Len(p(n)) + 1 /\ pos[n] \in Nat /\ L(n) = pos[n] + 2 + Len(t(n))
        /\ \A i \in 1..Len(p(n)) : f[n][L(n - 1) + i] = p(n)[i]
        /\ f[n][pos[n]] = Header(n, Len(t(n)))
        /\ (\A i \in 1..2 : f[n][pos[n] + i] = NewLine)
        /\ \A i \in 1..Len(t(n)) : f[n][pos[n] + 2 + i] = t(n)[i]
    BY <1>3
  <2>2. L(n) <= L(N) /\ \A i \in 1..L(n) : c[i] = f[n][i]
    BY <1>4, <1>t
  <2>3. Len(p(n)) \in Nat /\ Len(t(n)) \in Nat /\ \A i \in 1..Len(p(n)) : p(n)[i] = NewLine
    BY <1>p, <1>t
  <2>4. L(n) \in Nat /\ L(n - 1) \in Nat /\ L(N) \in Nat
    BY <1>2, <1>t
  <2> HIDE DEF L, c
  <2>a. /\ \A i \in 1..Len(t(n)) : pos[n] + 2 + i \in 1..L(n)
        /\ \A i \in 1..Len(p(n)) : L(n - 1) + i \in 1..L(n)
        /\ {pos[n], pos[n] + 1, pos[n] + 2} \subseteq 1..L(n) /\ pos[n] \in 1..L(N)
    <3>1. pos[n] = L(n - 1) + Len(p(n)) + 1 /\ pos[n] \in Nat /\ L(n) = pos[n] + 2 + Len(t(n))
      BY <2>1
    <3>2. Len(p(n)) \in Nat /\ Len(t(n)) \in Nat /\ L(n) <= L(N)
      BY <2>2, <2>3
    <3> QED
      <4>1. /\ pos[n] \in 1..L(n) /\ pos[n] + 1 \in 1..L(n) /\ pos[n] + 2 \in 1..L(n)
            /\ \A i \in 1..Len(t(n)) : pos[n] + 2 + i \in 1..L(n)
            /\ \A i \in 1..Len(p(n)) : L(n - 1) + i \in 1..L(n)
        <5> DEFINE l == L(n - 1)
                   k == Len(p(n))
                   m == Len(t(n))
                   h == pos[n]
                   e == L(n)
        <5>1. l \in Nat /\ k \in Nat /\ m \in Nat /\ h = l + k + 1 /\ e = h + 2 + m
          BY <2>4, <3>1, <3>2
        <5> HIDE DEF l, k, m, h, e
        <5>2. /\ h \in 1..e /\ h + 1 \in 1..e /\ h + 2 \in 1..e
              /\ \A i \in 1..m : h + 2 + i \in 1..e
              /\ \A i \in 1..k : l + i \in 1..e
          BY <5>1
        <5> QED
          BY <5>2 DEF l, k, m, h, e
      <4>2. pos[n] \in 1..L(N)
        BY <2>4, <3>2, <4>1
      <4> QED
        BY <4>1, <4>2
  <2>5. \A i \in 1..Len(t(n)) : c[pos[n] + 2 + i] = t(n)[i]
    BY <2>1, <2>2, <2>a
  <2>6. \A i \in 1..Len(p(n)) : c[L(n - 1) + i] = NewLine
    BY <2>1, <2>2, <2>3, <2>a
  <2>7. /\ c[pos[n]] = Header(n, Len(t(n)))
        /\ (\A i \in 1..2 : c[pos[n] + i] = NewLine) /\ pos[n] \in 1..L(N)
    BY <2>1, <2>2, <2>a
  <2> QED
    BY <2>1, <2>4, <2>5, <2>6, <2>7
<1> HIDE DEF c
<1>6. ASSUME NEW n \in 2..N
      PROVE  /\ pos[n] \in (pos[n - 1] + 3 + Len(t(n - 1)))..L(N) /\ pos[n] > 2
             /\ \A i \in (pos[n - 1] + 3 + Len(t(n - 1)))..(pos[n] - 1) : c[i] = NewLine
             /\ c[pos[n] - 1] = NewLine /\ c[pos[n] - 2] = NewLine
  <2>1. n \in 1..N /\ n - 1 \in 1..N /\ n # 1
    BY <1>t
  <2>2. /\ pos[n] \in 1..L(N) /\ pos[n] = L(n - 1) + Len(p(n)) + 1
        /\ \A i \in 1..Len(p(n)) : c[L(n - 1) + i] = NewLine
    BY <1>5, <2>1
  <2>3. /\ L(n - 1) = pos[n - 1] + 2 + Len(t(n - 1)) /\ pos[n - 1] \in 1..L(N)
        /\ \A i \in 1..Len(t(n - 1)) : c[pos[n - 1] + 2 + i] = t(n - 1)[i]
        /\ c[pos[n - 1] + 2] = NewLine
    BY <1>5, <2>1
  <2>4. /\ Len(t(n - 1)) \in Nat /\ Len(p(n)) \in 0..2
        /\ Len(p(n)) < 2 => Len(t(n - 1)) >= 1 /\ t(n - 1)[Len(t(n - 1))] = NewLine
        /\ Len(p(n)) = 0 => Len(t(n - 1)) >= 2 /\ t(n - 1)[Len(t(n - 1)) - 1] = NewLine
    BY <1>p, <1>t, <2>1
  <2>5. L(N) \in Nat
    BY <1>2, <1>t
  <2> HIDE DEF L
  <2>n. /\ pos[n] \in Nat /\ pos[n - 1] \in Nat /\ pos[n - 1] >= 1 /\ pos[n] <= L(N)
        /\ pos[n] = L(n - 1) + Len(p(n)) + 1 /\ L(n - 1) = pos[n - 1] + 2 + Len(t(n - 1))
        /\ Len(t(n - 1)) \in Nat /\ Len(p(n)) \in 0..2
    <3>1. pos[n] \in 1..L(N) /\ pos[n - 1] \in 1..L(N)
      BY <2>2, <2>3
    <3> QED
      BY <2>2, <2>3, <2>4, <2>5, <3>1
  <2>6. pos[n] \in (pos[n - 1] + 3 + Len(t(n - 1)))..L(N) /\ pos[n] > 2
    BY <2>5, <2>n
  <2>7. \A i \in (pos[n - 1] + 3 + Len(t(n - 1)))..(pos[n] - 1) : c[i] = NewLine
    <3> SUFFICES ASSUME NEW i \in (pos[n - 1] + 3 + Len(t(n - 1)))..(pos[n] - 1)
                 PROVE  c[i] = NewLine
      OBVIOUS
    <3>1. i - L(n - 1) \in 1..Len(p(n)) /\ L(n - 1) + (i - L(n - 1)) = i
      <4>1. i \in (pos[n - 1] + 3 + Len(t(n - 1)))..(pos[n] - 1)
        OBVIOUS
      <4> DEFINE l == L(n - 1)
                 k == Len(p(n))
                 m == Len(t(n - 1))
                 g == pos[n - 1]
                 h == pos[n]
      <4>2. /\ k \in Nat /\ m \in Nat /\ g \in Nat /\ h = l + k + 1 /\ l = g + 2 + m
            /\ i \in (g + 3 + m)..(h - 1)
        BY <2>n, <4>1
      <4> HIDE DEF l, k, m, g, h
      <4>3. i - l \in 1..k /\ l + (i - l) = i
        BY <4>2
      <4> QED
        BY <4>3 DEF l, k
    <3> QED
      BY <2>2, <3>1
  <2>8. c[pos[n] - 1] = NewLine /\ c[pos[n] - 2] = NewLine
    <3>1. CASE Len(p(n)) = 2
      <4>1. L(n - 1) + 2 = pos[n] - 1 /\ L(n - 1) + 1 = pos[n] - 2
        BY <2>n, <3>1
      <4>2. c[L(n - 1) + 2] = NewLine /\ c[L(n - 1) + 1] = NewLine
        BY <2>2, <3>1
      <4> QED
        BY <4>1, <4>2
    <3>2. CASE Len(p(n)) = 1
      <4>1. /\ L(n - 1) + 1 = pos[n] - 1
            /\ pos[n - 1] + 2 + Len(t(n - 1)) = pos[n] - 2 /\ Len(t(n - 1)) \in 1..Len(t(n - 1))
        BY <2>4, <2>n, <3>2
      <4>2. c[pos[n - 1] + 2 + Len(t(n - 1))] = t(n - 1)[Len(t(n - 1))]
        BY <2>3, <4>1
      <4>3. t(n - 1)[Len(t(n - 1))] = NewLine /\ c[L(n - 1) + 1] = NewLine
        BY <2>2, <2>4, <3>2
      <4> QED
        BY <4>1, <4>2, <4>3
    <3>3. CASE Len(p(n)) = 0
      <4>1. /\ pos[n - 1] + 2 + Len(t(n - 1)) = pos[n] - 1 /\ Len(t(n - 1)) \in 1..Len(t(n - 1))
            /\ pos[n - 1] + 2 + (Len(t(n - 1)) - 1) = pos[n] - 2
            /\ Len(t(n - 1)) - 1 \in 1..Len(t(n - 1))
        <5>1. Len(t(n - 1)) >= 2
          BY <2>4, <3>3
        <5> QED
          BY <2>n, <3>3, <5>1
      <4>2. /\ c[pos[n - 1] + 2 + Len(t(n - 1))] = t(n - 1)[Len(t(n - 1))]
            /\ c[pos[n - 1] + 2 + (Len(t(n - 1)) - 1)] = t(n - 1)[Len(t(n - 1)) - 1]
        BY <2>3, <4>1
      <4>3. t(n - 1)[Len(t(n - 1))] = NewLine /\ t(n - 1)[Len(t(n - 1)) - 1] = NewLine
        BY <2>4, <3>3
      <4> QED
        BY <4>1, <4>2, <4>3
    <3> QED
      BY <2>4, <3>1, <3>2, <3>3
  <2> QED
    BY <2>6, <2>7, <2>8
<1>7. c \in Seq(Tokens) /\ Len(c) = L(N)
  BY <1>1, <1>2, <1>t DEF c, N
<1>8. pos \in [1..N -> Nat] /\ pos[1] = 1
  <2>1. pos = [n \in 1..N |-> pos[n]] /\ \A n \in 1..N : pos[n] \in Nat
    BY <1>3 DEF pos
  <2>2. pos[1] = L(0) + Len(p(1)) + 1 /\ Len(p(1)) = 0 /\ L(0) = 0
    <3>1. 1 \in 1..N /\ 1 - 1 = 0
      BY <1>t
    <3>2. pos[1] = L(1 - 1) + Len(p(1)) + 1 /\ Len(p(1)) = 0
      BY <1>3, <1>p, <3>1
    <3>3. L(0) = 0
      BY <1>1, EmptySeq
    <3> QED
      BY <3>1, <3>2, <3>3
  <2> QED
    BY <2>1, <2>2
<1>9. Len(c) = pos[N] + 2 + Len(t(N))
  <2>1. N \in 1..N
    BY <1>t
  <2>2. L(N) = pos[N] + 2 + Len(t(N))
    BY <1>5, <2>1
  <2> QED
    BY <1>7, <2>2
<1> DEFINE pages == [n \in 1..N |-> t(n)]
<1>10. LaidOut(c, N, pages, pos)
  <2>1. \A n \in 1..N : pages[n] = t(n)
    OBVIOUS
  <2>2. \A n \in 2..N : n - 1 \in 1..N
    BY <1>t
  <2>3. N \in 1..N
    BY <1>t
  <2> HIDE DEF pages
  <2>4. \A n \in 1..N :
          /\ c[pos[n]] = Header(n, Len(pages[n]))
          /\ (\A i \in 1..2 : c[pos[n] + i] = NewLine)
          /\ \A i \in 1..Len(pages[n]) : c[pos[n] + 2 + i] = pages[n][i]
    BY <1>5, <2>1
  <2>5. \A n \in 2..N :
          /\ pos[n] \in (pos[n - 1] + 3 + Len(pages[n - 1]))..Len(c) /\ pos[n] > 2
          /\ \A i \in (pos[n - 1] + 3 + Len(pages[n - 1]))..(pos[n] - 1) : c[i] = NewLine
          /\ c[pos[n] - 1] = NewLine /\ c[pos[n] - 2] = NewLine
    BY <1>6, <1>7, <2>1, <2>2
  <2> QED
    BY <1>7, <1>8, <1>9, <2>1, <2>3, <2>4, <2>5 DEF LaidOut
<1> QED
  BY <1>10 DEF c, N, t

-----------------------------------------------------------------------------
(***************************************************************************)
(* What a reader of it finds.                                              *)
(***************************************************************************)

\* Where the reader looks for the header after the one at a.
HeaderAfter(a) ==
    CHOOSE i \in (a + 3 + content[a][3])..Len(content) :
        content[i] # NewLine /\ \A j \in (a + 3 + content[a][3])..(i - 1) : content[j] = NewLine

\* In a joined text the reader gets from one header to the next: only line ends
\* are between a page and the header after it.
LEMMA ReaderSteps ==
    ASSUME NEW N \in Nat \ {0}, NEW pages, \A n \in 1..N : Len(pages[n]) \in Nat, NEW pos,
           LaidOut(content, N, pages, pos), NEW n \in 2..N
    PROVE  HeaderAfter(pos[n - 1]) = pos[n]
<1> DEFINE e == pos[n - 1] + 3 + Len(pages[n - 1])
           Found(i) == content[i] # NewLine /\ \A j \in e..(i - 1) : content[j] = NewLine
<1>1. n \in 1..N /\ n - 1 \in 1..N
  OBVIOUS
<1>2. content[pos[n - 1]] = Header(n - 1, Len(pages[n - 1])) /\ content[pos[n]] = Header(n, Len(pages[n]))
  BY <1>1 DEF LaidOut
<1>3. content[pos[n - 1]][3] = Len(pages[n - 1])
  BY <1>2 DEF Header
<1>4. content[pos[n]] # NewLine
  <2>1. Len(Header(n, Len(pages[n]))) = 3 /\ Len(NewLine) = 1
    BY DEF Header, NewLine
  <2> DEFINE x == Header(n, Len(pages[n]))
             y == NewLine
  <2>2. Len(x) # Len(y)
    BY <2>1
  <2> HIDE DEF x, y
  <2>3. x # y
    BY <2>2
  <2> QED
    BY <1>2, <2>3 DEF x, y
<1>5. pos[n] \in e..Len(content) /\ \A i \in e..(pos[n] - 1) : content[i] = NewLine
  BY DEF LaidOut
<1>6. pos[n - 1] \in Nat /\ pos[n] \in Nat /\ Len(pages[n - 1]) \in Nat /\ Len(content) \in Nat
  BY <1>1, LenProperties DEF LaidOut
<1>7. e \in Nat
  BY <1>6
<1>8. HeaderAfter(pos[n - 1]) = CHOOSE i \in e..Len(content) : Found(i)
  BY <1>3, Zenon DEF HeaderAfter
<1> HIDE DEF e
<1>9. ASSUME NEW i \in e..Len(content), Found(i)
      PROVE  i = pos[n]
  <2>1. CASE i < pos[n]
    <3>1. i \in e..(pos[n] - 1)
      BY <1>6, <1>7, <2>1
    <3> QED
      BY <1>5, <1>9, <3>1
  <2>2. CASE pos[n] < i
    <3>1. pos[n] \in e..(i - 1)
      BY <1>5, <1>6, <1>7, <2>2
    <3> QED
      BY <1>4, <1>9, <3>1
  <2>3. i \in Nat
    BY <1>6, <1>7
  <2> QED
    BY <1>6, <2>1, <2>2, <2>3
<1>10. pos[n] \in e..Len(content) /\ Found(pos[n])
  BY <1>4, <1>5
<1> HIDE DEF Found
<1> QED
  BY <1>8, <1>9, <1>10

\* So the reader finds every header.
LEMMA ReaderFinds ==
    ASSUME NEW N \in Nat \ {0}, NEW pages, \A n \in 1..N : Len(pages[n]) \in Nat, NEW pos,
           LaidOut(content, N, pages, pos), NEW n \in 1..N
    PROVE  HeaderAt(n) = pos[n]
<1> DEFINE eqn(f) == f = [k \in 1..n |-> IF k = 1 THEN 1 ELSE HeaderAfter(f[k - 1])]
           g == [k \in 1..n |-> pos[k]]
           f == CHOOSE f : eqn(f)
<1>1. \A k \in 2..n : HeaderAfter(pos[k - 1]) = pos[k]
  BY ReaderSteps
<1>2. pos[1] = 1
  BY DEF LaidOut
<1> HIDE DEF HeaderAfter
<1>3. eqn(g)
  <2>1. ASSUME NEW k \in 1..n
        PROVE  pos[k] = IF k = 1 THEN 1 ELSE HeaderAfter(g[k - 1])
    <3>1. CASE k = 1
      BY <1>2, <3>1
    <3>2. CASE k # 1
      <4>1. k \in 2..n /\ k - 1 \in 1..n
        BY <3>2
      <4>2. g[k - 1] = pos[k - 1]
        BY <4>1
      <4> HIDE DEF g
      <4> QED
        BY <1>1, <3>2, <4>1, <4>2
    <3> QED
      BY <3>1, <3>2
  <2> QED
    BY <2>1
<1>4. eqn(f)
  <2> HIDE DEF g
  <2> QED
    BY <1>3, Zenon
<1>5. HeaderAt(n) = f[n]
  BY DEF HeaderAt, HeaderAfter
<1> HIDE DEF f
<1>6. f[1] = 1 /\ \A k \in 2..n : f[k] = HeaderAfter(f[k - 1])
  BY <1>4
<1> DEFINE S == {k \in 0..n : k >= 1 => f[k] = pos[k]}
<1>7. 0 \in S
  OBVIOUS
<1>8. ASSUME NEW k \in 0..(n - 1), k \in S
      PROVE  k + 1 \in S
  <2>1. CASE k = 0
    BY <1>2, <1>6, <2>1
  <2>2. CASE k # 0
    <3>1. k + 1 \in 2..n /\ (k + 1) - 1 = k /\ f[k] = pos[k]
      BY <1>8, <2>2
    <3>2. f[k + 1] = HeaderAfter(f[(k + 1) - 1]) /\ pos[k + 1] = HeaderAfter(pos[(k + 1) - 1])
      BY <1>1, <1>6, <3>1
    <3> QED
      BY <3>1, <3>2
  <2> QED
    BY <2>1, <2>2
<1> HIDE DEF S
<1>9. 0..n \subseteq S
  <2>1. n \in Nat
    OBVIOUS
  <2> QED
    BY <1>7, <1>8, <2>1, UpToN
<1> QED
  BY <1>5, <1>9 DEF S

\* The tokens of t, wherever they stand in c, are cut out as t.
LEMMA CutOut ==
    ASSUME NEW c, NEW t \in Seq(Tokens), NEW lo \in Int, \A i \in 1..Len(t) : c[lo + i] = t[i],
           NEW first, first = lo + 1, NEW last, last = lo + Len(t)
    PROVE  SubSeq(c, first, last) = t
<1> DEFINE s == SubSeq(c, first, last)
<1>1. Len(t) \in Nat /\ DOMAIN t = 1..Len(t) /\ \A i \in 1..Len(t) : t[i] \in Tokens
  BY LenProperties, ElementOfSeq
<1>2. first \in Int /\ last \in Int /\ last - first + 1 = Len(t) /\ (first <= last => Len(t) = last - first + 1)
      /\ (~(first <= last) => Len(t) = 0)
  BY <1>1
<1>3. \A i \in first..last : c[i] \in Tokens
  <2> SUFFICES ASSUME NEW i \in first..last PROVE c[i] \in Tokens
    OBVIOUS
  <2>1. i - lo \in 1..Len(t) /\ lo + (i - lo) = i
    BY <1>1, <1>2
  <2>2. c[lo + (i - lo)] = t[i - lo]
    BY <2>1
  <2> QED
    BY <1>1, <2>1, <2>2
<1>4. /\ s \in Seq(Tokens) /\ Len(s) = (IF first <= last THEN last - first + 1 ELSE 0)
      /\ \A i \in 1..(last - first + 1) : s[i] = c[first + i - 1]
  BY <1>2, <1>3, SubSeqProperties
<1>5. Len(s) = Len(t)
  BY <1>2, <1>4
<1>6. \A i \in 1..Len(t) : s[i] = t[i]
  <2> SUFFICES ASSUME NEW i \in 1..Len(t) PROVE s[i] = t[i]
    OBVIOUS
  <2>1. first + i - 1 = lo + i
    BY <1>1
  <2>2. s[i] = c[first + i - 1]
    BY <1>2, <1>4
  <2> QED
    BY <2>1, <2>2
<1> HIDE DEF s
<1>7. s = t
  BY <1>4, <1>5, <1>6, SeqEqual
<1> QED
  BY <1>7 DEF s

\* What JoinReadable says of one page, its header standing at h.
ReadableAt(h, n, N, text) ==
    /\ content[h] = Header(n, Len(text))
    /\ SubSeq(content, h + 1, h + 2) = BlankLine
    /\ SubSeq(content, h + 3, h + 2 + Len(text)) = text
    /\ n > 1 => SubSeq(content, h - 2, h - 1) = BlankLine
    /\ n = N => Len(content) = h + 2 + Len(text)

\* In a joined text every page is found where its header is.
LEMMA LaidOutReadable ==
    ASSUME NEW N \in Nat \ {0}, NEW pages, \A n \in 1..N : pages[n] \in Seq(Tokens), NEW pos,
           LaidOut(content, N, pages, pos), NEW n \in 1..N
    PROVE  ReadableAt(HeaderAt(n), n, N, pages[n])
<1> DEFINE h == pos[n]
           t == pages[n]
<1>1. Len(t) \in Nat /\ t \in Seq(Tokens) /\ h \in Nat
  BY LenProperties DEF LaidOut
<1>2. HeaderAt(n) = h
  <2>1. \A i \in 1..N : Len(pages[i]) \in Nat
    BY LenProperties
  <2> QED
    BY <2>1, ReaderFinds
<1>3. BlankLine \in Seq(Tokens) /\ Len(BlankLine) = 2 /\ \A i \in 1..2 : BlankLine[i] = NewLine
  <2>1. NewLine \in Tokens
    BY DEF Tokens
  <2>2. BlankLine \in Seq(Tokens) /\ Len(BlankLine) = 2 /\ BlankLine[1] = NewLine /\ BlankLine[2] = NewLine
    BY <2>1 DEF BlankLine
  <2> QED
    BY <2>2
<1>4. content[h] = Header(n, Len(t))
  BY DEF LaidOut
<1>5. SubSeq(content, h + 1, h + 2) = BlankLine
  <2>1. \A i \in 1..Len(BlankLine) : content[h + i] = BlankLine[i]
    <3>1. \A i \in 1..2 : content[h + i] = NewLine
      BY DEF LaidOut
    <3> QED
      BY <1>3, <3>1
  <2>2. h \in Int /\ h + 2 = h + Len(BlankLine)
    BY <1>1, <1>3
  <2> HIDE DEF h
  <2> QED
    BY <1>3, <2>1, <2>2, CutOut
<1>6. SubSeq(content, h + 3, h + 2 + Len(t)) = t
  <2>1. \A i \in 1..Len(t) : content[h + 2 + i] = t[i]
    BY DEF LaidOut
  <2>2. h + 2 \in Int /\ h + 3 = (h + 2) + 1
    BY <1>1
  <2> HIDE DEF h, t
  <2> QED
    BY <1>1, <2>1, <2>2, CutOut
<1>7. ASSUME n > 1
      PROVE  SubSeq(content, h - 2, h - 1) = BlankLine
  <2>1. content[h - 1] = NewLine /\ content[h - 2] = NewLine
    <3>1. n \in 2..N
      BY <1>7
    <3> QED
      BY <3>1 DEF LaidOut
  <2>2. h - 3 \in Int /\ h - 2 = (h - 3) + 1 /\ h - 1 = (h - 3) + 2
    BY <1>1
  <2>3. \A i \in 1..Len(BlankLine) : content[(h - 3) + i] = BlankLine[i]
    BY <1>3, <2>1, <2>2
  <2>4. h - 1 = (h - 3) + Len(BlankLine)
    BY <1>3, <2>2
  <2> HIDE DEF h
  <2> QED
    BY <1>3, <2>2, <2>3, <2>4, CutOut
<1>8. n = N => Len(content) = h + 2 + Len(t)
  BY DEF LaidOut
<1> HIDE DEF h, t
<1>9. ReadableAt(h, n, N, t)
  BY <1>4, <1>5, <1>6, <1>7, <1>8 DEF ReadableAt
<1> QED
  BY <1>2, <1>9 DEF t

-----------------------------------------------------------------------------
(***************************************************************************)
(* The batches that are joined, and the stored answers.                    *)
(***************************************************************************)

\* What process hands to Join.
Batches == [range : Nat \X Nat, text : UNION {[q[1]..q[2] -> PageTexts] : q \in Nat \X Nat}]

\* A canonical answer for a range: its pages, none blank, none too long.  Of what
\* Valid asks for, only the length of the answer as JSON is missing.
Faithful(raw, r) ==
    /\ raw.html = TRUE /\ raw.defect = "none" /\ ValidRange(r)
    /\ raw.text \in [r[1]..r[2] -> PageTexts] /\ ValidTexts(raw.text)

\* The batches are answers that are stored.
Kept(v) ==
    \A i \in DOMAIN v :
        /\ v[i].range \in DOMAIN stored /\ stored[v[i].range] # Pending
        /\ stored[v[i].range].text = v[i].text

\* Ranges that share no page, and follow each other up to page P.
Partition(D, P) ==
    /\ \A r \in D : r \in Nat \X Nat /\ 1 <= r[1] /\ r[1] <= r[2] /\ r[2] <= P
    /\ \A r, q \in D, n \in 1..P : n \in r[1]..r[2] /\ n \in q[1]..q[2] => r = q
    /\ \A r \in D : r[2] # P => \E q \in D : q[1] = r[2] + 1

\* A faithful answer makes a batch.
LEMMA FaithfulBatch ==
    ASSUME NEW r \in Nat \X Nat, NEW raw, Faithful(raw, r)
    PROVE  Checked(r, raw) \in Batches /\ raw # Pending
<1>1. raw.text \in [r[1]..r[2] -> PageTexts] /\ raw.defect = "none"
  BY DEF Faithful
<1>2. [r[1]..r[2] -> PageTexts] \in {[q[1]..q[2] -> PageTexts] : q \in Nat \X Nat}
  OBVIOUS
<1>3. raw.text \in UNION {[q[1]..q[2] -> PageTexts] : q \in Nat \X Nat}
  BY <1>1, <1>2
<1> QED
  BY <1>1, <1>3 DEF Checked, Batches, Pending

\* Valid batches begin at page 1 and end at a page.
LEMMA BatchFacts ==
    ASSUME NEW v \in Seq(Batches), ValidBatches(v)
    PROVE  /\ Len(v) \in Nat \ {0} /\ DOMAIN v = 1..Len(v)
           /\ \A i \in 1..Len(v) :
                 /\ v[i] \in Batches /\ v[i].range \in Nat \X Nat
                 /\ 1 <= v[i].range[1] /\ v[i].range[1] <= v[i].range[2]
                 /\ v[i].range[1] = IF i = 1 THEN 1 ELSE v[i - 1].range[2] + 1
                 /\ DOMAIN v[i].text = v[i].range[1]..v[i].range[2]
                 /\ \A n \in DOMAIN v[i].text : v[i].text[n] \in PageTexts
           /\ End(v) \in Nat \ {0}
<1>1. v # <<>> /\ Len(v) \in Nat /\ DOMAIN v = 1..Len(v)
  BY LenProperties DEF ValidBatches
<1>2. Len(v) # 0
  BY <1>1, EmptySeq
<1>3. ASSUME NEW i \in 1..Len(v)
      PROVE  /\ v[i] \in Batches /\ v[i].range \in Nat \X Nat
             /\ 1 <= v[i].range[1] /\ v[i].range[1] <= v[i].range[2]
             /\ v[i].range[1] = IF i = 1 THEN 1 ELSE v[i - 1].range[2] + 1
             /\ DOMAIN v[i].text = v[i].range[1]..v[i].range[2]
             /\ \A n \in DOMAIN v[i].text : v[i].text[n] \in PageTexts
  <2>1. v[i] \in Batches
    BY <1>1, ElementOfSeq
  <2>2. v[i].range \in Nat \X Nat /\ \A n \in DOMAIN v[i].text : v[i].text[n] \in PageTexts
    <3>1. v[i].text \in UNION {[q[1]..q[2] -> PageTexts] : q \in Nat \X Nat} /\ v[i].range \in Nat \X Nat
      BY <2>1 DEF Batches
    <3>2. PICK q \in Nat \X Nat : v[i].text \in [q[1]..q[2] -> PageTexts]
      BY <3>1
    <3> QED
      BY <3>1, <3>2
  <2>3. /\ ValidRange(v[i].range)
        /\ v[i].range[1] = IF i = 1 THEN 1 ELSE v[i - 1].range[2] + 1
        /\ DOMAIN v[i].text = v[i].range[1]..v[i].range[2]
    BY <1>1 DEF ValidBatches
  <2>4. 1 <= v[i].range[1] /\ v[i].range[1] <= v[i].range[2]
    BY <2>2, <2>3 DEF ValidRange
  <2> QED
    BY <2>1, <2>2, <2>3, <2>4
<1>4. End(v) \in Nat \ {0}
  <2>1. Len(v) \in 1..Len(v)
    BY <1>1, <1>2
  <2>2. v[Len(v)].range \in Nat \X Nat /\ 1 <= v[Len(v)].range[1] /\ v[Len(v)].range[1] <= v[Len(v)].range[2]
    BY <1>3, <2>1
  <2> QED
    BY <2>2 DEF End
<1> QED
  BY <1>1, <1>2, <1>3, <1>4

\* Every page up to the end is in one of them: look at the first that ends at it
\* or later.
LEMMA PageInBatch ==
    ASSUME NEW v \in Seq(Batches), ValidBatches(v), NEW n \in 1..End(v)
    PROVE  \E i \in 1..Len(v) : n \in DOMAIN v[i].text
<1> DEFINE e(i) == v[i].range[2]
           T == {i \in 1..Len(v) : n <= e(i)}
<1>1. /\ Len(v) \in Nat \ {0} /\ End(v) \in Nat
      /\ \A i \in 1..Len(v) :
            /\ v[i].range[1] \in Nat /\ e(i) \in Nat
            /\ v[i].range[1] = (IF i = 1 THEN 1 ELSE e(i - 1) + 1)
            /\ DOMAIN v[i].text = v[i].range[1]..e(i)
  BY BatchFacts
<1>2. Len(v) \in T
  BY <1>1 DEF End
<1>3. PICK i \in T : \A j \in T : i <= j
  <2>1. T \subseteq Nat /\ T # {}
    BY <1>2
  <2> HIDE DEF T
  <2> QED
    BY <2>1, Least
<1> HIDE DEF e
<1>4. CASE i = 1
  BY <1>1, <1>3, <1>4
<1>5. CASE i # 1
  <2>1. i - 1 \in 1..Len(v) /\ i - 1 \notin T /\ i \in 1..Len(v)
    BY <1>1, <1>3, <1>5
  <2>2. e(i - 1) < n
    BY <1>1, <2>1
  <2>3. v[i].range[1] = e(i - 1) + 1 /\ DOMAIN v[i].text = v[i].range[1]..e(i) /\ e(i) \in Nat /\ n <= e(i)
    BY <1>1, <1>3, <1>5
  <2>4. e(i - 1) \in Nat
    BY <1>1, <2>1
  <2>5. n \in (e(i - 1) + 1)..e(i)
    BY <2>2, <2>3, <2>4
  <2> QED
    BY <2>1, <2>3, <2>5
<1> QED
  BY <1>4, <1>5

\* The page that is joined is the page of one of them.
LEMMA PageOfBatch ==
    ASSUME NEW v \in Seq(Batches), ValidBatches(v), NEW n \in 1..End(v)
    PROVE  /\ Text(v, n) \in Seq(Tokens)
           /\ \E i \in 1..Len(v) : n \in DOMAIN v[i].text /\ Text(v, n) = v[i].text[n]
<1> DEFINE B == {v[i] : i \in DOMAIN v}
           b == CHOOSE b \in B : n \in DOMAIN b.text
<1>1. \E i \in DOMAIN v : n \in DOMAIN v[i].text
  BY PageInBatch, BatchFacts
<1>2. b \in B /\ n \in DOMAIN b.text
  <2>1. \E d \in B : n \in DOMAIN d.text
    BY <1>1
  <2> HIDE DEF B
  <2> QED
    BY <2>1
<1>3. Text(v, n) = b.text[n]
  BY DEF Text
<1> HIDE DEF b
<1>4. PICK i \in 1..Len(v) : b = v[i]
  BY <1>2, BatchFacts
<1>5. b.text[n] \in PageTexts
  BY <1>2, <1>4, BatchFacts
<1> QED
  BY <1>2, <1>3, <1>4, <1>5, PagesAreTexts

\* A page to be joined is the page that is stored.
LEMMA JoinedPage ==
    ASSUME NEW v \in Seq(Batches), ValidBatches(v), Kept(v), Partition(DOMAIN stored, doc.pages),
           doc.pages \in Nat, End(v) = doc.pages, NEW n \in 1..End(v)
    PROVE  Text(v, n) = StoredText(n)
<1>1. PICK i \in 1..Len(v) : n \in DOMAIN v[i].text /\ Text(v, n) = v[i].text[n]
  BY PageOfBatch
<1> DEFINE q == v[i].range
           r == CHOOSE r \in DOMAIN stored : n \in r[1]..r[2]
<1>2. n \in q[1]..q[2] /\ q \in DOMAIN stored /\ stored[q].text = v[i].text
  BY <1>1, BatchFacts DEF Kept
<1> HIDE DEF q
<1>3. r \in DOMAIN stored /\ n \in r[1]..r[2]
  BY <1>2
<1>4. StoredText(n) = stored[r].text[n]
  BY DEF StoredText
<1> HIDE DEF r
<1>5. r = q
  BY <1>2, <1>3 DEF Partition
<1> QED
  BY <1>1, <1>2, <1>4, <1>5

\* A content that joins stored answers up to the last page can be read.
LEMMA JoinedReadable ==
    ASSUME NEW v \in Seq(Batches), ValidBatches(v), Kept(v), Partition(DOMAIN stored, doc.pages),
           doc.pages \in Nat, End(v) = doc.pages, content = Join(v)
    PROVE  JoinReadable
<1> DEFINE N == doc.pages
           pages == [n \in 1..N |-> Text(v, n)]
<1>1. N \in Nat \ {0}
  BY BatchFacts
<1>2. \A n \in 1..N : Text(v, n) = StoredText(n) /\ Text(v, n) \in Seq(Tokens)
  BY JoinedPage, PageOfBatch
<1>3. PICK pos : LaidOut(content, N, pages, pos)
  BY <1>1, <1>2, JoinLaysOut
<1>4. \A n \in 1..N : pages[n] = StoredText(n) /\ pages[n] \in Seq(Tokens)
  BY <1>2
<1> HIDE DEF pages, N
<1>5. \A n \in 1..N : ReadableAt(HeaderAt(n), n, N, pages[n])
  BY <1>1, <1>3, <1>4, LaidOutReadable
<1>6. \A n \in 1..N : ReadableAt(HeaderAt(n), n, N, StoredText(n))
  BY <1>4, <1>5
<1> QED
  BY <1>6 DEF JoinReadable, ReadableAt, N

\* A batch ends before a later one begins.
LEMMA BatchesGrow ==
    ASSUME NEW v \in Seq(Batches), ValidBatches(v), NEW i \in 1..Len(v), NEW j \in 1..Len(v), i < j
    PROVE  v[i].range[2] < v[j].range[1]
<1> DEFINE b(k) == v[k].range[1]
           e(k) == v[k].range[2]
           N == Len(v)
           S == {k \in 0..N : i < k => e(i) < b(k)}
<1>1. N \in Nat /\ \A k \in 1..N : b(k) \in Nat /\ e(k) \in Nat /\ b(k) <= e(k) /\ (k # 1 => b(k) = e(k - 1) + 1)
  BY BatchFacts
<1> HIDE DEF b, e, N
<1>2. 0 \in S
  BY <1>1 DEF N
<1>3. ASSUME NEW k \in 0..(N - 1), k \in S
      PROVE  k + 1 \in S
  <2>1. CASE i < k + 1
    <3>1. k \in 1..N /\ k + 1 \in 1..N /\ k + 1 # 1 /\ (k + 1) - 1 = k /\ i \in 1..N
      BY <1>1, <2>1 DEF N
    <3>2. b(k + 1) = e((k + 1) - 1) + 1
      BY <1>1, <3>1
    <3>3. e(k) \in Nat /\ b(k) \in Nat /\ b(k) <= e(k) /\ e(i) \in Nat /\ b(k + 1) = e(k) + 1
      BY <1>1, <3>1, <3>2
    <3>4. i = k \/ e(i) < b(k)
      BY <1>3, <2>1, <3>1
    <3>5. e(i) < b(k + 1)
      BY <3>3, <3>4
    <3> QED
      BY <1>1, <3>5
  <2>2. CASE ~(i < k + 1)
    BY <1>1, <2>2
  <2> QED
    BY <2>1, <2>2
<1> HIDE DEF S
<1>4. 0..N \subseteq S
  BY <1>1, <1>2, <1>3, UpToN
<1>5. j \in S
  BY <1>1, <1>4 DEF N
<1> QED
  BY <1>5 DEF S, b, e

\* As many valid batches as there are ranges: every range is one of them.
LEMMA EveryRangeTaken ==
    ASSUME NEW v \in Seq(Batches), ValidBatches(v), NEW D, IsFiniteSet(D), Len(v) = Cardinality(D),
           \A i \in 1..Len(v) : v[i].range \in D, NEW r \in D
    PROVE  \E i \in 1..Len(v) : v[i].range = r
<1> DEFINE N == Len(v)
           f == [i \in 1..N |-> v[i].range]
<1>1. N \in Nat \ {0} /\ \A i \in 1..N : v[i].range[1] \in Nat /\ v[i].range[2] \in Nat /\ v[i].range[1] <= v[i].range[2]
  BY BatchFacts
<1>2. ASSUME NEW i \in 1..N, NEW j \in 1..N, f[i] = f[j]
      PROVE  i = j
  <2>1. CASE i < j
    BY <1>1, <1>2, <2>1, BatchesGrow
  <2>2. CASE j < i
    BY <1>1, <1>2, <2>2, BatchesGrow
  <2> QED
    BY <1>1, <2>1, <2>2
<1>3. f \in [1..N -> D]
  OBVIOUS
<1> HIDE DEF f
<1>4. f \in Injection(1..N, D)
  BY <1>2, <1>3 DEF Injection, IsInjective
<1>5. Cardinality(1..N) = Cardinality(D)
  <2>1. 1 \in Int /\ N \in Int /\ ~(1 > N)
    BY <1>1
  <2>2. Cardinality(1..N) = N - 1 + 1
    BY <2>1, FS_Interval
  <2> QED
    BY <1>1, <2>2
<1>6. f \in Surjection(1..N, D)
  BY <1>4, <1>5, FS_Injection
<1>7. \E i \in 1..N : f[i] = r
  BY <1>6 DEF Surjection
<1> QED
  BY <1>7 DEF f

-----------------------------------------------------------------------------
(***************************************************************************)
(* The plans, and a reconstruction from them.                              *)
(***************************************************************************)

\* The ranges of planRanges begin at multiples of the batch size.
LEMMA FirstPages ==
    ASSUME NEW B \in Nat \ {0}
    PROVE  /\ \A f \in Nat \ {0} : (f - 1) % B = 0 => \E k \in Nat : f = k * B + 1
           /\ \A k \in Nat : ((k * B + 1) - 1) % B = 0
           /\ \A k \in Nat : (k + 1) * B = k * B + B /\ k * B \in Nat
           /\ \A j, k \in Nat : j < k => j * B + B <= k * B
<1>1. ASSUME NEW f \in Nat \ {0}, (f - 1) % B = 0
      PROVE  \E k \in Nat : f = k * B + 1
  BY <1>1
<1>2. ASSUME NEW k \in Nat
      PROVE  ((k * B + 1) - 1) % B = 0 /\ (k + 1) * B = k * B + B /\ k * B \in Nat
  <2>1. k * B \in Nat /\ (k * B) % B = 0
    OBVIOUS
  <2>2. (k * B + 1) - 1 = k * B
    BY <2>1
  <2>3. (k + 1) * B = k * B + B
    OBVIOUS
  <2> QED
    BY <2>1, <2>2, <2>3
<1>3. ASSUME NEW j \in Nat, NEW k \in Nat, j < k
      PROVE  j * B + B <= k * B
  BY <1>3
<1> QED
  BY <1>1, <1>2, <1>3

\* The plan for page images covers the document without overlap.
LEMMA ImagesPartition ==
    ASSUME doc.pages \in Nat
    PROVE  Partition(ImageRanges, doc.pages)
<1> DEFINE P == doc.pages
           B == BatchSize
           R(k) == <<k * B + 1, Lesser(k * B + 1 + B - 1, P)>>
<1>0. P \in Nat /\ B \in Nat \ {0}
  BY TranscriptionAssumption
<1>1. ASSUME NEW r \in ImageRanges
      PROVE  \E k \in Nat : k * B + 1 <= P /\ r = R(k)
  <2>1. PICK f \in {n \in 1..P : (n - 1) % B = 0} : r = <<f, Lesser(f + B - 1, P)>>
    BY DEF ImageRanges
  <2>2. f \in Nat \ {0} /\ f <= P /\ (f - 1) % B = 0
    BY <1>0
  <2>3. PICK k \in Nat : f = k * B + 1
    BY <1>0, <2>2, FirstPages
  <2> QED
    BY <2>1, <2>2, <2>3
<1>2. ASSUME NEW k \in Nat, k * B + 1 <= P
      PROVE  R(k) \in ImageRanges
  <2>1. k * B \in Nat /\ ((k * B + 1) - 1) % B = 0
    BY <1>0, FirstPages
  <2>2. k * B + 1 \in {n \in 1..P : (n - 1) % B = 0}
    BY <1>0, <1>2, <2>1
  <2> QED
    BY <2>2 DEF ImageRanges
<1>3. ASSUME NEW k \in Nat, k * B + 1 <= P
      PROVE  /\ R(k) \in Nat \X Nat /\ R(k)[1] = k * B + 1
             /\ R(k)[2] = IF k * B + B <= P THEN k * B + B ELSE P
             /\ k * B \in Nat
  <2>1. k * B \in Nat
    BY <1>0, FirstPages
  <2> DEFINE m == k * B
  <2> HIDE DEF m, P, B
  <2>2. /\ <<m + 1, Lesser(m + 1 + B - 1, P)>> \in Nat \X Nat
        /\ Lesser(m + 1 + B - 1, P) = IF m + B <= P THEN m + B ELSE P
    BY <1>0, <2>1 DEF Lesser, m
  <2> QED
    BY <2>1, <2>2 DEF m
<1> HIDE DEF P, B, R
<1>4. ASSUME NEW r \in ImageRanges
      PROVE  r \in Nat \X Nat /\ 1 <= r[1] /\ r[1] <= r[2] /\ r[2] <= P
  <2>1. PICK k \in Nat : k * B + 1 <= P /\ r = R(k)
    BY <1>1
  <2> DEFINE m == k * B
  <2>2. m + 1 <= P /\ m \in Nat /\ r \in Nat \X Nat /\ r[1] = m + 1 /\ r[2] = IF m + B <= P THEN m + B ELSE P
    BY <1>3, <2>1
  <2> HIDE DEF m
  <2> QED
    BY <1>0, <2>2
<1>5. ASSUME NEW r \in ImageRanges, NEW q \in ImageRanges, NEW n \in 1..P,
             n \in r[1]..r[2], n \in q[1]..q[2]
      PROVE  r = q
  <2>1. PICK k \in Nat : k * B + 1 <= P /\ r = R(k)
    BY <1>1
  <2>2. PICK j \in Nat : j * B + 1 <= P /\ q = R(j)
    BY <1>1
  <2>3. (j < k => j * B + B <= k * B) /\ (k < j => k * B + B <= j * B)
    BY <1>0, FirstPages
  <2> DEFINE m == k * B
             l == j * B
  <2>4. /\ m \in Nat /\ r[1] = m + 1 /\ r[2] = IF m + B <= P THEN m + B ELSE P
        /\ l \in Nat /\ q[1] = l + 1 /\ q[2] = IF l + B <= P THEN l + B ELSE P
        /\ (j < k => l + B <= m) /\ (k < j => m + B <= l)
    BY <1>3, <2>1, <2>2, <2>3
  <2> HIDE DEF m, l
  <2>5. ~(j < k) /\ ~(k < j)
    BY <1>0, <1>5, <2>4
  <2>6. j = k
    BY <2>5
  <2> QED
    BY <2>1, <2>2, <2>6
<1>6. ASSUME NEW r \in ImageRanges, r[2] # P
      PROVE  \E q \in ImageRanges : q[1] = r[2] + 1
  <2>1. PICK k \in Nat : k * B + 1 <= P /\ r = R(k)
    BY <1>1
  <2>2. r[2] = IF k * B + B <= P THEN k * B + B ELSE P
    BY <1>3, <2>1
  <2>3. (k + 1) * B = k * B + B /\ k * B \in Nat /\ k + 1 \in Nat
    BY <1>0, FirstPages
  <2> DEFINE m == k * B
             l == (k + 1) * B
  <2>4. m \in Nat /\ l = m + B /\ r[2] = IF m + B <= P THEN m + B ELSE P
    BY <2>2, <2>3
  <2> HIDE DEF m, l
  <2>5. l + 1 <= P /\ r[2] = l
    BY <1>0, <1>6, <2>4
  <2>6. R(k + 1) \in ImageRanges /\ R(k + 1)[1] = l + 1
    BY <1>2, <1>3, <2>3, <2>5 DEF l
  <2> QED
    BY <2>5, <2>6
<1> QED
  BY <1>4, <1>5, <1>6 DEF Partition, P

\* So does the one range of a PDF.
LEMMA DirectPartition ==
    ASSUME doc.pages \in Nat \ {0}
    PROVE  Partition({DirectRange}, doc.pages)
  BY DEF Partition, DirectRange

\* Ranges of a plan can be put in order, counted by their first pages.
LEMMA PlanInOrder ==
    ASSUME NEW D, NEW P \in Nat, Partition(D, P)
    PROVE  /\ IsFiniteSet(D) /\ Cardinality(D) \in Nat
           /\ \E s \in [1..Cardinality(D) -> D] : \A i, j \in DOMAIN s : i < j => s[i][1] < s[j][1]
<1> DEFINE To(k) == {r \in D : r[1] <= k}
           Ordered(E, s) == s \in [1..Cardinality(E) -> E]
                            /\ \A i, j \in 1..Cardinality(E) : i < j => s[i][1] < s[j][1]
           S == {k \in 0..P : IsFiniteSet(To(k)) /\ \E s : Ordered(To(k), s)}
<1>0. \A r \in D : r[1] \in 1..P /\ r[2] \in Nat /\ r[1] <= r[2]
  BY DEF Partition
<1>1. 0 \in S
  <2>1. To(0) = {}
    BY <1>0
  <2>2. IsFiniteSet({}) /\ Cardinality({}) = 0
    BY FS_EmptySet
  <2>3. <<>> \in [1..0 -> {}]
    OBVIOUS
  <2>4. Ordered({}, <<>>)
    BY <2>2, <2>3
  <2> HIDE DEF Ordered, To
  <2> QED
    BY <2>1, <2>2, <2>4
<1>2. ASSUME NEW k \in 0..(P - 1), k \in S
      PROVE  k + 1 \in S
  <2>0. k + 1 \in 0..P
    OBVIOUS
  <2>1. IsFiniteSet(To(k)) /\ \E s : Ordered(To(k), s)
    BY <1>2
  <2>2. PICK s : Ordered(To(k), s)
    BY <2>1
  <2>3. CASE \A r \in D : r[1] # k + 1
    <3>1. To(k + 1) = To(k)
      BY <1>0, <2>3
    <3> HIDE DEF To, Ordered
    <3> QED
      BY <2>0, <2>1, <3>1
  <2>4. CASE \E r \in D : r[1] = k + 1
    <3>1. PICK r \in D : r[1] = k + 1
      BY <2>4
    <3>2. \A q \in D : q[1] = k + 1 => q = r
      <4>1. ASSUME NEW q \in D, q[1] = k + 1
            PROVE  q = r
        <5>1. k + 1 \in 1..P /\ k + 1 \in r[1]..r[2] /\ k + 1 \in q[1]..q[2]
          BY <1>0, <3>1, <4>1
        <5> QED
          BY <5>1 DEF Partition
      <4> QED
        BY <4>1
    <3>3. To(k + 1) = To(k) \cup {r} /\ r \notin To(k)
      BY <1>0, <3>1, <3>2
    <3> DEFINE c == Cardinality(To(k))
               g == [i \in 1..(c + 1) |-> IF i = c + 1 THEN r ELSE s[i]]
    <3>4. c \in Nat
      BY <2>1, FS_CardinalityType
    <3>5. IsFiniteSet(To(k + 1)) /\ Cardinality(To(k + 1)) = c + 1
      <4> DEFINE E == To(k)
                 F == To(k + 1)
      <4>1. IsFiniteSet(E) /\ F = E \cup {r} /\ r \notin E
        BY <2>1, <3>3
      <4> HIDE DEF E, F
      <4>2. IsFiniteSet(F) /\ Cardinality(F) = Cardinality(E) + 1
        BY <4>1, FS_AddElement
      <4> QED
        BY <4>2 DEF E, F
    <3>6. s \in [1..c -> To(k)] /\ \A i, j \in 1..c : i < j => s[i][1] < s[j][1]
      BY <2>2
    <3> HIDE DEF c
    <3>7. \A i \in 1..c : s[i] \in D /\ s[i][1] < k + 1
      BY <1>0, <3>6
    <3> HIDE DEF To
    <3>8. g \in [1..(c + 1) -> To(k + 1)]
      BY <3>3, <3>4, <3>6
    <3>9. \A i, j \in 1..(c + 1) : i < j => g[i][1] < g[j][1]
      <4> SUFFICES ASSUME NEW i \in 1..(c + 1), NEW j \in 1..(c + 1), i < j
                   PROVE  g[i][1] < g[j][1]
        OBVIOUS
      <4>1. CASE j = c + 1
        BY <3>1, <3>4, <3>7, <4>1
      <4>2. CASE j # c + 1
        BY <3>4, <3>6, <4>2
      <4> QED
        BY <4>1, <4>2
    <3> HIDE DEF g
    <3>10. Ordered(To(k + 1), g)
      BY <3>5, <3>8, <3>9
    <3> QED
      BY <2>0, <3>5, <3>10
  <2> QED
    BY <2>3, <2>4
<1>3. To(P) = D
  BY <1>0
<1>4. P \in S
  <2> HIDE DEF S
  <2>1. 0..P \subseteq S
    BY <1>1, <1>2, UpToN
  <2> QED
    BY <2>1
<1>5. IsFiniteSet(D) /\ \E s : Ordered(D, s)
  <2> HIDE DEF To, Ordered
  <2> QED
    BY <1>3, <1>4
<1>6. Cardinality(D) \in Nat
  BY <1>5, FS_CardinalityType
<1> QED
  BY <1>5, <1>6

\* What a reconstruction joins are the stored answers, up to the last page.
LEMMA ReconstructsAll ==
    ASSUME doc.pages \in Nat, Partition(DOMAIN stored, doc.pages),
           \A r \in DOMAIN stored : Valid(stored[r], r),
           \A r \in DOMAIN stored : stored[r] = Pending \/ Faithful(stored[r], r),
           ValidBatches(Reconstructed)
    PROVE  Reconstructed \in Seq(Batches) /\ Kept(Reconstructed) /\ End(Reconstructed) = doc.pages
<1> DEFINE D == DOMAIN stored
           C == Cardinality(D)
           v == Reconstructed
<1>1. IsFiniteSet(D) /\ C \in Nat
      /\ \E s \in [1..C -> D] : \A i, j \in DOMAIN s : i < j => s[i][1] < s[j][1]
  <2> HIDE DEF D
  <2>1. Partition(D, doc.pages)
    BY DEF D
  <2> QED
    BY <2>1, PlanInOrder
<1>2. InOrder \in [1..C -> D]
  BY <1>1, Zenon DEF InOrder
<1>3. v = [i \in 1..C |-> Checked(InOrder[i], stored[InOrder[i]])]
  BY <1>2 DEF Reconstructed
<1>4. ASSUME NEW i \in 1..C
      PROVE  /\ v[i] \in Batches /\ v[i].range \in D /\ stored[v[i].range] # Pending
             /\ stored[v[i].range].text = v[i].text
  <2> DEFINE r == InOrder[i]
  <2>1. r \in D /\ v[i] = Checked(r, stored[r])
    BY <1>2, <1>3
  <2> HIDE DEF r
  <2>2. v[i].range = r /\ v[i].text = stored[r].text
    BY <2>1 DEF Checked
  <2>3. stored[r] # Pending
    BY <2>1 DEF Valid, Pending
  <2>4. r \in Nat \X Nat /\ Faithful(stored[r], r)
    BY <2>1, <2>3 DEF Partition
  <2>5. v[i] \in Batches
    BY <2>1, <2>4, FaithfulBatch
  <2> QED
    BY <2>1, <2>2, <2>3, <2>5
<1> HIDE DEF v
<1>5. v \in Seq(Batches) /\ Len(v) = C /\ DOMAIN v = 1..C
  <2>1. v = [i \in 1..C |-> v[i]]
    BY <1>3
  <2>2. v \in Seq(Batches)
    BY <1>1, <1>4, <2>1, IsASeq
  <2>3. DOMAIN v = 1..C /\ DOMAIN v = 1..Len(v) /\ Len(v) \in Nat
    BY <2>1, <2>2, LenProperties
  <2>4. Len(v) = C
    BY <1>1, <2>3
  <2> QED
    BY <2>2, <2>3, <2>4
<1>6. Kept(v)
  BY <1>4, <1>5 DEF Kept
<1>7. ValidBatches(v)
  BY DEF v
<1>8. End(v) = doc.pages
  <2> SUFFICES ASSUME End(v) # doc.pages PROVE FALSE
    OBVIOUS
  <2>1. C \in 1..C /\ C \in Nat
    <3>1. Len(v) \in Nat \ {0}
      BY <1>5, <1>7, BatchFacts
    <3> QED
      BY <1>5, <3>1
  <2> DEFINE last == v[C].range
  <2>2. last \in D /\ last[2] # doc.pages
    BY <1>4, <1>5, <2>1 DEF End
  <2> HIDE DEF D
  <2>3. PICK q \in D : q[1] = last[2] + 1
    BY <2>2 DEF Partition, D
  <2>4. PICK i \in 1..C : v[i].range = q
    <3>1. \A k \in 1..Len(v) : v[k].range \in D
      BY <1>4, <1>5
    <3> QED
      BY <1>1, <1>5, <1>7, <3>1, EveryRangeTaken
  <2>5. /\ last[1] \in Nat /\ last[2] \in Nat /\ last[1] <= last[2]
        /\ q[1] \in Nat /\ q[2] \in Nat /\ q[1] <= q[2]
    BY <1>5, <1>7, <2>1, <2>4, BatchFacts
  <2>6. CASE i = C
    BY <2>3, <2>4, <2>5, <2>6
  <2>7. CASE i # C
    <3>1. i < C
      BY <2>1, <2>7
    <3>2. q[2] < last[1]
      BY <1>5, <1>7, <2>1, <2>4, <3>1, BatchesGrow
    <3> QED
      BY <2>3, <2>5, <3>2
  <2> QED
    BY <2>6, <2>7
<1> QED
  BY <1>5, <1>6, <1>8 DEF v

-----------------------------------------------------------------------------
(***************************************************************************)
(* The run of process.                                                     *)
(***************************************************************************)

\* Where process holds a range.
Asking == {"request", "wait", "store", "checkpoint"}

\* The loop of transcribe counts; a checkpoint holds a canonical answer or none.
AnswersKept ==
    /\ step = "wait" => attempt < ModelAttempts
    /\ DOMAIN stored \subseteq Nat \X Nat /\ stored = [r \in DOMAIN stored |-> stored[r]]
    /\ \A r \in DOMAIN stored : stored[r] = Pending \/ Faithful(stored[r], r)
    /\ step \in {"store", "checkpoint"} => Faithful(reply, range)

\* The batches to be joined follow each other from page 1, and the range asked for
\* is the next one.
BatchesFollow ==
    /\ validated \in Seq(Batches)
    /\ validated # <<>> => ValidBatches(validated)
    /\ step \in Asking => range[1] = NextPage
    /\ step \in Asking /\ direct => validated = <<>>
    /\ step = "plan" => validated = <<>>

\* The inductive invariant of the transcription.
TranscriptionInv == TranscriptionTypeOK /\ AnswersKept /\ BatchesFollow

\* No page is read before a document is claimed.
LEMMA TranscriptionInitially == TranscriptionInit => TranscriptionInv
<1> SUFFICES ASSUME TranscriptionInit PROVE TranscriptionInv
  OBVIOUS
<1>1. TranscriptionTypeOK
  <2>1. attempt \in 1..ModelAttempts /\ runs \in 0..MaxRuns /\ range \in Nat \X Nat
    BY TranscriptionAssumption DEF TranscriptionInit, NoRange
  <2> QED
    BY <2>1 DEF TranscriptionInit, TranscriptionTypeOK
<1>2. AnswersKept
  BY DEF TranscriptionInit, AnswersKept
<1>3. BatchesFollow
  BY EmptySeq DEF TranscriptionInit, BatchesFollow, Asking
<1> QED
  BY <1>1, <1>2, <1>3 DEF TranscriptionInv

\* Planned ranges are pairs of page numbers.
LEMMA PlannedRanges ==
    ASSUME TranscriptionTypeOK, NEW r \in ImageRanges \cup {DirectRange}
    PROVE  r \in Nat \X Nat
<1>1. doc.pages \in Nat
  BY TranscriptionAssumption DEF TranscriptionTypeOK
<1>2. QED
  BY <1>1, TranscriptionAssumption DEF ImageRanges, DirectRange, Lesser

\* A batch that begins at the next page keeps the order.
LEMMA BatchAppended ==
    ASSUME validated \in Seq(Batches), validated # <<>> => ValidBatches(validated),
           NEW r \in Nat \X Nat, NEW raw, Faithful(raw, r), r[1] = NextPage
    PROVE  /\ Append(validated, Checked(r, raw)) \in Seq(Batches)
           /\ ValidBatches(Append(validated, Checked(r, raw)))
<1> DEFINE b == Checked(r, raw)
           v == Append(validated, b)
<1>1. b \in Batches /\ b.range = r /\ b.text = raw.text
  BY FaithfulBatch DEF Checked
<1>2. Len(validated) \in Nat /\ DOMAIN validated = 1..Len(validated)
  BY LenProperties
<1> HIDE DEF b
<1>3. /\ v \in Seq(Batches) /\ Len(v) = Len(validated) + 1
      /\ \A i \in 1..Len(validated) : v[i] = validated[i]
      /\ v[Len(validated) + 1] = b
  BY <1>1, AppendProperties
<1>4. DOMAIN v = 1..(Len(validated) + 1) /\ v # <<>>
  BY <1>2, <1>3, LenProperties, EmptySeq
<1> HIDE DEF v
<1>5. ASSUME NEW i \in 1..Len(validated)
      PROVE  /\ ValidRange(v[i].range)
             /\ v[i].range[1] = IF i = 1 THEN 1 ELSE v[i - 1].range[2] + 1
             /\ DOMAIN v[i].text = v[i].range[1]..v[i].range[2]
             /\ ValidTexts(v[i].text)
  <2>1. ValidBatches(validated)
    BY <1>2, EmptySeq
  <2>2. /\ ValidRange(validated[i].range)
        /\ validated[i].range[1] = IF i = 1 THEN 1 ELSE validated[i - 1].range[2] + 1
        /\ DOMAIN validated[i].text = validated[i].range[1]..validated[i].range[2]
        /\ ValidTexts(validated[i].text)
    BY <1>2, <2>1 DEF ValidBatches
  <2>3. v[i] = validated[i] /\ (i # 1 => v[i - 1] = validated[i - 1])
    BY <1>2, <1>3
  <2>4. QED
    BY <2>2, <2>3
<1>6. ASSUME NEW i, i = Len(validated) + 1
      PROVE  /\ ValidRange(v[i].range)
             /\ v[i].range[1] = IF i = 1 THEN 1 ELSE v[i - 1].range[2] + 1
             /\ DOMAIN v[i].text = v[i].range[1]..v[i].range[2]
             /\ ValidTexts(v[i].text)
  <2>1. v[i].range = r /\ v[i].text = raw.text
    BY <1>1, <1>3, <1>6
  <2>2. r[1] = IF i = 1 THEN 1 ELSE v[i - 1].range[2] + 1
    <3>1. CASE validated = <<>>
      BY <1>2, <1>6, <3>1 DEF NextPage
    <3>2. CASE validated # <<>>
      <4>1. Len(validated) # 0
        BY <3>2, EmptySeq
      <4>2. i # 1 /\ i - 1 = Len(validated) /\ i - 1 \in 1..Len(validated)
        BY <1>2, <1>6, <4>1
      <4>3. r[1] = validated[Len(validated)].range[2] + 1
        BY <3>2 DEF NextPage
      <4>4. v[i - 1] = validated[Len(validated)]
        BY <1>3, <4>2
      <4>5. QED
        BY <4>2, <4>3, <4>4
    <3>3. QED
      BY <3>1, <3>2
  <2>3. ValidRange(r) /\ DOMAIN raw.text = r[1]..r[2] /\ ValidTexts(raw.text)
    BY DEF Faithful
  <2>4. QED
    BY <2>1, <2>2, <2>3
<1>7. ValidBatches(v)
  <2>1. \A i \in DOMAIN v : i \in 1..Len(validated) \/ i = Len(validated) + 1
    BY <1>2, <1>4
  <2>2. QED
    BY <1>4, <1>5, <1>6, <2>1 DEF ValidBatches
<1>8. QED
  BY <1>3, <1>7 DEF b, v

\* Every step of process keeps the types.
LEMMA TranscriptionTypesNext ==
    ASSUME TranscriptionInv, [TranscriptionNext]_trVars
    PROVE  TranscriptionTypeOK'
<1> DEFINE Steps == {"claimed", "plan", "batch", "request", "wait", "store", "checkpoint",
                     "reconstruct", "done", "failed", "unsettled"}
           Counts == range \in Nat \X Nat /\ attempt \in 1..ModelAttempts /\ runs \in 0..MaxRuns
           Flags == /\ doc \in [pages : PageCounts, direct : BOOLEAN] /\ direct \in BOOLEAN
                    /\ step \in Steps
<1>0. Counts /\ Flags
  BY DEF TranscriptionInv, TranscriptionTypeOK
<1>1. ASSUME BeginRun
      PROVE  (Counts /\ Flags)'
  <2>1. Counts'
    BY <1>0, <1>1, PlannedRanges, TranscriptionAssumption
       DEF BeginRun, Ask, requestVars, TranscriptionInv
  <2>2. Flags'
    BY <1>0, <1>1 DEF BeginRun, Ask, requestVars
  <2> QED
    BY <2>1, <2>2
<1>2. ASSUME Plan \/ StoreDirectPlan
      PROVE  (Counts /\ Flags)'
  <2>1. Counts'
    BY <1>0, <1>2 DEF Plan, StoreDirectPlan, requestVars
  <2>2. Flags'
    BY <1>0, <1>2 DEF Plan, StoreDirectPlan, EnsurePlanned, requestVars
  <2> QED
    BY <2>1, <2>2
<1>3. ASSUME NextBatch
      PROVE  (Counts /\ Flags)'
  <2>1. PICK r \in DOMAIN stored :
           \/ Ask(r, FALSE)
           \/ step' \in {"batch", "failed"} /\ UNCHANGED requestVars
    BY <1>3 DEF NextBatch
  <2>2. UNCHANGED <<doc, runs>> /\ r \in Nat \X Nat
    BY <1>3 DEF NextBatch, TranscriptionInv, AnswersKept
  <2>3. Counts'
    BY <1>0, <2>1, <2>2, TranscriptionAssumption DEF Ask, requestVars
  <2>4. Flags'
    BY <1>0, <2>1, <2>2 DEF Ask, requestVars
  <2> QED
    BY <2>3, <2>4
<1>4. ASSUME \/ JoinAll \/ ModelAnswers \/ Unsupported \/ Busy \/ ProviderTimeout \/ Rejected
             \/ Checkpoint \/ Reconstruct
      PROVE  (Counts /\ Flags)'
  <2>1. UNCHANGED <<doc, direct, range, attempt, runs>>
    BY <1>4 DEF JoinAll, ModelAnswers, Unsupported, Busy, ProviderTimeout, Rejected, Checkpoint,
       Reconstruct, requestVars, requestDone
  <2>2. step' \in Steps
    BY <1>4 DEF JoinAll, ModelAnswers, Unsupported, Busy, ProviderTimeout, Rejected, Checkpoint,
       Reconstruct, JoinAndEnd, AfterUnsupported, AfterRetryable, AfterTimeout
  <2>3. Counts'
    BY <1>0, <2>1
  <2>4. Flags'
    BY <1>0, <2>1, <2>2
  <2> QED
    BY <2>3, <2>4
<1>5. ASSUME WaitEnds
      PROVE  (Counts /\ Flags)'
  <2>1. attempt < ModelAttempts /\ attempt' = attempt + 1 /\ UNCHANGED <<range, runs>>
    BY <1>5 DEF WaitEnds, FollowingAttempt, TranscriptionInv, AnswersKept, requestDone
  <2>2. Counts'
    BY <1>0, <2>1, TranscriptionAssumption
  <2>3. Flags'
    BY <1>0, <1>5 DEF WaitEnds, requestDone
  <2> QED
    BY <2>2, <2>3
<1>6. ASSUME Interrupt
      PROVE  (Counts /\ Flags)'
  <2>1. Counts'
    BY <1>0, <1>6, TranscriptionAssumption DEF Interrupt, requestVars
  <2>2. Flags'
    BY <1>0, <1>6 DEF Interrupt, requestVars
  <2> QED
    BY <2>1, <2>2
<1>7. ASSUME UNCHANGED trVars
      PROVE  (Counts /\ Flags)'
  <2>1. UNCHANGED <<doc, step, direct, range, attempt, runs>>
    BY <1>7 DEF trVars
  <2>2. Counts'
    BY <1>0, <2>1
  <2>3. Flags'
    BY <1>0, <2>1
  <2> QED
    BY <2>2, <2>3
<1>8. (Counts /\ Flags)'
  BY <1>1, <1>2, <1>3, <1>4, <1>5, <1>6, <1>7 DEF TranscriptionNext, TranscriptionStep
<1> QED
  BY <1>8 DEF TranscriptionTypeOK

\* Every step keeps the stored answers canonical, and counts attempts.
LEMMA AnswersKeptNext ==
    ASSUME TranscriptionInv, [TranscriptionNext]_trVars
    PROVE  AnswersKept'
<1> USE DEF TranscriptionInv
<1>0. ASSUME stored' = stored, step' \notin {"wait", "store", "checkpoint"}
      PROVE  AnswersKept'
  BY <1>0 DEF AnswersKept
<1>1. CASE BeginRun
  BY <1>0, <1>1 DEF BeginRun, Ask
<1>2. CASE Plan
  <2>1. CASE stored' = stored
    BY <1>0, <1>2, <2>1 DEF Plan, EnsurePlanned
  <2>2. CASE stored' = [r \in ImageRanges |-> Pending]
    <3>1. DOMAIN stored' \subseteq Nat \X Nat
      BY <2>2, PlannedRanges
    <3>2. \A r \in DOMAIN stored' : stored'[r] = Pending
      BY <2>2
    <3>3. step' \notin {"wait", "store", "checkpoint"}
      BY <1>2 DEF Plan, EnsurePlanned
    <3> QED
      BY <2>2, <3>1, <3>2, <3>3 DEF AnswersKept
  <2> QED
    BY <1>2, <2>1, <2>2 DEF Plan, EnsurePlanned
<1>3. CASE NextBatch
  <2>1. stored' = stored /\ step' \in {"batch", "failed", "request"}
    BY <1>3 DEF NextBatch, Ask
  <2> QED
    BY <1>0, <2>1
<1>4. CASE JoinAll \/ Reconstruct
  BY <1>0, <1>4 DEF JoinAll, Reconstruct, JoinAndEnd
<1>5. CASE ModelAnswers
  <2>1. stored' = stored /\ range' = range
    BY <1>5 DEF ModelAnswers, requestDone
  <2>2. PICK defect \in Defects \cup {"none"}, text \in [range[1]..range[2] -> PageTexts] :
           LET raw == [text |-> text, html |-> FALSE, defect |-> defect] IN
           IF CompletedOutput(raw) /\ Valid(raw, range)
           THEN reply' = Canonical(raw) /\ step' = "store"
           ELSE step' = "failed" /\ UNCHANGED reply
    BY <1>5 DEF ModelAnswers
  <2>3. CASE step' = "failed"
    BY <1>0, <2>1, <2>3
  <2>4. CASE step' # "failed"
    <3>1. /\ Valid([text |-> text, html |-> FALSE, defect |-> defect], range)
          /\ reply' = [text |-> text, html |-> TRUE, defect |-> "none"] /\ step' = "store"
      BY <2>2, <2>4 DEF Canonical
    <3>2. ValidRange(range) /\ ValidTexts(text)
      BY <3>1 DEF Valid
    <3>3. reply'.html = TRUE /\ reply'.defect = "none" /\ reply'.text = text
      BY <3>1
    <3>4. Faithful(reply, range)'
      <4>1. ValidRange(range)' /\ ValidTexts(reply'.text) /\ reply'.text \in [range'[1]..range'[2] -> PageTexts]
        BY <2>1, <3>2, <3>3 DEF ValidRange
      <4> QED
        BY <3>3, <4>1 DEF Faithful
    <3> QED
      BY <2>1, <3>1, <3>4 DEF AnswersKept
  <2> QED
    BY <2>3, <2>4
<1>6. CASE Unsupported \/ Rejected
  BY <1>0, <1>6 DEF Unsupported, Rejected, AfterUnsupported, requestDone
<1>7. CASE Busy \/ ProviderTimeout
  <2>1. UNCHANGED <<stored, attempt>>
    BY <1>7 DEF Busy, ProviderTimeout, requestDone, requestVars
  <2>2. step' \in {"plan", "failed"} \/ (step' = "wait" /\ attempt < ModelAttempts)
    BY <1>7 DEF Busy, ProviderTimeout, AfterRetryable, AfterTimeout
  <2>3. CASE step' \in {"plan", "failed"}
    BY <1>0, <2>1, <2>3
  <2>4. CASE step' = "wait" /\ attempt < ModelAttempts
    BY <2>1, <2>4 DEF AnswersKept
  <2> QED
    BY <2>2, <2>3, <2>4
<1>8. CASE WaitEnds
  BY <1>0, <1>8 DEF WaitEnds, requestDone
<1>9. CASE StoreDirectPlan
  <2>1. Faithful(reply, range)' /\ step' \in {"checkpoint", "failed"} /\ range \in Nat \X Nat
    BY <1>9 DEF StoreDirectPlan, EnsurePlanned, requestVars, AnswersKept, Faithful,
       TranscriptionTypeOK
  <2>2. CASE stored' = stored
    BY <2>1, <2>2 DEF AnswersKept
  <2>3. CASE stored' = [r \in {range} |-> Pending]
    <3>1. DOMAIN stored' \subseteq Nat \X Nat /\ \A r \in DOMAIN stored' : stored'[r] = Pending
      BY <2>1, <2>3
    <3> QED
      BY <2>1, <2>3, <3>1 DEF AnswersKept
  <2> QED
    BY <1>9, <2>2, <2>3 DEF StoreDirectPlan, EnsurePlanned
<1>10. CASE Checkpoint
  <2>1. step' \in {"failed", "done", "batch"} /\ Faithful(reply, range)
    BY <1>10 DEF Checkpoint, JoinAndEnd, AnswersKept
  <2>2. CASE stored' = stored
    BY <1>0, <2>1, <2>2
  <2>3. CASE stored' = [stored EXCEPT ![range] = reply]
    <3>1. DOMAIN stored' = DOMAIN stored /\ stored' = [r \in DOMAIN stored' |-> stored'[r]]
      BY <2>3 DEF AnswersKept
    <3>2. \A r \in DOMAIN stored' : stored'[r] = Pending \/ Faithful(stored'[r], r)
      BY <2>1, <2>3, <3>1 DEF AnswersKept
    <3>3. \A r \in DOMAIN stored' : (stored[r] = Pending \/ Faithful(stored[r], r))'
      BY <3>2 DEF Faithful
    <3> QED
      BY <2>1, <3>1, <3>3 DEF AnswersKept
  <2> QED
    BY <1>10, <2>2, <2>3 DEF Checkpoint, StoreAnswer
<1>11. CASE Interrupt
  BY <1>0, <1>11 DEF Interrupt
<1>12. CASE UNCHANGED trVars
  BY <1>12 DEF trVars, AnswersKept, Faithful
<1> QED
  BY <1>1, <1>2, <1>3, <1>4, <1>5, <1>6, <1>7, <1>8, <1>9, <1>10, <1>11, <1>12
     DEF TranscriptionNext, TranscriptionStep

\* Every step keeps the batches in page order.
LEMMA BatchesFollowNext ==
    ASSUME TranscriptionInv, [TranscriptionNext]_trVars
    PROVE  BatchesFollow'
<1> USE DEF TranscriptionInv
<1>0. ASSUME validated' = validated, step' \notin Asking \cup {"plan"}
      PROVE  BatchesFollow'
  BY <1>0 DEF BatchesFollow
<1>1. ASSUME UNCHANGED <<validated, range, direct>>, step' \in Asking, step \in Asking
      PROVE  BatchesFollow'
  BY <1>1 DEF BatchesFollow, NextPage, Asking
<1>2. ASSUME validated' = <<>>, step' \notin Asking \/ range'[1] = 1
      PROVE  BatchesFollow'
  BY <1>2, EmptySeq DEF BatchesFollow, NextPage
<1>3. CASE BeginRun
  BY <1>2, <1>3 DEF BeginRun, Ask, DirectRange, Asking
<1>4. CASE Plan
  <2>1. validated' = <<>> /\ step' \notin Asking
    BY <1>4 DEF Plan, EnsurePlanned, BatchesFollow, Asking
  <2> QED
    BY <1>2, <2>1
<1>5. CASE NextBatch
  <2>1. PICK r \in DOMAIN stored :
           /\ r[1] = NextPage
           /\ \/ Ask(r, FALSE) /\ UNCHANGED validated
              \/ /\ stored[r] # Pending /\ step' \in {"batch", "failed"}
                 /\ validated' \in {validated, Append(validated, Checked(r, stored[r]))}
    BY <1>5 DEF NextBatch
  <2>2. CASE Ask(r, FALSE) /\ UNCHANGED validated
    BY <2>1, <2>2 DEF Ask, BatchesFollow, NextPage
  <2>3. CASE /\ stored[r] # Pending /\ step' \in {"batch", "failed"}
             /\ validated' = Append(validated, Checked(r, stored[r]))
    <3>1. r \in Nat \X Nat /\ Faithful(stored[r], r)
      BY <2>3 DEF AnswersKept
    <3>2. validated' \in Seq(Batches) /\ ValidBatches(validated')
      BY <2>1, <2>3, <3>1, BatchAppended DEF BatchesFollow
    <3> QED
      BY <2>3, <3>2 DEF BatchesFollow, Asking
  <2>4. CASE step' \in {"batch", "failed"} /\ validated' = validated
    BY <1>0, <2>4 DEF Asking
  <2> QED
    BY <2>1, <2>2, <2>3, <2>4
<1>6. CASE JoinAll \/ Reconstruct
  BY <1>0, <1>6 DEF JoinAll, Reconstruct, JoinAndEnd, Asking
<1>7. CASE ModelAnswers \/ WaitEnds \/ Busy \/ Rejected \/ Unsupported \/ ProviderTimeout
  <2>1. UNCHANGED <<validated, range, direct>> /\ step \in Asking
    BY <1>7 DEF ModelAnswers, WaitEnds, Busy, Rejected, Unsupported, ProviderTimeout, requestDone,
       requestVars, Asking
  <2>2. step' \in Asking \/ step' = "failed" \/ (step' = "plan" /\ direct)
    BY <1>7 DEF ModelAnswers, WaitEnds, Busy, Rejected, Unsupported, ProviderTimeout,
       AfterUnsupported, AfterRetryable, AfterTimeout, Asking
  <2>3. CASE step' \in Asking
    BY <1>1, <2>1, <2>3
  <2>4. CASE step' = "failed"
    BY <1>0, <2>1, <2>4 DEF Asking
  <2>5. CASE step' = "plan" /\ direct
    BY <1>2, <2>1, <2>5 DEF BatchesFollow, Asking
  <2> QED
    BY <2>2, <2>3, <2>4, <2>5
<1>8. CASE StoreDirectPlan
  <2>1. UNCHANGED <<validated, range, direct>> /\ step \in Asking /\ step' \in {"checkpoint", "failed"}
    BY <1>8 DEF StoreDirectPlan, EnsurePlanned, requestVars, Asking
  <2> QED
    BY <1>0, <1>1, <2>1 DEF Asking
<1>9. CASE Checkpoint
  <2>1. step \in {"store", "checkpoint"} /\ step' \in {"failed", "done", "batch"}
    BY <1>9 DEF Checkpoint, JoinAndEnd
  <2>2. Faithful(reply, range) /\ range \in Nat \X Nat /\ range[1] = NextPage
    BY <2>1 DEF AnswersKept, BatchesFollow, Asking, TranscriptionTypeOK
  <2>3. CASE validated' = validated
    BY <1>0, <2>1, <2>3 DEF Asking
  <2>4. CASE validated' = Append(validated, Checked(range, reply))
    <3>1. validated' \in Seq(Batches) /\ ValidBatches(validated')
      BY <2>2, <2>4, BatchAppended DEF BatchesFollow
    <3> QED
      BY <2>1, <3>1 DEF BatchesFollow, Asking
  <2> QED
    BY <1>9, <2>3, <2>4 DEF Checkpoint, StoreAnswer
<1>10. CASE Interrupt
  BY <1>0, <1>10 DEF Interrupt, Asking
<1>11. CASE UNCHANGED trVars
  BY <1>11 DEF trVars, BatchesFollow, NextPage
<1> QED
  BY <1>3, <1>4, <1>5, <1>6, <1>7, <1>8, <1>9, <1>10, <1>11 DEF TranscriptionNext, TranscriptionStep

\* The transcription invariant holds in every reachable state.
THEOREM TranscriptionSafety == TranscriptionSpec => []TranscriptionInv
<1>1. TranscriptionInv /\ [TranscriptionNext]_trVars => TranscriptionInv'
  BY TranscriptionTypesNext, AnswersKeptNext, BatchesFollowNext DEF TranscriptionInv
<1> QED
  BY TranscriptionInitially, <1>1, PTL DEF TranscriptionSpec

\* The batches to be joined are valid and follow each other from page 1.
BatchesInOrder == validated # <<>> => ValidBatches(validated)

\* What a run collects for Join is in page order and without gaps, whatever mixture
\* of stored and new answers, from a PDF or from images, it comes from: Join refuses
\* it only for its length.
THEOREM JoinedInOrder == TranscriptionSpec => []BatchesInOrder
<1>1. TranscriptionInv => BatchesInOrder
  BY DEF TranscriptionInv, BatchesFollow, BatchesInOrder
<1> QED
  BY TranscriptionSafety, <1>1, PTL

\* A stored answer that is not too long as JSON passes validation again.
ReusableUnlessLonger ==
    \A r \in DOMAIN stored :
        stored[r] # Pending /\ RawBytes(stored[r]) <= MaxRawBytes => Valid(stored[r], r)

\* What the run checkpoint_reread shows is the only way: a stored answer is refused
\* when it is read again only where escaping made it longer than maxRawBatchBytes.
THEOREM RereadFailsOnlyByLength == TranscriptionSpec => []ReusableUnlessLonger
<1>1. ASSUME TranscriptionInv, NEW r \in DOMAIN stored, stored[r] # Pending,
             RawBytes(stored[r]) <= MaxRawBytes
      PROVE  Valid(stored[r], r)
  <2>1. Faithful(stored[r], r)
    BY <1>1 DEF TranscriptionInv, AnswersKept
  <2>2. DOMAIN stored[r].text = r[1]..r[2] /\ stored[r].defect = "none"
    BY <2>1 DEF Faithful
  <2> QED
    BY <1>1, <2>1, <2>2 DEF Faithful, Valid, ValidEncoding, StrictFields, NotMeta
<1>2. TranscriptionInv => ReusableUnlessLonger
  BY <1>1 DEF ReusableUnlessLonger
<1> QED
  BY TranscriptionSafety, <1>2, PTL

-----------------------------------------------------------------------------
(***************************************************************************)
(* What is joined is stored.                                               *)
(***************************************************************************)

\* The stored ranges are those of a plan, and the range asked for is one of them;
\* that of a PDF becomes one when its answer is there.
PlanKept ==
    /\ Partition(DOMAIN stored, doc.pages)
    /\ step \in Asking /\ direct => range = DirectRange /\ doc.pages # 0
    /\ step = "checkpoint" \/ (step \in Asking /\ ~direct) => range \in DOMAIN stored

\* v joins stored answers up to the last page.
Whole(v) == v \in Seq(Batches) /\ ValidBatches(v) /\ Kept(v) /\ End(v) = doc.pages

\* What is to be joined is stored, and so is what was joined.
ContentKept ==
    /\ Kept(validated)
    /\ content # <<>> => \E v : Whole(v) /\ content = Join(v)

\* The inductive invariant of what is joined, given the one of the run.
JoinInv == PlanKept /\ ContentKept

\* Nothing is stored or joined before a document is claimed.
LEMMA JoinInitially == TranscriptionInit => JoinInv
  BY DEF TranscriptionInit, JoinInv, PlanKept, ContentKept, Kept, Partition, Asking

\* No step takes back or changes an answer that is stored.
LEMMA AnswersStay ==
    ASSUME TranscriptionInv, PlanKept, [TranscriptionNext]_trVars
    PROVE  /\ doc' = doc
           /\ \A r \in DOMAIN stored : r \in DOMAIN stored' /\ (stored[r] # Pending => stored'[r] = stored[r])
<1> DEFINE Stay == \A r \in DOMAIN stored :
                      r \in DOMAIN stored' /\ (stored[r] # Pending => stored'[r] = stored[r])
<1>0. ASSUME stored' = stored
      PROVE  Stay
  BY <1>0
<1>1. CASE Plan \/ StoreDirectPlan
  <2>1. stored' = stored \/ stored = [r \in {} |-> Pending]
    BY <1>1 DEF Plan, StoreDirectPlan, EnsurePlanned
  <2>2. stored = [r \in {} |-> Pending] => Stay
    OBVIOUS
  <2>3. doc' = doc
    BY <1>1 DEF Plan, StoreDirectPlan
  <2> QED
    BY <1>0, <2>1, <2>2, <2>3
<1>2. CASE Checkpoint
  <2>1. \/ stored' = stored
        \/ stored[range] \in {Pending, reply} /\ stored' = [stored EXCEPT ![range] = reply]
    BY <1>2 DEF Checkpoint, StoreAnswer
  <2>2. stored[range] \in {Pending, reply} /\ stored' = [stored EXCEPT ![range] = reply] => Stay
    OBVIOUS
  <2>3. doc' = doc
    BY <1>2 DEF Checkpoint
  <2> QED
    BY <1>0, <2>1, <2>2, <2>3
<1>3. CASE \/ BeginRun \/ NextBatch \/ JoinAll \/ ModelAnswers \/ Unsupported \/ Busy
           \/ ProviderTimeout \/ Rejected \/ WaitEnds \/ Reconstruct \/ Interrupt
  <2>1. UNCHANGED <<doc, stored>>
    BY <1>3 DEF BeginRun, NextBatch, JoinAll, ModelAnswers, Unsupported, Busy, ProviderTimeout,
       Rejected, WaitEnds, Reconstruct, Interrupt, requestDone
  <2> QED
    BY <1>0, <2>1
<1>4. CASE UNCHANGED trVars
  BY <1>0, <1>4 DEF trVars
<1> QED
  BY <1>1, <1>2, <1>3, <1>4 DEF TranscriptionNext, TranscriptionStep

\* Batches that are stored stay stored.
LEMMA KeptStays ==
    ASSUME TranscriptionInv, PlanKept, [TranscriptionNext]_trVars, NEW CONSTANT v, Kept(v)
    PROVE  Kept(v)'
  BY AnswersStay DEF Kept

\* Every step keeps to the plan.
LEMMA PlanKeptNext ==
    ASSUME TranscriptionInv, PlanKept, [TranscriptionNext]_trVars
    PROVE  PlanKept'
<1> DEFINE Asked == /\ step \in Asking /\ direct => range = DirectRange /\ doc.pages # 0
                    /\ step = "checkpoint" \/ (step \in Asking /\ ~direct) => range \in DOMAIN stored
<1>0. Partition(DOMAIN stored, doc.pages) /\ Asked /\ doc.pages \in Nat
  BY TranscriptionAssumption DEF PlanKept, TranscriptionInv, TranscriptionTypeOK
<1>1. doc' = doc
  BY AnswersStay
<1>2. ASSUME DOMAIN stored' = DOMAIN stored, Asked'
      PROVE  PlanKept'
  BY <1>0, <1>1, <1>2 DEF PlanKept, Partition
<1>3. ASSUME step' \notin Asking
      PROVE  Asked'
  BY <1>3 DEF Asking
<1>4. CASE BeginRun
  <2>1. UNCHANGED stored
    BY <1>4 DEF BeginRun
  <2>2. Asked'
    <3>1. CASE DirectEligible /\ ~begun
      BY <1>0, <1>1, <1>4, <3>1 DEF BeginRun, Ask, DirectEligible, DirectRange, Asking
    <3>2. CASE ~(DirectEligible /\ ~begun)
      BY <1>3, <1>4, <3>2 DEF BeginRun, Asking
    <3> QED
      BY <3>1, <3>2
  <2> QED
    BY <1>2, <2>1, <2>2
<1>5. CASE Plan
  <2>1. step' \notin Asking
    BY <1>5 DEF Plan, EnsurePlanned, Asking
  <2>2. Asked'
    BY <1>3, <2>1
  <2>3. CASE stored' = stored
    BY <1>2, <2>2, <2>3
  <2>4. CASE stored' = [r \in ImageRanges |-> Pending]
    <3>1. DOMAIN stored' = ImageRanges /\ Partition(ImageRanges, doc.pages)
      BY <1>0, <2>4, ImagesPartition
    <3>2. Partition(DOMAIN stored, doc.pages)'
      BY <1>1, <3>1 DEF Partition
    <3> QED
      BY <2>2, <3>2 DEF PlanKept
  <2> QED
    BY <1>5, <2>3, <2>4 DEF Plan, EnsurePlanned
<1>6. CASE NextBatch
  <2>1. UNCHANGED stored
    BY <1>6 DEF NextBatch
  <2>2. PICK r \in DOMAIN stored : Ask(r, FALSE) \/ step' \in {"batch", "failed"}
    BY <1>6 DEF NextBatch
  <2>3. CASE Ask(r, FALSE)
    BY <1>2, <2>1, <2>3 DEF Ask, Asking
  <2>4. CASE step' \in {"batch", "failed"}
    BY <1>2, <1>3, <2>1, <2>4 DEF Asking
  <2> QED
    BY <2>2, <2>3, <2>4
<1>7. CASE JoinAll \/ Reconstruct \/ Interrupt
  <2>1. UNCHANGED stored /\ step' \notin Asking
    BY <1>7 DEF JoinAll, Reconstruct, Interrupt, JoinAndEnd, Asking
  <2> QED
    BY <1>2, <1>3, <2>1
<1>8. CASE ModelAnswers \/ WaitEnds \/ Busy \/ Rejected \/ Unsupported \/ ProviderTimeout
  <2>1. UNCHANGED <<stored, range, direct>> /\ step \in Asking
    BY <1>8 DEF ModelAnswers, WaitEnds, Busy, Rejected, Unsupported, ProviderTimeout, requestDone,
       requestVars, Asking
  <2>2. step' \in Asking \ {"checkpoint"} \/ step' \notin Asking
    BY <1>8 DEF ModelAnswers, WaitEnds, Busy, Rejected, Unsupported, ProviderTimeout,
       AfterUnsupported, AfterRetryable, AfterTimeout, Asking
  <2>3. Asked'
    BY <1>0, <1>1, <2>1, <2>2 DEF Asking, DirectRange
  <2> QED
    BY <1>2, <2>1, <2>3
<1>9. CASE StoreDirectPlan
  <2>1. /\ UNCHANGED <<range, direct>> /\ direct /\ range = DirectRange /\ doc.pages # 0
        /\ step' \in {"checkpoint", "failed"}
    BY <1>0, <1>9 DEF StoreDirectPlan, EnsurePlanned, requestVars, Asking
  <2>2. CASE stored' = stored /\ (step' = "checkpoint" => DOMAIN stored = {range})
    <3>1. Asked'
      BY <1>1, <2>1, <2>2 DEF Asking, DirectRange
    <3> QED
      BY <1>2, <2>2, <3>1
  <2>3. CASE stored' = [r \in {range} |-> Pending]
    <3>1. DOMAIN stored' = {DirectRange} /\ Partition({DirectRange}, doc.pages)
      BY <1>0, <2>1, <2>3, DirectPartition
    <3>2. Partition(DOMAIN stored, doc.pages)'
      BY <1>1, <3>1 DEF Partition
    <3>3. Asked'
      BY <1>1, <2>1, <2>3 DEF Asking, DirectRange
    <3> QED
      BY <3>2, <3>3 DEF PlanKept
  <2> QED
    BY <1>9, <2>2, <2>3 DEF StoreDirectPlan, EnsurePlanned
<1>10. CASE Checkpoint
  <2>1. step' \notin Asking /\ DOMAIN stored' = DOMAIN stored
    BY <1>10 DEF Checkpoint, StoreAnswer, JoinAndEnd, Asking
  <2> QED
    BY <1>2, <1>3, <2>1
<1>11. CASE UNCHANGED trVars
  <2>1. UNCHANGED <<doc, step, direct, range, stored>>
    BY <1>11 DEF trVars
  <2> QED
    BY <1>0, <1>2, <2>1 DEF DirectRange
<1> QED
  BY <1>4, <1>5, <1>6, <1>7, <1>8, <1>9, <1>10, <1>11 DEF TranscriptionNext, TranscriptionStep

\* A batch checked against what is stored for its range.
LEMMA BatchKept ==
    ASSUME NEW r, NEW raw, r \in DOMAIN stored, stored[r] = raw, raw # Pending, Kept(validated),
           validated \in Seq(Batches), Checked(r, raw) \in Batches
    PROVE  Kept(Append(validated, Checked(r, raw)))
<1> DEFINE b == Checked(r, raw)
           v == Append(validated, b)
<1>1. b.range = r /\ b.text = raw.text /\ b \in Batches
  BY DEF Checked
<1> HIDE DEF b
<1>2. /\ v \in Seq(Batches) /\ Len(v) = Len(validated) + 1
      /\ \A i \in 1..Len(validated) : v[i] = validated[i]
      /\ v[Len(validated) + 1] = b
  BY <1>1, AppendProperties
<1>3. DOMAIN v = 1..(Len(validated) + 1) /\ DOMAIN validated = 1..Len(validated) /\ Len(validated) \in Nat
  BY <1>2, LenProperties
<1> HIDE DEF v
<1>4. \A i \in DOMAIN v : i \in DOMAIN validated \/ i = Len(validated) + 1
  BY <1>3
<1>5. Kept(v)
  BY <1>1, <1>2, <1>3, <1>4 DEF Kept
<1> QED
  BY <1>5 DEF v, b

\* When no stored range begins at the next page, the batches reach the last page.
LEMMA AllJoined ==
    ASSUME TranscriptionInv, JoinInv, ValidBatches(validated), \A r \in DOMAIN stored : r[1] # NextPage
    PROVE  Whole(validated)
<1>1. validated \in Seq(Batches) /\ Kept(validated) /\ Partition(DOMAIN stored, doc.pages)
  BY DEF TranscriptionInv, BatchesFollow, JoinInv, PlanKept, ContentKept
<1>2. Len(validated) \in DOMAIN validated /\ validated # <<>>
  BY <1>1, BatchFacts DEF ValidBatches
<1> DEFINE last == validated[Len(validated)].range
<1>3. last \in DOMAIN stored /\ NextPage = last[2] + 1 /\ End(validated) = last[2]
  BY <1>1, <1>2 DEF Kept, NextPage, End
<1> HIDE DEF last
<1>4. last[2] = doc.pages
  BY <1>1, <1>3 DEF Partition
<1> QED
  BY <1>1, <1>3, <1>4 DEF Whole

\* The answer to a PDF is the whole document.
LEMMA DirectWhole ==
    ASSUME TranscriptionInv, JoinInv, step \in {"store", "checkpoint"}, direct,
           ValidBatches(<<Checked(range, reply)>>)
    PROVE  /\ <<Checked(range, reply)>> \in Seq(Batches)
           /\ End(<<Checked(range, reply)>>) = doc.pages
<1>1. range = DirectRange /\ range \in Nat \X Nat /\ Faithful(reply, range)
  BY DEF JoinInv, PlanKept, TranscriptionInv, AnswersKept, TranscriptionTypeOK, Asking
<1> DEFINE b == Checked(range, reply)
<1>2. b \in Batches /\ b.range = DirectRange
  BY <1>1, FaithfulBatch DEF Checked
<1> HIDE DEF b
<1>3. <<b>> \in Seq(Batches) /\ Len(<<b>>) = 1 /\ <<b>>[1] = b
  BY <1>2
<1>4. End(<<b>>) = doc.pages
  BY <1>2, <1>3 DEF End, DirectRange
<1> QED
  BY <1>3, <1>4 DEF b

\* Every step keeps what is joined: a content is a join of stored answers, of the
\* run's own or of a reconstruction.
LEMMA ContentKeptNext ==
    ASSUME TranscriptionInv, JoinInv, [TranscriptionNext]_trVars
    PROVE  ContentKept'
<1> DEFINE Joined == content # <<>> => \E v : Whole(v) /\ content = Join(v)
<1>0. Kept(validated) /\ Joined /\ PlanKept
  BY DEF JoinInv, ContentKept
<1>1. doc' = doc
  BY <1>0, AnswersStay
<1>2. ASSUME NEW v, Whole(v)
      PROVE  Whole(v)'
  BY <1>0, <1>1, <1>2, KeptStays DEF Whole, End
<1>3. ASSUME content' = content
      PROVE  Joined'
  BY <1>0, <1>2, <1>3
<1>4. ASSUME NEW v, Whole(v), content' = Join(v)
      PROVE  Joined'
  <2>1. Whole(v)'
    BY <1>2, <1>4
  <2> QED
    BY <1>4, <2>1
<1>5. ASSUME validated' = validated
      PROVE  Kept(validated)'
  BY <1>0, <1>5, AnswersStay DEF Kept
<1>6. ASSUME validated' = <<>>
      PROVE  Kept(validated)'
  BY <1>6 DEF Kept
<1>7. CASE BeginRun
  BY <1>3, <1>6, <1>7 DEF BeginRun, ContentKept
<1>8. CASE \/ Plan \/ ModelAnswers \/ Unsupported \/ Busy \/ ProviderTimeout \/ Rejected \/ WaitEnds
           \/ StoreDirectPlan \/ Interrupt \/ UNCHANGED trVars
  <2>1. UNCHANGED <<validated, content>>
    BY <1>8 DEF Plan, ModelAnswers, Unsupported, Busy, ProviderTimeout, Rejected, WaitEnds,
       StoreDirectPlan, Interrupt, requestDone, trVars
  <2> QED
    BY <1>3, <1>5, <2>1 DEF ContentKept
<1>9. CASE NextBatch
  <2>1. UNCHANGED <<content, stored>>
    BY <1>9 DEF NextBatch
  <2>2. PICK r \in DOMAIN stored :
           \/ UNCHANGED validated
           \/ stored[r] # Pending /\ validated' = Append(validated, Checked(r, stored[r]))
    BY <1>9 DEF NextBatch
  <2>3. CASE stored[r] # Pending /\ validated' = Append(validated, Checked(r, stored[r]))
    <3>1. r \in Nat \X Nat /\ Faithful(stored[r], r) /\ validated \in Seq(Batches)
      BY <2>3 DEF TranscriptionInv, AnswersKept, BatchesFollow
    <3>2. Kept(validated')
      BY <1>0, <2>3, <3>1, BatchKept, FaithfulBatch
    <3>3. Kept(validated)'
      BY <2>1, <3>2 DEF Kept
    <3> QED
      BY <1>3, <2>1, <3>3 DEF ContentKept
  <2> QED
    BY <1>3, <1>5, <2>1, <2>2, <2>3 DEF ContentKept
<1>10. CASE JoinAll
  <2>1. validated' = validated /\ JoinAndEnd(validated, "failed") /\ \A r \in DOMAIN stored : r[1] # NextPage
    BY <1>10 DEF JoinAll
  <2>2. content' = content \/ (ValidBatches(validated) /\ content' = Join(validated))
    BY <2>1 DEF JoinAndEnd
  <2>3. CASE ValidBatches(validated) /\ content' = Join(validated)
    <3>1. Whole(validated)
      BY <2>1, <2>3, AllJoined
    <3>2. PICK v : v = validated
      OBVIOUS
    <3>3. Joined'
      <4> HIDE DEF Joined
      <4> QED
        BY <1>4, <2>3, <3>1, <3>2
    <3> QED
      BY <1>5, <2>1, <3>3 DEF ContentKept
  <2> QED
    BY <1>3, <1>5, <2>1, <2>2, <2>3 DEF ContentKept
<1>11. CASE Checkpoint
  <2> DEFINE b == Checked(range, reply)
  <2>1. step \in {"store", "checkpoint"} /\ range \in DOMAIN stored /\ UNCHANGED <<range, reply>>
        /\ (direct => step = "checkpoint")
    BY <1>0, <1>11 DEF Checkpoint, PlanKept, Asking, requestVars
  <2>2. range \in Nat \X Nat /\ Faithful(reply, range) /\ validated \in Seq(Batches)
    BY <2>1 DEF TranscriptionInv, TranscriptionTypeOK, AnswersKept, BatchesFollow
  <2>3. b \in Batches /\ reply # Pending
    BY <2>2, FaithfulBatch
  <2>4. CASE stored[range] \notin {Pending, reply}
    BY <1>3, <1>5, <1>11, <2>4 DEF Checkpoint, StoreAnswer, ContentKept
  <2>5. CASE stored[range] \in {Pending, reply}
    <3>1. /\ stored' = [stored EXCEPT ![range] = reply] /\ validated' = Append(validated, b)
          /\ IF direct THEN JoinAndEnd(<<b>>, "failed") ELSE UNCHANGED content
      BY <1>11, <2>5 DEF Checkpoint, StoreAnswer
    <3>2. range \in DOMAIN stored' /\ stored'[range] = reply
      BY <2>1, <3>1
    <3>3. Kept(validated)'
      <4>1. PICK w : w = validated
        OBVIOUS
      <4>2. Kept(w)'
        BY <1>0, <4>1, KeptStays
      <4>3. b.range = range /\ b.text = reply.text
        BY DEF Checked
      <4> HIDE DEF b
      <4>4. /\ validated' \in Seq(Batches) /\ Len(validated') = Len(w) + 1
            /\ \A i \in 1..Len(w) : validated'[i] = w[i]
            /\ validated'[Len(w) + 1] = b
        BY <2>2, <2>3, <3>1, <4>1, AppendProperties
      <4>5. DOMAIN validated' = 1..(Len(w) + 1) /\ DOMAIN w = 1..Len(w) /\ Len(w) \in Nat
        BY <2>2, <4>1, <4>4, LenProperties
      <4>6. \A i \in DOMAIN validated' : i \in DOMAIN w \/ i = Len(w) + 1
        BY <4>5
      <4>7. ASSUME NEW i \in DOMAIN validated'
            PROVE  /\ validated'[i].range \in DOMAIN stored' /\ stored'[validated'[i].range] # Pending
                   /\ stored'[validated'[i].range].text = validated'[i].text
        <5>1. CASE i \in DOMAIN w
          BY <4>2, <4>4, <4>5, <5>1 DEF Kept
        <5>2. CASE i = Len(w) + 1
          BY <2>3, <3>2, <4>3, <4>4, <5>2
        <5> QED
          BY <4>6, <5>1, <5>2
      <4> QED
        BY <4>7 DEF Kept
    <3>4. Joined'
      <4>1. CASE content' = content
        BY <1>3, <4>1
      <4>2. CASE content' # content
        <5>1. direct /\ ValidBatches(<<b>>) /\ content' = Join(<<b>>)
          BY <3>1, <4>2 DEF JoinAndEnd
        <5>2. <<b>> \in Seq(Batches) /\ End(<<b>>) = doc.pages
          BY <2>1, <5>1, DirectWhole
        <5>3. PICK w : w = <<b>>
          OBVIOUS
        <5>4. b.range = range /\ b.text = reply.text
          BY DEF Checked
        <5> HIDE DEF b
        <5>5. DOMAIN w = {1} /\ w[1] = b
          BY <2>3, <5>3
        <5>6. Kept(w)'
          BY <2>3, <3>2, <5>4, <5>5 DEF Kept
        <5>7. Whole(w)'
          BY <1>1, <5>1, <5>2, <5>3, <5>6 DEF Whole
        <5>8. content' = Join(w)
          BY <5>1, <5>3
        <5> QED
          BY <5>7, <5>8
      <4> QED
        BY <4>1, <4>2
    <3> QED
      BY <3>3, <3>4 DEF ContentKept
  <2> QED
    BY <2>4, <2>5
<1>12. CASE Reconstruct
  <2>1. validated' = validated
        /\ \/ content' = content
           \/ /\ \A r \in DOMAIN stored : Valid(stored[r], r)
              /\ ValidBatches(Reconstructed) /\ content' = Join(Reconstructed)
    BY <1>12 DEF Reconstruct, JoinAndEnd
  <2>2. CASE /\ \A r \in DOMAIN stored : Valid(stored[r], r)
             /\ ValidBatches(Reconstructed) /\ content' = Join(Reconstructed)
    <3>1. doc.pages \in Nat /\ Partition(DOMAIN stored, doc.pages)
          /\ \A r \in DOMAIN stored : stored[r] = Pending \/ Faithful(stored[r], r)
      BY <1>0, TranscriptionAssumption DEF TranscriptionInv, TranscriptionTypeOK, AnswersKept, PlanKept
    <3>2. PICK v : v = Reconstructed
      OBVIOUS
    <3>3. Whole(v)
      BY <2>2, <3>1, <3>2, ReconstructsAll DEF Whole
    <3>4. Joined'
      <4> HIDE DEF Joined
      <4> QED
        BY <1>4, <2>2, <3>2, <3>3
    <3> QED
      BY <1>5, <2>1, <3>4 DEF ContentKept
  <2> QED
    BY <1>3, <1>5, <2>1, <2>2 DEF ContentKept
<1> QED
  BY <1>7, <1>8, <1>9, <1>10, <1>11, <1>12 DEF TranscriptionNext, TranscriptionStep

-----------------------------------------------------------------------------
(***************************************************************************)
(* The content can be read, and stays.                                     *)
(***************************************************************************)

\* What is joined keeps its invariant in every reachable state.
THEOREM JoinSafety == TranscriptionSpec => []JoinInv
<1>1. TranscriptionInv /\ JoinInv /\ [TranscriptionNext]_trVars => JoinInv'
  BY PlanKeptNext, ContentKeptNext DEF JoinInv
<1> QED
  BY TranscriptionSafety, JoinInitially, <1>1, PTL DEF TranscriptionSpec

\* Whatever the pages say and end with, in however many batches and over however
\* many runs they were read: a reader who follows the byte counts in the headers gets
\* back every stored page of the document, once and in order, with a blank line
\* around its header and nothing after the last page.
THEOREM JoinIsReadable == TranscriptionSpec => []JoinReadable
<1>1. ASSUME TranscriptionInv, JoinInv
      PROVE  JoinReadable
  <2>1. CASE content = <<>>
    BY <2>1 DEF JoinReadable
  <2>2. CASE content # <<>>
    <3>1. PICK v : Whole(v) /\ content = Join(v)
      BY <1>1, <2>2 DEF JoinInv, ContentKept
    <3>2. doc.pages \in Nat /\ Partition(DOMAIN stored, doc.pages)
      BY <1>1, TranscriptionAssumption DEF TranscriptionInv, TranscriptionTypeOK, JoinInv, PlanKept
    <3> QED
      BY <3>1, <3>2, JoinedReadable DEF Whole
  <2> QED
    BY <2>1, <2>2
<1>2. TranscriptionInv /\ JoinInv => JoinReadable
  BY <1>1
<1> QED
  BY TranscriptionSafety, JoinSafety, <1>2, PTL

\* Two joins of the stored answers are the same text.
LEMMA SameJoin ==
    ASSUME NEW v, Whole(v), NEW w, Whole(w), Partition(DOMAIN stored, doc.pages), doc.pages \in Nat
    PROVE  Join(v) = Join(w)
<1> DEFINE N == doc.pages
           T(n) == StoredText(n)
           P(n) == IF n = 1 THEN <<>> ELSE blankLinePadding(T(n - 1))
<1>1. ASSUME NEW u, Whole(u)
      PROVE  \E f \in [0..N -> Seq(Tokens)] :
                /\ Join(u) = f[N] /\ f[0] = <<>>
                /\ \A n \in 1..N : f[n] = WithPage(f[n - 1], P(n), n, T(n))
  <2>1. End(u) = N
    BY <1>1 DEF Whole
  <2>2. \A n \in 1..N : Text(u, n) = T(n) /\ Text(u, n) \in Seq(Tokens)
    BY <1>1, <2>1, JoinedPage, PageOfBatch DEF Whole
  <2> HIDE DEF T, N
  <2>3. \A n \in 1..N : Padding(u, n) = P(n)
    <3>1. N \in Nat
      BY DEF N
    <3>2. \A n \in 1..N : n # 1 => n - 1 \in 1..N
      BY <3>1
    <3> QED
      BY <2>2, <3>2 DEF Padding
  <2>4. PICK f \in [0..N -> Seq(Tokens)] :
           /\ Join(u) = f[N] /\ f[0] = <<>>
           /\ \A n \in 1..N : f[n] = WithPage(f[n - 1], Padding(u, n), n, Text(u, n))
    <3>1. End(u) \in Nat
      BY <2>1 DEF N
    <3> QED
      BY <2>1, <2>2, <3>1, JoinByPages
  <2> HIDE DEF P
  <2>5. \A n \in 1..N : f[n] = WithPage(f[n - 1], P(n), n, T(n))
    BY <2>2, <2>3, <2>4
  <2> QED
    BY <2>4, <2>5
<1> HIDE DEF P, T, N
<1>2. PICK f \in [0..N -> Seq(Tokens)] :
         /\ Join(v) = f[N] /\ f[0] = <<>>
         /\ \A n \in 1..N : f[n] = WithPage(f[n - 1], P(n), n, T(n))
  BY <1>1
<1>3. PICK g \in [0..N -> Seq(Tokens)] :
         /\ Join(w) = g[N] /\ g[0] = <<>>
         /\ \A n \in 1..N : g[n] = WithPage(g[n - 1], P(n), n, T(n))
  BY <1>1
<1> DEFINE S == {n \in 0..N : f[n] = g[n]}
<1>4. N \in Nat
  BY DEF N
<1>5. 0 \in S
  BY <1>2, <1>3, <1>4
<1>6. ASSUME NEW n \in 0..(N - 1), n \in S
      PROVE  n + 1 \in S
  <2>1. n + 1 \in 1..N /\ (n + 1) - 1 = n /\ n + 1 \in 0..N
    BY <1>4
  <2>2. /\ f[n + 1] = WithPage(f[(n + 1) - 1], P(n + 1), n + 1, T(n + 1))
        /\ g[n + 1] = WithPage(g[(n + 1) - 1], P(n + 1), n + 1, T(n + 1))
    BY <1>2, <1>3, <2>1
  <2> QED
    BY <1>6, <2>1, <2>2
<1> HIDE DEF S
<1>7. 0..N \subseteq S
  BY <1>4, <1>5, <1>6, UpToN
<1> QED
  BY <1>2, <1>3, <1>4, <1>7 DEF S

\* Once there is a content, no step changes it.
ContentStays == [][content # <<>> => content' = content]_trVars

\* The content is settled by the first run that joins the document: a later run of a
\* job that was interrupted, and a reconstruction from the checkpoints, compute
\* exactly the text that may already have been written to Paperless.
THEOREM ContentSettled == TranscriptionSpec => ContentStays
<1>1. ASSUME TranscriptionInv, JoinInv, [TranscriptionNext]_trVars, content # <<>>
      PROVE  content' = content
  <2>1. PICK v : Whole(v) /\ content = Join(v)
    BY <1>1 DEF JoinInv, ContentKept
  <2>2. doc.pages \in Nat /\ Partition(DOMAIN stored, doc.pages)
    BY <1>1, TranscriptionAssumption DEF TranscriptionInv, TranscriptionTypeOK, JoinInv, PlanKept
  <2>3. ASSUME NEW w, Whole(w), content' = Join(w)
        PROVE  content' = content
    BY <2>1, <2>2, <2>3, SameJoin
  <2>4. CASE \/ BeginRun \/ Plan \/ NextBatch \/ ModelAnswers \/ Unsupported \/ Busy \/ ProviderTimeout
             \/ Rejected \/ WaitEnds \/ StoreDirectPlan \/ Interrupt \/ UNCHANGED trVars
    BY <2>4 DEF BeginRun, Plan, NextBatch, ModelAnswers, Unsupported, Busy, ProviderTimeout, Rejected,
       WaitEnds, StoreDirectPlan, Interrupt, requestDone, trVars
  <2>5. CASE JoinAll
    <3>1. content' = content \/ (ValidBatches(validated) /\ content' = Join(validated))
      BY <2>5 DEF JoinAll, JoinAndEnd
    <3>2. CASE ValidBatches(validated) /\ content' = Join(validated)
      <4>1. Whole(validated)
        BY <1>1, <2>5, <3>2, AllJoined DEF JoinAll
      <4>2. PICK w : w = validated
        OBVIOUS
      <4> QED
        BY <2>3, <3>2, <4>1, <4>2
    <3> QED
      BY <3>1, <3>2
  <2>6. CASE Checkpoint
    <3> DEFINE b == Checked(range, reply)
    <3>1. \/ content' = content
          \/ /\ direct /\ step = "checkpoint" /\ stored[range] \in {Pending, reply}
             /\ ValidBatches(<<b>>) /\ content' = Join(<<b>>)
      BY <2>6 DEF Checkpoint, JoinAndEnd
    <3>2. CASE /\ direct /\ step = "checkpoint" /\ stored[range] \in {Pending, reply}
               /\ ValidBatches(<<b>>) /\ content' = Join(<<b>>)
      <4>1. <<b>> \in Seq(Batches) /\ End(<<b>>) = doc.pages
        BY <1>1, <3>2, DirectWhole
      <4>2. range \in DOMAIN stored /\ range = DirectRange /\ doc.pages # 0
        BY <1>1, <3>2 DEF JoinInv, PlanKept, Asking
      <4>3. v[1].range \in DOMAIN stored /\ stored[v[1].range] # Pending /\ v[1].range[1] = 1
            /\ v[1].range[2] \in Nat /\ 1 <= v[1].range[2]
        <5>1. 1 \in DOMAIN v /\ v[1].range \in Nat \X Nat /\ v[1].range[1] = 1 /\ v[1].range[1] <= v[1].range[2]
          BY <2>1, BatchFacts DEF Whole
        <5> QED
          BY <2>1, <5>1 DEF Whole, Kept
      <4>4. v[1].range = range
        <5>1. 1 \in 1..doc.pages /\ 1 \in range[1]..range[2] /\ 1 \in v[1].range[1]..v[1].range[2]
          BY <2>2, <4>2, <4>3 DEF DirectRange
        <5> QED
          BY <2>2, <4>2, <4>3, <5>1 DEF Partition
      <4>5. stored[range] = reply /\ reply # Pending
        BY <3>2, <4>3, <4>4
      <4>6. b.range = range /\ b.text = reply.text
        BY DEF Checked
      <4>7. PICK w : w = <<b>>
        OBVIOUS
      <4> HIDE DEF b
      <4>8. DOMAIN w = {1} /\ w[1] = b
        BY <4>7
      <4>9. Kept(w)
        BY <4>2, <4>5, <4>6, <4>8 DEF Kept
      <4>10. Whole(w) /\ content' = Join(w)
        BY <3>2, <4>1, <4>7, <4>9 DEF Whole
      <4> QED
        BY <2>3, <4>10
    <3> QED
      BY <3>1, <3>2
  <2>7. CASE Reconstruct
    <3>1. \/ content' = content
          \/ /\ \A r \in DOMAIN stored : Valid(stored[r], r)
             /\ ValidBatches(Reconstructed) /\ content' = Join(Reconstructed)
      BY <2>7 DEF Reconstruct, JoinAndEnd
    <3>2. CASE /\ \A r \in DOMAIN stored : Valid(stored[r], r)
               /\ ValidBatches(Reconstructed) /\ content' = Join(Reconstructed)
      <4>1. \A r \in DOMAIN stored : stored[r] = Pending \/ Faithful(stored[r], r)
        BY <1>1 DEF TranscriptionInv, AnswersKept
      <4>2. PICK w : w = Reconstructed
        OBVIOUS
      <4>3. Whole(w) /\ content' = Join(w)
        BY <2>2, <3>2, <4>1, <4>2, ReconstructsAll DEF Whole
      <4> QED
        BY <2>3, <4>3
    <3> QED
      BY <3>1, <3>2
  <2> QED
    BY <1>1, <2>4, <2>5, <2>6, <2>7 DEF TranscriptionNext, TranscriptionStep
<1>2. TranscriptionInv /\ JoinInv /\ [TranscriptionNext]_trVars => [content # <<>> => content' = content]_trVars
  BY <1>1
<1> QED
  BY TranscriptionSafety, JoinSafety, <1>2, PTL DEF TranscriptionSpec, ContentStays

-----------------------------------------------------------------------------
(***************************************************************************)
(* A recorded success is resumed.                                          *)
(***************************************************************************)

\* A finalization begins with a content, and a content has room in Paperless.
BegunKept ==
    /\ step = "done" \/ begun => content # <<>>
    /\ step = "reconstruct" => begun
    /\ content # <<>> => Len(content) <= MaxJoinedBytes

\* A joined text is not empty: it begins with a header.
LEMMA JoinNotEmpty ==
    ASSUME NEW v \in Seq(Batches), ValidBatches(v)
    PROVE  Join(v) # <<>>
<1> DEFINE N == End(v)
           pages == [n \in 1..N |-> Text(v, n)]
<1>1. N \in Nat \ {0}
  BY BatchFacts
<1>2. \A n \in 1..N : Text(v, n) \in Seq(Tokens)
  BY PageOfBatch
<1>3. PICK pos : LaidOut(Join(v), N, pages, pos)
  BY <1>1, <1>2, JoinLaysOut
<1>4. pages[N] \in Seq(Tokens) /\ Len(pages[N]) \in Nat
  BY <1>1, <1>2, LenProperties
<1> HIDE DEF pages, N
<1>5. pos[N] \in Nat /\ Len(Join(v)) = pos[N] + 2 + Len(pages[N])
  BY <1>1, <1>3 DEF LaidOut
<1>6. Len(Join(v)) # 0
  BY <1>4, <1>5
<1> QED
  BY <1>6, EmptySeq

\* Every step keeps this.
LEMMA BegunKeptNext ==
    ASSUME TranscriptionInv, JoinInv, BegunKept, [TranscriptionNext]_trVars
    PROVE  BegunKept'
<1>0. /\ (step = "done" \/ begun => content # <<>>) /\ (step = "reconstruct" => begun)
      /\ (content # <<>> => Len(content) <= MaxJoinedBytes)
  BY DEF BegunKept
<1>1. ASSUME UNCHANGED <<content, begun>>, step' \notin {"done", "reconstruct"}
      PROVE  BegunKept'
  BY <1>0, <1>1 DEF BegunKept
<1>2. ASSUME NEW v, v \in Seq(Batches), JoinAndEnd(v, "failed") \/ JoinAndEnd(v, "unsettled"), UNCHANGED begun
      PROVE  BegunKept'
  <2>1. CASE UNCHANGED content /\ step' \in {"failed", "unsettled"}
    BY <1>1, <1>2, <2>1
  <2>2. CASE ValidBatches(v) /\ Len(Join(v)) <= MaxJoinedBytes /\ content' = Join(v) /\ step' = "done"
    <3>1. content' # <<>>
      BY <1>2, <2>2, JoinNotEmpty
    <3> QED
      BY <2>2, <3>1 DEF BegunKept
  <2> QED
    BY <1>2, <2>1, <2>2 DEF JoinAndEnd
<1>3. CASE BeginRun
  BY <1>0, <1>3 DEF BeginRun, Ask, BegunKept
<1>4. CASE \/ Plan \/ NextBatch \/ ModelAnswers \/ Unsupported \/ Busy \/ ProviderTimeout \/ Rejected
           \/ WaitEnds \/ StoreDirectPlan
  <2>1. UNCHANGED <<content, begun>>
    BY <1>4 DEF Plan, NextBatch, ModelAnswers, Unsupported, Busy, ProviderTimeout, Rejected, WaitEnds,
       StoreDirectPlan, requestDone
  <2>2. step' \notin {"done", "reconstruct"}
    BY <1>4 DEF Plan, NextBatch, ModelAnswers, Unsupported, Busy, ProviderTimeout, Rejected, WaitEnds,
       StoreDirectPlan, EnsurePlanned, Ask, AfterUnsupported, AfterRetryable, AfterTimeout
  <2> QED
    BY <1>1, <2>1, <2>2
<1>5. CASE JoinAll
  <2>1. validated \in Seq(Batches) /\ JoinAndEnd(validated, "failed") /\ UNCHANGED begun
    BY <1>5 DEF JoinAll, TranscriptionInv, BatchesFollow
  <2>2. PICK v : v = validated
    OBVIOUS
  <2> QED
    BY <1>2, <2>1, <2>2
<1>6. CASE Checkpoint
  <2>1. CASE UNCHANGED content /\ step' \in {"batch", "failed"}
    BY <1>1, <1>6, <2>1 DEF Checkpoint
  <2>2. CASE JoinAndEnd(<<Checked(range, reply)>>, "failed")
    <3>1. step \in {"store", "checkpoint"} /\ UNCHANGED begun
      BY <1>6 DEF Checkpoint
    <3>2. range \in Nat \X Nat /\ Faithful(reply, range)
      BY <3>1 DEF TranscriptionInv, TranscriptionTypeOK, AnswersKept
    <3>3. Checked(range, reply) \in Batches
      BY <3>2, FaithfulBatch
    <3>4. PICK v : v = <<Checked(range, reply)>>
      OBVIOUS
    <3>5. v \in Seq(Batches)
      BY <3>3, <3>4
    <3> QED
      BY <1>2, <2>2, <3>1, <3>4, <3>5
  <2> QED
    BY <1>6, <2>1, <2>2 DEF Checkpoint
<1>7. CASE Reconstruct
  <2>1. UNCHANGED begun
    BY <1>7 DEF Reconstruct
  <2>2. CASE UNCHANGED content /\ step' = "unsettled"
    BY <1>1, <2>1, <2>2
  <2>3. CASE /\ \A r \in DOMAIN stored : Valid(stored[r], r)
             /\ ValidBatches(Reconstructed) /\ Len(Join(Reconstructed)) <= MaxJoinedBytes
             /\ content' = Join(Reconstructed) /\ step' = "done"
    <3>1. /\ doc.pages \in Nat /\ Partition(DOMAIN stored, doc.pages)
          /\ \A r \in DOMAIN stored : stored[r] = Pending \/ Faithful(stored[r], r)
      BY TranscriptionAssumption DEF TranscriptionInv, TranscriptionTypeOK, AnswersKept, JoinInv, PlanKept
    <3>2. Reconstructed \in Seq(Batches)
      BY <2>3, <3>1, ReconstructsAll
    <3>3. content' # <<>>
      BY <2>3, <3>2, JoinNotEmpty
    <3> QED
      BY <2>3, <3>3 DEF BegunKept
  <2> QED
    BY <1>7, <2>2, <2>3 DEF Reconstruct, JoinAndEnd
<1>8. CASE Interrupt
  BY <1>0, <1>8 DEF Interrupt, BegunKept
<1>9. CASE UNCHANGED trVars
  BY <1>0, <1>9 DEF trVars, BegunKept
<1> QED
  BY <1>3, <1>4, <1>5, <1>6, <1>7, <1>8, <1>9 DEF TranscriptionNext, TranscriptionStep

\* When the document was joined, every range is stored with its answer.
LEMMA NothingPending ==
    ASSUME NEW v, Whole(v), Partition(DOMAIN stored, doc.pages), doc.pages \in Nat, NEW r \in DOMAIN stored
    PROVE  stored[r] # Pending /\ \E q \in DOMAIN stored : q[1] = 1
<1>1. /\ v \in Seq(Batches) /\ ValidBatches(v) /\ Kept(v) /\ End(v) = doc.pages
  BY DEF Whole
<1>2. r[1] \in 1..doc.pages /\ r[1] \in r[1]..r[2]
  BY DEF Partition
<1>3. PICK i \in 1..Len(v) : r[1] \in DOMAIN v[i].text
  BY <1>1, <1>2, PageInBatch
<1>4. i \in DOMAIN v /\ 1 \in DOMAIN v /\ r[1] \in v[i].range[1]..v[i].range[2] /\ v[1].range[1] = 1
  BY <1>1, <1>3, BatchFacts
<1>5. v[i].range \in DOMAIN stored /\ stored[v[i].range] # Pending /\ v[1].range \in DOMAIN stored
  BY <1>1, <1>4 DEF Kept
<1>6. v[i].range = r
  BY <1>2, <1>4, <1>5 DEF Partition
<1> QED
  BY <1>4, <1>5, <1>6

\* Put in order, the ranges of a plan follow each other from page 1.
LEMMA OrderedFollow ==
    ASSUME NEW D, NEW P \in Nat, Partition(D, P), \E q \in D : q[1] = 1,
           NEW s \in [1..Cardinality(D) -> D],
           \A i, j \in 1..Cardinality(D) : i < j => s[i][1] < s[j][1],
           NEW i \in 1..Cardinality(D)
    PROVE  s[i][1] = IF i = 1 THEN 1 ELSE s[i - 1][2] + 1
<1> DEFINE C == Cardinality(D)
<1>1. IsFiniteSet(D) /\ C \in Nat
  BY PlanInOrder
<1>2. \A r \in D : r[1] \in Nat /\ r[2] \in Nat /\ 1 <= r[1] /\ r[1] <= r[2] /\ r[2] <= P
  BY DEF Partition
<1>3. \A r, q \in D : r[1] \in q[1]..q[2] => r = q
  BY <1>2 DEF Partition
<1> HIDE DEF C
<1>4. s \in [1..C -> D] /\ i \in 1..C /\ \A j, k \in 1..C : j < k => s[j][1] < s[k][1]
  BY DEF C
<1>5. \A q \in D : \E k \in 1..C : s[k] = q
  <2>1. ASSUME NEW j \in 1..C, NEW k \in 1..C, s[j] = s[k]
        PROVE  j = k
    <3>1. s[j][1] \in Nat
      BY <1>2, <1>4
    <3> QED
      BY <1>1, <1>4, <2>1, <3>1
  <2>2. s \in Injection(1..C, D)
    BY <1>4, <2>1 DEF Injection, IsInjective
  <2>3. Cardinality(1..C) = Cardinality(D)
    <3>1. 1 \in Int /\ C \in Int /\ ~(1 > C)
      BY <1>1, <1>4
    <3>2. Cardinality(1..C) = C - 1 + 1
      BY <3>1, FS_Interval
    <3> QED
      BY <1>1, <3>2 DEF C
  <2>4. s \in Surjection(1..C, D)
    BY <1>1, <2>2, <2>3, FS_Injection
  <2> QED
    BY <2>4 DEF Surjection
<1>6. CASE i = 1
  <2>1. PICK q \in D : q[1] = 1
    OBVIOUS
  <2>2. PICK k \in 1..C : s[k] = q
    BY <1>5
  <2>3. s[1] \in D /\ k \in Nat
    BY <1>1, <1>4, <1>6
  <2>4. k = 1 \/ s[1][1] < 1
    BY <1>4, <1>6, <2>1, <2>2, <2>3
  <2> QED
    BY <1>2, <1>6, <2>1, <2>2, <2>3, <2>4
<1>7. CASE i # 1
  <2> DEFINE p == s[i - 1]
  <2>1. i - 1 \in 1..C /\ i - 1 < i /\ i \in Nat
    BY <1>1, <1>4, <1>7
  <2>2. p \in D /\ s[i] \in D /\ p[1] < s[i][1]
    BY <1>4, <2>1
  <2> HIDE DEF p
  <2>3. p[2] < s[i][1]
    <3>1. ~(s[i][1] \in p[1]..p[2])
      <4>1. s[i][1] \in p[1]..p[2] => s[i] = p
        BY <1>3, <2>2
      <4>2. s[i] # p
        BY <1>2, <2>2
      <4> QED
        BY <4>1, <4>2
    <3> QED
      BY <1>2, <2>2, <3>1
  <2>4. p[2] # P
    BY <1>2, <2>2, <2>3
  <2>5. PICK q \in D : q[1] = p[2] + 1
    BY <2>2, <2>4 DEF Partition
  <2>6. PICK k \in 1..C : s[k] = q
    BY <1>5
  <2>7. k \in Nat /\ p[1] < q[1] /\ q[1] <= s[i][1]
    BY <1>1, <1>2, <2>2, <2>3, <2>5
  <2>8. ~(k < i - 1)
    <3>1. k < i - 1 => s[k][1] < s[i - 1][1]
      BY <1>4, <2>1
    <3> QED
      BY <1>2, <2>2, <2>6, <2>7, <3>1 DEF p
  <2>9. k # i - 1
    BY <1>2, <2>2, <2>6, <2>7 DEF p
  <2>10. ~(i < k)
    <3>1. i < k => s[i][1] < s[k][1]
      BY <1>4
    <3> QED
      BY <1>2, <2>2, <2>6, <2>7, <3>1
  <2>11. k = i
    BY <2>1, <2>7, <2>8, <2>9, <2>10
  <2> QED
    BY <1>7, <2>5, <2>6, <2>11 DEF p
<1> QED
  BY <1>6, <1>7

\* Once the document was joined, the checkpoints in page order are valid batches.
LEMMA ReconstructedValid ==
    ASSUME TranscriptionInv, JoinInv, NEW v, Whole(v)
    PROVE  ValidBatches(Reconstructed)
<1> DEFINE D == DOMAIN stored
           C == Cardinality(D)
           w == Reconstructed
<1>1. /\ doc.pages \in Nat /\ Partition(D, doc.pages) /\ D \subseteq Nat \X Nat
      /\ \A r \in D : stored[r] = Pending \/ Faithful(stored[r], r)
  BY TranscriptionAssumption DEF TranscriptionInv, TranscriptionTypeOK, AnswersKept, JoinInv, PlanKept
<1>2. D # {}
  <2>1. 1 \in DOMAIN v
    BY BatchFacts DEF Whole
  <2> QED
    BY <2>1 DEF Whole, Kept
<1>3. \A r \in D : Faithful(stored[r], r) /\ \E q \in D : q[1] = 1
  BY <1>1, NothingPending
<1>4. IsFiniteSet(D) /\ C \in Nat
      /\ \E s \in [1..C -> D] : \A i, j \in DOMAIN s : i < j => s[i][1] < s[j][1]
  <2> HIDE DEF D
  <2> QED
    BY <1>1, PlanInOrder
<1>5. InOrder \in [1..C -> D] /\ \A i, j \in DOMAIN InOrder : i < j => InOrder[i][1] < InOrder[j][1]
  BY <1>4, Zenon DEF InOrder
<1>6. w = [i \in 1..C |-> Checked(InOrder[i], stored[InOrder[i]])]
  BY <1>5 DEF Reconstructed
<1> HIDE DEF w
<1>7. C # 0
  BY <1>2, <1>4, FS_EmptySet
<1> HIDE DEF D
<1>8. ASSUME NEW i \in 1..C
      PROVE  /\ w[i].range = InOrder[i] /\ w[i].text = stored[InOrder[i]].text
             /\ InOrder[i] \in D
    BY <1>5, <1>6 DEF Checked
<1>9. ASSUME NEW i \in 1..C
      PROVE  InOrder[i][1] = IF i = 1 THEN 1 ELSE InOrder[i - 1][2] + 1
  <2> DEFINE s == InOrder
  <2>1. s \in [1..C -> D] /\ (\A j, k \in 1..C : j < k => s[j][1] < s[k][1]) /\ \E q \in D : q[1] = 1
    BY <1>2, <1>3, <1>5
  <2> HIDE DEF s
  <2>2. s[i][1] = IF i = 1 THEN 1 ELSE s[i - 1][2] + 1
    BY <1>1, <2>1, OrderedFollow
  <2> QED
    BY <2>2 DEF s
<1>10. ASSUME NEW i \in 1..C
       PROVE  /\ ValidRange(w[i].range)
              /\ w[i].range[1] = IF i = 1 THEN 1 ELSE w[i - 1].range[2] + 1
              /\ DOMAIN w[i].text = w[i].range[1]..w[i].range[2]
              /\ ValidTexts(w[i].text)
  <2>1. Faithful(stored[InOrder[i]], InOrder[i])
    BY <1>3, <1>8
  <2>2. i # 1 => i - 1 \in 1..C
    BY <1>4
  <2>3. w[i].range[1] = IF i = 1 THEN 1 ELSE w[i - 1].range[2] + 1
    BY <1>8, <1>9, <2>2
  <2>4. ValidRange(w[i].range) /\ DOMAIN w[i].text = w[i].range[1]..w[i].range[2] /\ ValidTexts(w[i].text)
    BY <1>8, <2>1 DEF Faithful
  <2> QED
    BY <2>3, <2>4
<1>11. DOMAIN w = 1..C /\ w # <<>>
  <2>1. DOMAIN w = 1..C /\ 1 \in DOMAIN w
    BY <1>4, <1>6, <1>7
  <2>2. DOMAIN <<>> = {}
    OBVIOUS
  <2>3. w # <<>>
    BY <2>1, <2>2, Zenon
  <2> QED
    BY <2>1, <2>3
<1>12. ValidBatches(w)
  BY <1>10, <1>11 DEF ValidBatches
<1> QED
  BY <1>12 DEF w

\* A recorded success whose stored answers can be read again is resumed.
ResumedUnlessLonger ==
    [][Reconstruct /\ (\A r \in DOMAIN stored : RawBytes(stored[r]) <= MaxRawBytes)
         => step' = "done" /\ content' = content]_trVars

\* A job whose success finalization was recorded is brought to its end from the
\* checkpoints alone, with the content it had: no checkpoint is missing, out of order
\* or too long together.  The one thing that stops it is what the run
\* checkpoint_reread shows, an answer that escaping made longer than
\* maxRawBatchBytes.
THEOREM ResumeFailsOnlyByLength == TranscriptionSpec => ResumedUnlessLonger
<1>1. TranscriptionInv /\ JoinInv /\ BegunKept /\ [TranscriptionNext]_trVars => BegunKept'
  BY BegunKeptNext
<1>2. TranscriptionInit => BegunKept
  BY DEF TranscriptionInit, BegunKept
<1>3. TranscriptionSpec => []BegunKept
  BY <1>1, <1>2, TranscriptionSafety, JoinSafety, PTL DEF TranscriptionSpec
<1>4. ASSUME TranscriptionInv, JoinInv, BegunKept, [TranscriptionNext]_trVars, Reconstruct,
             \A r \in DOMAIN stored : RawBytes(stored[r]) <= MaxRawBytes
      PROVE  step' = "done" /\ content' = content
  <2>1. content # <<>> /\ Len(content) <= MaxJoinedBytes
    BY <1>4 DEF BegunKept, Reconstruct
  <2>2. PICK v : Whole(v) /\ content = Join(v)
    BY <1>4, <2>1 DEF JoinInv, ContentKept
  <2>3. /\ doc.pages \in Nat /\ Partition(DOMAIN stored, doc.pages)
        /\ \A r \in DOMAIN stored : stored[r] = Pending \/ Faithful(stored[r], r)
    BY <1>4, TranscriptionAssumption
       DEF TranscriptionInv, TranscriptionTypeOK, AnswersKept, JoinInv, PlanKept
  <2>4. ASSUME NEW r \in DOMAIN stored
        PROVE  Valid(stored[r], r)
    <3>1. Faithful(stored[r], r)
      BY <2>2, <2>3, NothingPending
    <3>2. DOMAIN stored[r].text = r[1]..r[2] /\ stored[r].defect = "none"
      BY <3>1 DEF Faithful
    <3> QED
      BY <1>4, <3>1, <3>2 DEF Faithful, Valid, ValidEncoding, StrictFields, NotMeta
  <2>5. ValidBatches(Reconstructed)
    BY <1>4, <2>2, ReconstructedValid
  <2>6. Whole(Reconstructed)
    BY <2>3, <2>4, <2>5, ReconstructsAll DEF Whole
  <2>7. Join(Reconstructed) = content
    <3>1. PICK w : w = Reconstructed
      OBVIOUS
    <3> QED
      BY <2>2, <2>3, <2>6, <3>1, SameJoin
  <2>8. JoinAndEnd(Reconstructed, "unsettled")
    BY <1>4, <2>4 DEF Reconstruct
  <2> QED
    BY <2>1, <2>5, <2>7, <2>8 DEF JoinAndEnd
<1> DEFINE Resumed == Reconstruct /\ (\A r \in DOMAIN stored : RawBytes(stored[r]) <= MaxRawBytes)
                        => step' = "done" /\ content' = content
<1>5. TranscriptionInv /\ JoinInv /\ BegunKept /\ [TranscriptionNext]_trVars => [Resumed]_trVars
  BY <1>4
<1> QED
  BY <1>3, <1>5, TranscriptionSafety, JoinSafety, PTL DEF TranscriptionSpec, ResumedUnlessLonger

\* A run falls back to images once, from a PDF request, and its PDF is not sent again,
\* whatever the provider answers and however often it is asked.
THEOREM FallbackOnce == TranscriptionSpec => FallbackIsFinal
<1> DEFINE Final == /\ ProviderTimeout /\ direct => step' = "plan"
                    /\ step' = "plan" => step = "claimed" \/ (step = "request" /\ direct)
                    /\ step' = "request" /\ direct' => step = "claimed" \/ (step = "wait" /\ direct)
<1>1. ASSUME TranscriptionNext PROVE Final
  <2>1. ProviderTimeout /\ direct => step' = "plan"
    BY DEF ProviderTimeout, AfterTimeout
  <2> USE DEF requestDone, requestVars, Ask, EnsurePlanned, JoinAndEnd
  <2>2. CASE BeginRun \/ Plan \/ NextBatch \/ JoinAll \/ Interrupt
    BY <2>1, <2>2 DEF BeginRun, Plan, NextBatch, JoinAll, Interrupt
  <2>3. CASE ModelAnswers
    <3>1. step' \in {"store", "failed"}
      BY <2>3 DEF ModelAnswers
    <3> QED
      BY <2>1, <3>1
  <2>4. CASE Unsupported \/ Busy \/ ProviderTimeout \/ Rejected
    <3>1. /\ step = "request" /\ step' # "request"
          /\ step' = "plan" => direct
      BY <2>4 DEF Unsupported, Busy, ProviderTimeout, Rejected, AfterUnsupported, AfterRetryable, AfterTimeout
    <3> QED
      BY <2>1, <3>1
  <2>5. CASE WaitEnds
    BY <2>1, <2>5 DEF WaitEnds
  <2>6. CASE StoreDirectPlan \/ Checkpoint \/ Reconstruct
    BY <2>1, <2>6 DEF StoreDirectPlan, Checkpoint, Reconstruct
  <2> QED
    BY <1>1, <2>2, <2>3, <2>4, <2>5, <2>6 DEF TranscriptionNext, TranscriptionStep
<1>2. [TranscriptionNext]_trVars => [Final]_trVars
  BY <1>1
<1> QED
  BY <1>2, PTL DEF TranscriptionSpec, FallbackIsFinal
=============================================================================
