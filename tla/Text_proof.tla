----------------------------- MODULE Text_proof -----------------------------
(***************************************************************************)
(* Proofs about texts of any length, over the characters of MCText: the    *)
(* prefix tests of the in-memory tree speak of whole segments, what a      *)
(* listing cuts out is the next segment, keys are canonical; what is       *)
(* escaped into a document is read back; a value that a getter returned    *)
(* goes back out as the same value; names are made of the words of their   *)
(* text, and naming a name again changes nothing.                          *)
(***************************************************************************)
EXTENDS MCText, WellFoundedInduction, TLAPS

-----------------------------------------------------------------------------
(***************************************************************************)
(* Induction and recursion over a text's positions.  Sets and functions    *)
(* stand for the predicates and the recursive definitions.                 *)
(***************************************************************************)

\* A set of naturals has a least element.
LEMMA NatHasLeast ==
  ASSUME NEW S \in SUBSET Nat, S # {}
  PROVE  \E n \in S : \A m \in S : n <= m
<1> DEFINE R == OpToRel(<, Nat)
<1>1. IsWellFoundedOn(R, Nat)
  BY NatLessThanWellFounded
<1> HIDE DEF R
<1>2. PICK x \in S : \A y \in S : ~(<<y, x>> \in R)
  BY <1>1, WFMin, Zenon
<1> USE DEF R
<1>3. \A y \in S : ~(y < x)
  BY <1>2 DEF OpToRel
<1> QED
  BY <1>3

\* Hence induction up to n.
LEMMA Induction ==
  ASSUME NEW n \in Nat, NEW T, 0 \in T, \A k \in 0..n - 1 : k \in T => k + 1 \in T
  PROVE  \A k \in 0..n : k \in T
<1> DEFINE S == {k \in 0..n : k \notin T}
<1>1. SUFFICES ASSUME S # {} PROVE FALSE
  OBVIOUS
<1>2. PICK m \in S : \A k \in S : m <= k
  <2>1. S \in SUBSET Nat
    OBVIOUS
  <2> HIDE DEF S
  <2> QED
    BY <1>1, <2>1, NatHasLeast
<1>3. m # 0 /\ m - 1 \in 0..n - 1 /\ m - 1 \notin S
  BY <1>2
<1>4. m - 1 \in T
  BY <1>3
<1>5. (m - 1) + 1 \in T
  BY <1>3, <1>4
<1> QED
  BY <1>2, <1>5

\* g starts with c and goes on by d.
Unfolds(g, n, V, c, d) ==
  /\ g \in [0..n -> V]
  /\ g[0] = c
  /\ \A i \in 1..n : g[i] = d[<<g[i - 1], i>>]

\* A function can be defined by what it is at zero and how it goes on from there.
LEMMA Recursion ==
  ASSUME NEW n \in Nat, NEW V, NEW c \in V, NEW d,
         \A i \in 1..n, x \in V : d[<<x, i>>] \in V
  PROVE  \E g : Unfolds(g, n, V, c, d)
<1> DEFINE T == {k \in Nat : \E g : Unfolds(g, k, V, c, d)}
<1>1. 0 \in T
  <2> DEFINE g == [i \in 0..0 |-> c]
  <2>1. g \in [0..0 -> V] /\ g[0] = c /\ 1..0 = {}
    OBVIOUS
  <2> HIDE DEF g
  <2>2. Unfolds(g, 0, V, c, d)
    BY <2>1 DEF Unfolds
  <2> QED
    BY <2>2
<1>2. ASSUME NEW k \in 0..n - 1, k \in T PROVE k + 1 \in T
  <2>1. PICK g : Unfolds(g, k, V, c, d)
    BY <1>2
  <2> DEFINE next == d[<<g[k], k + 1>>]
             h    == [i \in 0..k + 1 |-> IF i = k + 1 THEN next ELSE g[i]]
  <2>2. next \in V
    <3>1. g[k] \in V /\ k + 1 \in 1..n
      BY <2>1 DEF Unfolds
    <3> QED
      BY <3>1
  <2> HIDE DEF next
  <2>3. h \in [0..k + 1 -> V] /\ h[0] = c
    BY <2>1, <2>2 DEF Unfolds
  <2>4. \A i \in 0..k : h[i] = g[i]
    OBVIOUS
  <2>5. h[k + 1] = next
    OBVIOUS
  <2>6. ASSUME NEW i \in 1..k + 1 PROVE h[i] = d[<<h[i - 1], i>>]
    <3>1. h[i - 1] = g[i - 1]
      BY <2>4
    <3>2. CASE i = k + 1
      <4>1. i - 1 = k /\ h[i] = next /\ g[i - 1] = g[k]
        BY <2>5, <3>2
      <4> HIDE DEF h
      <4> QED
        BY <3>1, <3>2, <4>1 DEF next
    <3>3. CASE i \in 1..k
      BY <2>1, <2>4, <3>1, <3>3 DEF Unfolds
    <3> QED
      BY <3>2, <3>3
  <2> HIDE DEF h
  <2>7. Unfolds(h, k + 1, V, c, d)
    BY <2>3, <2>6 DEF Unfolds
  <2> QED
    BY <2>7
<1> HIDE DEF T
<1>3. n \in T
  BY <1>1, <1>2, Induction
<1> QED
  BY <1>3 DEF T

\* Two functions that start alike and go on alike end alike.
LEMMA SameEnd ==
  ASSUME NEW n \in Nat, NEW f, NEW g, f[0] = g[0],
         \A i \in 1..n : f[i - 1] = g[i - 1] => f[i] = g[i]
  PROVE  f[n] = g[n]
<1> DEFINE T == {k \in Nat : f[k] = g[k]}
<1>1. 0 \in T
  OBVIOUS
<1>2. ASSUME NEW k \in 0..n - 1, k \in T PROVE k + 1 \in T
  <2>1. k + 1 \in 1..n /\ (k + 1) - 1 = k /\ f[k] = g[k]
    BY <1>2
  <2>2. f[k + 1] = g[k + 1]
    BY <2>1
  <2> QED
    BY <2>2
<1> HIDE DEF T
<1>3. n \in T
  BY <1>1, <1>2, Induction
<1> QED
  BY <1>3 DEF T

\* Induction over sequences, T being those that satisfy something.
LEMMA SeqInduction ==
  ASSUME NEW S, NEW T, <<>> \in T,
         \A u \in Seq(S), x \in S : u \in T => Append(u, x) \in T,
         NEW v \in Seq(S)
  PROVE  v \in T
<1> DEFINE n == Len(v)
           K == {k \in Nat : k <= n => SubSeq(v, 1, k) \in T}
<1>0. n \in Nat /\ v \in Seq(S)
  OBVIOUS
<1>1. 0 \in K
  <2>1. SubSeq(v, 1, 0) = <<>>
    BY <1>0
  <2> QED
    BY <2>1
<1>2. ASSUME NEW k \in 0..n - 1, k \in K PROVE k + 1 \in K
  <2>1. SubSeq(v, 1, k) \in T /\ SubSeq(v, 1, k) \in Seq(S) /\ v[k + 1] \in S
    BY <1>0, <1>2
  <2>2. SubSeq(v, 1, k + 1) = Append(SubSeq(v, 1, k), v[k + 1])
    BY <1>0
  <2>3. SubSeq(v, 1, k + 1) \in T
    BY <2>1, <2>2
  <2> QED
    BY <2>3
<1>3. SubSeq(v, 1, n) = v
  BY <1>0
<1> HIDE DEF K, n
<1>4. n \in K
  <2>1. n \in Nat /\ \A k \in 0..n - 1 : k \in K => k + 1 \in K
    BY <1>0, <1>2
  <2>2. \A k \in 0..n : k \in K
    BY <1>1, <2>1, Induction, Zenon
  <2> QED
    BY <2>1, <2>2
<1>5. n <= n
  BY <1>0
<1>6. SubSeq(v, 1, n) \in T
  BY <1>4, <1>5 DEF K
<1> QED
  BY <1>3, <1>6

-----------------------------------------------------------------------------
(***************************************************************************)
(* strings.Split, character by character.                                  *)
(***************************************************************************)

Splittings == Seq(Text) \ {<<>>}

\* The segments so far, and one more character.
Grown(segs, ch) ==
  IF ch = Sep THEN Append(segs, <<>>)
  ELSE [segs EXCEPT ![Len(segs)] = Append(@, ch)]

Splits(u, f) ==
  /\ f \in [0..Len(u) -> Splittings]
  /\ f[0] = << <<>> >>
  /\ \A i \in 1..Len(u) : f[i] = Grown(f[i - 1], u[i])

\* There is always a last segment to extend.
LEMMA GrownType ==
  ASSUME NEW segs \in Splittings, NEW ch \in Nat
  PROVE  Grown(segs, ch) \in Splittings
<1>1. segs \in Seq(Text) /\ Len(segs) \in 1..Len(segs) /\ segs[Len(segs)] \in Text
  BY DEF Splittings
<1>2. Append(segs[Len(segs)], ch) \in Text
  BY <1>1 DEF Text
<1>3. <<>> \in Text
  BY DEF Text
<1>4. Append(segs, <<>>) \in Splittings
  BY <1>1, <1>3 DEF Splittings
<1>5. [segs EXCEPT ![Len(segs)] = Append(@, ch)] \in Splittings
  <2> DEFINE w == Append(segs[Len(segs)], ch)
             s == [segs EXCEPT ![Len(segs)] = w]
  <2> HIDE DEF w
  <2>1. s \in Seq(Text) /\ Len(s) = Len(segs)
    BY <1>1, <1>2 DEF w
  <2>2. s # <<>>
    BY <1>1, <2>1
  <2> QED
    BY <2>1, <2>2 DEF w, Splittings
<1> QED
  BY <1>4, <1>5 DEF Grown

\* Segments is the end of the splitting.
LEMMA SegmentsSplit ==
  ASSUME NEW u \in Text
  PROVE  \E f : Splits(u, f) /\ Segments(u) = f[Len(u)]
<1> DEFINE n     == Len(u)
           none  == << <<>> >>
           Is(f) == f = [i \in 0..n |-> IF i = 0 THEN none ELSE Grown(f[i - 1], u[i])]
           d     == [x \in Splittings \X (1..n) |-> Grown(x[1], u[x[2]])]
<1>0. n \in Nat /\ \A i \in 1..n : u[i] \in Nat
  BY DEF Text
<1>1. none \in Splittings
  BY DEF Splittings, Text
<1>2. \A i \in 1..n, segs \in Splittings : d[<<segs, i>>] = Grown(segs, u[i])
  OBVIOUS
<1>3. \A i \in 1..n, segs \in Splittings : d[<<segs, i>>] \in Splittings
  BY <1>0, <1>2, GrownType
<1> HIDE DEF n, d, none
<1>4. PICK g : Unfolds(g, n, Splittings, none, d)
  BY <1>0, <1>1, <1>3, Recursion
<1>5. \A i \in 1..n : g[i] = Grown(g[i - 1], u[i])
  <2> SUFFICES ASSUME NEW i \in 1..n PROVE g[i] = Grown(g[i - 1], u[i])
    OBVIOUS
  <2>1. i - 1 \in 0..n
    BY <1>0
  <2>2. g[i - 1] \in Splittings
    BY <1>4, <2>1 DEF Unfolds
  <2> QED
    BY <1>2, <1>4, <2>2 DEF Unfolds
<1>6. Is(g)
  <2>1. ASSUME NEW i \in 0..n
        PROVE  g[i] = IF i = 0 THEN none ELSE Grown(g[i - 1], u[i])
    <3>1. i # 0 => i \in 1..n
      BY <1>0
    <3> QED
      BY <1>4, <1>5, <3>1 DEF Unfolds
  <2>2. g = [i \in 0..n |-> g[i]]
    BY <1>4 DEF Unfolds
  <2> QED
    BY <2>1, <2>2, Zenon
<1> DEFINE split == CHOOSE f : Is(f)
<1>7. Is(split)
  <2> HIDE DEF Is
  <2> QED
    BY <1>6
<1>8. Segments(u) = split[n]
  BY DEF Segments, Grown, n, none
<1> HIDE DEF split
<1>9. split[n] = g[n]
  <2>1. split[0] = g[0]
    BY <1>0, <1>4, <1>7 DEF Unfolds
  <2>2. ASSUME NEW i \in 1..n, split[i - 1] = g[i - 1] PROVE split[i] = g[i]
    BY <1>0, <1>5, <1>7, <2>2
  <2> HIDE DEF Is
  <2> QED
    BY <1>0, <2>1, <2>2, SameEnd
<1> QED
  BY <1>4, <1>5, <1>8, <1>9 DEF Splits, Unfolds, n, none

\* There is one splitting only.
LEMMA SplitsEnd ==
  ASSUME NEW u \in Text, NEW f, Splits(u, f)
  PROVE  Segments(u) = f[Len(u)]
<1>1. PICK g : Splits(u, g) /\ Segments(u) = g[Len(u)]
  BY SegmentsSplit
<1>2. Len(u) \in Nat
  BY DEF Text
<1>3. f[0] = g[0] /\ \A i \in 1..Len(u) : f[i - 1] = g[i - 1] => f[i] = g[i]
  BY <1>1 DEF Splits
<1> QED
  BY <1>1, <1>2, <1>3, SameEnd

\* So the segments of a text grow with it.
LEMMA SegmentsGrow ==
  /\ Segments(<<>>) = << <<>> >>
  /\ \A u \in Text, ch \in Nat : Segments(Append(u, ch)) = Grown(Segments(u), ch)
  /\ \A u \in Text : Segments(u) \in Splittings
<1>1. <<>> \in Text /\ Len(<<>>) = 0
  BY DEF Text
<1>2. Segments(<<>>) = << <<>> >>
  BY <1>1, SegmentsSplit DEF Splits
<1>3. ASSUME NEW u \in Text PROVE Segments(u) \in Splittings
  <2>1. PICK f : Splits(u, f) /\ Segments(u) = f[Len(u)]
    BY SegmentsSplit
  <2>2. Len(u) \in 0..Len(u)
    BY DEF Text
  <2> QED
    BY <2>1, <2>2 DEF Splits
<1>4. ASSUME NEW u \in Text, NEW ch \in Nat
      PROVE  Segments(Append(u, ch)) = Grown(Segments(u), ch)
  <2> DEFINE v == Append(u, ch)
             n == Len(u)
  <2>1. v \in Text /\ n \in Nat /\ Len(v) = n + 1 /\ v[n + 1] = ch /\ \A i \in 1..n : v[i] = u[i]
    BY DEF Text
  <2> HIDE DEF v
  <2>2. PICK f : Splits(u, f) /\ Segments(u) = f[n]
    BY SegmentsSplit
  <2> HIDE DEF n
  <2> DEFINE g == [i \in 0..n + 1 |-> IF i = n + 1 THEN Grown(f[n], ch) ELSE f[i]]
  <2>3. Grown(f[n], ch) \in Splittings
    <3>1. f[n] \in Splittings
      BY <1>3, <2>2
    <3> QED
      BY <3>1, GrownType
  <2>4. g \in [0..n + 1 -> Splittings]
    BY <2>2, <2>3 DEF Splits, n
  <2>5. g[n + 1] = Grown(f[n], ch) /\ \A i \in 0..n : g[i] = f[i]
    BY <2>1
  <2> HIDE DEF g
  <2>6. \A i \in 1..n : f[i] = Grown(f[i - 1], u[i])
    BY <2>2 DEF Splits, n
  <2>7. ASSUME NEW i \in 1..n + 1 PROVE g[i] = Grown(g[i - 1], v[i])
    <3>1. CASE i = n + 1
      <4>1. i - 1 = n /\ n \in 0..n
        BY <2>1, <3>1
      <4> QED
        BY <2>1, <2>5, <3>1, <4>1
    <3>2. CASE i \in 1..n
      <4>1. i \in 0..n /\ i - 1 \in 0..n
        BY <2>1, <3>2
      <4> QED
        BY <2>1, <2>5, <2>6, <3>2, <4>1
    <3> QED
      BY <2>1, <3>1, <3>2
  <2>8. g[0] = << <<>> >>
    BY <2>1, <2>2, <2>5 DEF Splits
  <2>9. Splits(v, g)
    BY <2>1, <2>4, <2>7, <2>8 DEF Splits
  <2> QED
    BY <2>1, <2>2, <2>5, <2>9, SplitsEnd DEF v
<1> QED
  BY <1>2, <1>3, <1>4

\* A text without separators.
Plain(w) == w \in Text /\ \A i \in 1..Len(w) : w[i] # Sep

\* It is one segment.
LEMMA SegmentsPlain ==
  ASSUME NEW w, Plain(w)
  PROVE  Segments(w) = <<w>>
<1> DEFINE T == {u \in Text : Plain(u) => Segments(u) = <<u>>}
<1>1. <<>> \in T
  BY SegmentsGrow DEF Text
<1>2. ASSUME NEW u \in Text, NEW ch \in Nat, u \in T PROVE Append(u, ch) \in T
  <2> DEFINE v == Append(u, ch)
  <2>1. v \in Text /\ DOMAIN u = 1..Len(u) /\ DOMAIN v = 1..Len(u) + 1 /\ Len(u) \in Nat
        /\ v[Len(u) + 1] = ch /\ \A i \in 1..Len(u) : v[i] = u[i]
    BY DEF Text
  <2> HIDE DEF v
  <2>2. Plain(v) => Plain(u) /\ ch # Sep
    BY <2>1 DEF Plain
  <2>3. Segments(u) = <<u>> /\ ch # Sep => Segments(v) = <<v>>
    <3>1. SUFFICES ASSUME Segments(u) = <<u>>, ch # Sep PROVE Segments(v) = <<v>>
      OBVIOUS
    <3>2. Segments(v) = Grown(<<u>>, ch)
      BY <3>1, SegmentsGrow DEF v
    <3>3. Grown(<<u>>, ch) = [<<u>> EXCEPT ![1] = v]
      BY <3>1 DEF Grown, v
    <3>4. [<<u>> EXCEPT ![1] = v] = <<v>>
      OBVIOUS
    <3> QED
      BY <3>2, <3>3, <3>4
  <2>4. Plain(v) => Segments(v) = <<v>>
    BY <1>2, <2>2, <2>3
  <2>5. v \in T
    BY <2>1, <2>4
  <2> QED
    BY <2>5 DEF v
<1> HIDE DEF T
<1>3. w \in T
  BY <1>1, <1>2, SeqInduction DEF Plain, Text
<1> QED
  BY <1>3 DEF T

\* A sequence with one element replaced.
LEMMA ReplaceOne ==
  ASSUME NEW S, NEW s \in Seq(S), NEW k \in 1..Len(s), NEW w \in S
  PROVE  LET t == [s EXCEPT ![k] = w]
         IN  /\ t \in Seq(S) /\ Len(t) = Len(s) /\ t[k] = w
             /\ \A i \in 1..Len(s) : i # k => t[i] = s[i]
OBVIOUS

\* The last element of a concatenation is that of its second part.
LEMMA ReplaceLast ==
  ASSUME NEW S, NEW a \in Seq(S), NEW b \in Seq(S), NEW w \in S, Len(b) >= 1
  PROVE  [a \o b EXCEPT ![Len(a) + Len(b)] = w] = a \o [b EXCEPT ![Len(b)] = w]
<1> DEFINE m  == Len(a) + Len(b)
           ab == a \o b
           l  == [ab EXCEPT ![m] = w]
           c  == [b EXCEPT ![Len(b)] = w]
           r  == a \o c
<1>1. ab \in Seq(S) /\ Len(ab) = m /\ m \in 1..m /\ Len(a) \in Nat /\ Len(b) \in 1..Len(b)
  OBVIOUS
<1>2. \A i \in 1..m : ab[i] = IF i <= Len(a) THEN a[i] ELSE b[i - Len(a)]
  OBVIOUS
<1> HIDE DEF ab
<1>3. l \in Seq(S) /\ Len(l) = m /\ l[m] = w /\ \A i \in 1..m : i # m => l[i] = ab[i]
  <2> HIDE DEF m
  <2> QED
    BY <1>1, ReplaceOne
<1>4. c \in Seq(S) /\ Len(c) = Len(b) /\ c[Len(b)] = w
      /\ \A i \in 1..Len(b) : i # Len(b) => c[i] = b[i]
  BY <1>1, ReplaceOne
<1> HIDE DEF l, c
<1>5. r \in Seq(S) /\ Len(r) = m
  BY <1>4
<1>6. \A i \in 1..m : r[i] = IF i <= Len(a) THEN a[i] ELSE c[i - Len(a)]
  BY <1>4
<1> HIDE DEF r
<1>7. ASSUME NEW i \in 1..m PROVE l[i] = r[i]
  <2>1. CASE i <= Len(a)
    <3>1. i # m
      BY <1>1, <2>1
    <3> QED
      BY <1>2, <1>3, <1>6, <2>1, <3>1
  <2>2. CASE i = m
    <3>1. ~(i <= Len(a)) /\ i - Len(a) = Len(b)
      BY <1>1, <2>2
    <3> QED
      BY <1>3, <1>4, <1>6, <2>2, <3>1
  <2>3. CASE ~(i <= Len(a)) /\ i # m
    <3>1. i - Len(a) \in 1..Len(b) /\ i - Len(a) # Len(b)
      BY <1>1, <2>3
    <3>2. c[i - Len(a)] = b[i - Len(a)]
      BY <1>4, <3>1
    <3> QED
      BY <1>2, <1>3, <1>6, <2>3, <3>2
  <2> QED
    BY <2>1, <2>2, <2>3
<1>8. l = r
  BY <1>3, <1>5, <1>7
<1> QED
  BY <1>8 DEF l, r, c, ab

\* A separator splits a text in two.
LEMMA SegmentsConcat ==
  ASSUME NEW u \in Text, NEW v \in Text
  PROVE  Segments(u \o <<Sep>> \o v) = Segments(u) \o Segments(v)
<1> DEFINE su == Segments(u)
           T  == {x \in Text : Segments(u \o <<Sep>> \o x) = su \o Segments(x)}
<1>0. su \in Splittings /\ Sep \in Nat
  BY SegmentsGrow DEF Sep
<1>1. <<>> \in T
  <2>1. u \o <<Sep>> \o <<>> = Append(u, Sep)
    BY DEF Text
  <2>2. Segments(Append(u, Sep)) = Append(su, <<>>)
    BY <1>0, SegmentsGrow DEF Grown
  <2>3. Append(su, <<>>) = su \o << <<>> >>
    BY <1>0 DEF Splittings
  <2> HIDE DEF su
  <2>4. Segments(u \o <<Sep>> \o <<>>) = su \o Segments(<<>>)
    BY <2>1, <2>2, <2>3, SegmentsGrow
  <2>5. <<>> \in Text
    BY DEF Text
  <2> QED
    BY <2>4, <2>5, Zenon DEF su
<1>2. ASSUME NEW x \in Text, NEW ch \in Nat, x \in T PROVE Append(x, ch) \in T
  <2> DEFINE sx == Segments(x)
             ux == u \o <<Sep>> \o x
  <2>1. ux \in Text /\ Append(x, ch) \in Text
    BY <1>0 DEF Text
  <2>2. u \o <<Sep>> \o Append(x, ch) = Append(ux, ch)
    BY <1>0 DEF Text
  <2>3. sx \in Splittings /\ Segments(Append(x, ch)) = Grown(sx, ch)
    BY SegmentsGrow
  <2>4. Segments(Append(ux, ch)) = Grown(su \o sx, ch)
    <3> HIDE DEF ux
    <3>1. Segments(ux) = su \o sx
      BY <1>2 DEF ux
    <3>2. Segments(Append(ux, ch)) = Grown(Segments(ux), ch)
      BY <2>1, SegmentsGrow
    <3> QED
      BY <3>1, <3>2
  <2> HIDE DEF su, sx
  <2>5. Grown(su \o sx, ch) = su \o Grown(sx, ch)
    <3>1. su \in Seq(Text) /\ sx \in Seq(Text) /\ Len(sx) >= 1 /\ Len(su) \in Nat
          /\ Len(su \o sx) = Len(su) + Len(sx) /\ Len(sx) \in Nat
      BY <1>0, <2>3 DEF Splittings
    <3>2. CASE ch = Sep
      BY <3>1, <3>2 DEF Grown
    <3>3. CASE ch # Sep
      <4> DEFINE w == Append(sx[Len(sx)], ch)
                 m == Len(su) + Len(sx)
      <4>1. (su \o sx)[m] = sx[Len(sx)]
        BY <3>1
      <4>2. Grown(su \o sx, ch) = [su \o sx EXCEPT ![m] = w]
        BY <3>1, <3>3, <4>1 DEF Grown
      <4>3. Grown(sx, ch) = [sx EXCEPT ![Len(sx)] = w]
        BY <3>3 DEF Grown
      <4>4. w \in Text
        BY <3>1 DEF Text
      <4> HIDE DEF w
      <4>5. [su \o sx EXCEPT ![m] = w] = su \o [sx EXCEPT ![Len(sx)] = w]
        BY <3>1, <4>4, ReplaceLast
      <4> QED
        BY <4>2, <4>3, <4>5
    <3> QED
      BY <3>2, <3>3
  <2> QED
    BY <2>1, <2>2, <2>3, <2>4, <2>5
<1> HIDE DEF T
<1>3. v \in T
  BY <1>1, <1>2, SeqInduction DEF Text
<1> QED
  BY <1>3 DEF T

-----------------------------------------------------------------------------
(***************************************************************************)
(* strings.Join, word by word, which undoes the splitting.                 *)
(***************************************************************************)

\* The text so far and the i-th word.
Longer(text, words, sep, i) == IF i = 1 THEN words[1] ELSE text \o sep \o words[i]

Joins(words, sep, f) ==
  /\ f \in [0..Len(words) -> Text]
  /\ f[0] = <<>>
  /\ \A i \in 1..Len(words) : f[i] = Longer(f[i - 1], words, sep, i)

\* Join is the end of the joining.
LEMMA JoinJoins ==
  ASSUME NEW words \in Seq(Text), NEW sep \in Text
  PROVE  \E f : Joins(words, sep, f) /\ Join(words, sep) = f[Len(words)]
<1> DEFINE n     == Len(words)
           none  == <<>>
           Is(f) == f = [i \in 0..n |-> IF i = 0 THEN none ELSE Longer(f[i - 1], words, sep, i)]
           d     == [x \in Text \X (1..n) |-> Longer(x[1], words, sep, x[2])]
<1>0. n \in Nat /\ \A i \in 1..n : words[i] \in Text
  OBVIOUS
<1>1. none \in Text
  BY DEF Text
<1>2. \A i \in 1..n, text \in Text : d[<<text, i>>] = Longer(text, words, sep, i)
  OBVIOUS
<1>3. \A i \in 1..n, text \in Text : d[<<text, i>>] \in Text
  <2> SUFFICES ASSUME NEW i \in 1..n, NEW text \in Text PROVE Longer(text, words, sep, i) \in Text
    BY <1>2
  <2>1. text \o sep \o words[i] \in Text
    BY <1>0 DEF Text
  <2>2. i = 1 => words[1] \in Text
    BY <1>0
  <2> QED
    BY <2>1, <2>2 DEF Longer
<1> HIDE DEF n, d, none
<1>4. PICK g : Unfolds(g, n, Text, none, d)
  BY <1>0, <1>1, <1>3, Recursion
<1>5. \A i \in 1..n : g[i] = Longer(g[i - 1], words, sep, i)
  <2> SUFFICES ASSUME NEW i \in 1..n PROVE g[i] = Longer(g[i - 1], words, sep, i)
    OBVIOUS
  <2>1. i - 1 \in 0..n
    BY <1>0
  <2>2. g[i - 1] \in Text
    BY <1>4, <2>1 DEF Unfolds
  <2> QED
    BY <1>2, <1>4, <2>2 DEF Unfolds
<1>6. Is(g)
  <2>1. ASSUME NEW i \in 0..n
        PROVE  g[i] = IF i = 0 THEN none ELSE Longer(g[i - 1], words, sep, i)
    <3>1. i # 0 => i \in 1..n
      BY <1>0
    <3> QED
      BY <1>4, <1>5, <3>1 DEF Unfolds
  <2>2. g = [i \in 0..n |-> g[i]]
    BY <1>4 DEF Unfolds
  <2> QED
    BY <2>1, <2>2, Zenon
<1> DEFINE text == CHOOSE f : Is(f)
<1>7. Is(text)
  <2> HIDE DEF Is
  <2> QED
    BY <1>6
<1>8. Join(words, sep) = text[n]
  BY DEF Join, Longer, n, none
<1> HIDE DEF text
<1>9. text[n] = g[n]
  <2>1. text[0] = g[0]
    BY <1>0, <1>4, <1>7 DEF Unfolds
  <2>2. ASSUME NEW i \in 1..n, text[i - 1] = g[i - 1] PROVE text[i] = g[i]
    BY <1>0, <1>5, <1>7, <2>2
  <2> HIDE DEF Is
  <2> QED
    BY <1>0, <2>1, <2>2, SameEnd
<1> QED
  BY <1>4, <1>5, <1>8, <1>9 DEF Joins, Unfolds, n, none

\* There is one joining only.
LEMMA JoinsEnd ==
  ASSUME NEW words \in Seq(Text), NEW sep \in Text, NEW f, Joins(words, sep, f)
  PROVE  Join(words, sep) = f[Len(words)]
<1>1. PICK g : Joins(words, sep, g) /\ Join(words, sep) = g[Len(words)]
  BY JoinJoins
<1>2. Len(words) \in Nat
  OBVIOUS
<1>3. f[0] = g[0] /\ \A i \in 1..Len(words) : f[i - 1] = g[i - 1] => f[i] = g[i]
  BY <1>1 DEF Joins
<1> QED
  BY <1>1, <1>2, <1>3, SameEnd

\* A joined text grows word by word.
LEMMA JoinGrows ==
  ASSUME NEW sep \in Text
  PROVE  /\ Join(<<>>, sep) = <<>>
         /\ \A w \in Text : Join(<<w>>, sep) = w
         /\ \A words \in Splittings, w \in Text :
              Join(Append(words, w), sep) = Join(words, sep) \o sep \o w
         /\ \A words \in Seq(Text) : Join(words, sep) \in Text
<1>1. Join(<<>>, sep) = <<>>
  <2>1. <<>> \in Seq(Text) /\ Len(<<>>) = 0
    OBVIOUS
  <2> QED
    BY <2>1, JoinJoins DEF Joins
<1>2. ASSUME NEW words \in Seq(Text) PROVE Join(words, sep) \in Text
  <2>1. PICK f : Joins(words, sep, f) /\ Join(words, sep) = f[Len(words)]
    BY JoinJoins
  <2>2. Len(words) \in 0..Len(words)
    OBVIOUS
  <2> QED
    BY <2>1, <2>2 DEF Joins
<1>3. ASSUME NEW w \in Text PROVE Join(<<w>>, sep) = w
  <2> DEFINE words == <<w>>
  <2>1. words \in Seq(Text) /\ Len(words) = 1 /\ words[1] = w /\ 1 \in 1..1
    OBVIOUS
  <2> HIDE DEF words
  <2>2. PICK f : Joins(words, sep, f) /\ Join(words, sep) = f[1]
    BY <2>1, JoinJoins
  <2>3. f[1] = Longer(f[0], words, sep, 1)
    BY <2>1, <2>2 DEF Joins
  <2> QED
    BY <2>1, <2>2, <2>3 DEF Longer, words
<1>4. ASSUME NEW words \in Splittings, NEW w \in Text
      PROVE  Join(Append(words, w), sep) = Join(words, sep) \o sep \o w
  <2> DEFINE more == Append(words, w)
             n    == Len(words)
  <2>1. more \in Seq(Text) /\ n \in Nat /\ n >= 1 /\ Len(more) = n + 1 /\ more[n + 1] = w
        /\ words \in Seq(Text) /\ \A i \in 1..n : more[i] = words[i]
    BY DEF Splittings
  <2> HIDE DEF more
  <2>2. PICK f : Joins(words, sep, f) /\ Join(words, sep) = f[n]
    BY <2>1, JoinJoins
  <2>3. PICK g : Joins(more, sep, g) /\ Join(more, sep) = g[n + 1]
    BY <2>1, JoinJoins
  <2> HIDE DEF n
  <2>4. f[0] = g[0]
    BY <2>2, <2>3 DEF Joins
  <2>5. ASSUME NEW i \in 1..n, f[i - 1] = g[i - 1] PROVE f[i] = g[i]
    <3>1. f[i] = Longer(f[i - 1], words, sep, i)
      BY <2>2 DEF Joins, n
    <3>2. g[i] = Longer(g[i - 1], more, sep, i)
      BY <2>1, <2>3 DEF Joins
    <3>3. more[i] = words[i]
      BY <2>1
    <3> QED
      BY <2>5, <3>1, <3>2, <3>3 DEF Longer
  <2>6. f[n] = g[n]
    BY <2>1, <2>4, <2>5, SameEnd
  <2>7. g[n + 1] = Longer(g[n], more, sep, n + 1)
    <3>1. n + 1 \in 1..Len(more) /\ (n + 1) - 1 = n
      BY <2>1
    <3> QED
      BY <2>3, <3>1 DEF Joins
  <2>8. Longer(g[n], more, sep, n + 1) = g[n] \o sep \o w
    BY <2>1 DEF Longer
  <2> QED
    BY <2>2, <2>3, <2>6, <2>7, <2>8 DEF more
<1> QED
  BY <1>1, <1>2, <1>3, <1>4

\* Concatenation is associative, and knows the empty sequence.
LEMMA Concat ==
  ASSUME NEW S, NEW a \in Seq(S), NEW b \in Seq(S), NEW c \in Seq(S), NEW x \in S
  PROVE  /\ (a \o b) \o c = a \o (b \o c)
         /\ a \o Append(b, x) = Append(a \o b, x)
         /\ Append(a, x) = a \o <<x>>
         /\ a \o <<>> = a /\ <<>> \o a = a
         /\ a \o b \in Seq(S) /\ (b # <<>> => a \o b # <<>> /\ a \o b # a)
OBVIOUS

Slash == <<Sep>>

\* The separator is a text.
LEMMA SlashIsText == Slash \in Text
BY DEF Slash, Sep, Text

\* Two joined texts join with a separator.
LEMMA JoinConcat ==
  ASSUME NEW a \in Splittings, NEW b \in Splittings
  PROVE  Join(a \o b, Slash) = Join(a, Slash) \o Slash \o Join(b, Slash)
<1> DEFINE T == {x \in Seq(Text) : x # <<>> =>
                   Join(a \o x, Slash) = Join(a, Slash) \o Slash \o Join(x, Slash)}
<1>0. a \in Seq(Text) /\ Join(a, Slash) \in Text /\ Slash \in Text
  BY SlashIsText, JoinGrows DEF Splittings
<1>1. <<>> \in T
  OBVIOUS
<1>2. ASSUME NEW x \in Seq(Text), NEW w \in Text, x \in T PROVE Append(x, w) \in T
  <2>1. a \o Append(x, w) = Append(a \o x, w) /\ Append(x, w) \in Seq(Text)
    BY <1>0, Concat
  <2>2. CASE x = <<>>
    <3>1. a \o Append(x, w) = Append(a, w) /\ Append(x, w) = <<w>>
      BY <1>0, <2>2, Concat
    <3>2. Join(Append(a, w), Slash) = Join(a, Slash) \o Slash \o w /\ Join(<<w>>, Slash) = w
      BY <1>0, JoinGrows
    <3> QED
      BY <2>1, <3>1, <3>2
  <2>3. CASE x # <<>>
    <3>1. a \o x \in Splittings /\ x \in Splittings
      BY <1>0, <2>3, Concat DEF Splittings
    <3>2. Join(Append(a \o x, w), Slash) = Join(a \o x, Slash) \o Slash \o w
          /\ Join(Append(x, w), Slash) = Join(x, Slash) \o Slash \o w
      BY <1>0, <3>1, JoinGrows
    <3>3. Join(x, Slash) \in Text
      BY <1>0, JoinGrows
    <3>4. PICK ja \in Text, jx \in Text : ja = Join(a, Slash) /\ jx = Join(x, Slash)
      BY <1>0, <3>3
    <3>5. ((ja \o Slash) \o jx) \o Slash \o w = (ja \o Slash) \o ((jx \o Slash) \o w)
      <4>1. ja \o Slash \in Seq(Nat) /\ jx \o Slash \in Seq(Nat)
        BY <1>0 DEF Text
      <4>2. PICK js \in Seq(Nat), xs \in Seq(Nat) : js = ja \o Slash /\ xs = jx \o Slash
        BY <4>1
      <4>3. (js \o jx) \o Slash = js \o (jx \o Slash)
        <5>1. jx \in Seq(Nat) /\ Slash \in Seq(Nat)
          BY <1>0 DEF Text
        <5> QED
          BY <5>1, Concat
      <4>4. (js \o xs) \o w = js \o (xs \o w)
        BY DEF Text
      <4> QED
        BY <4>2, <4>3, <4>4
    <3>6. Join(a \o x, Slash) = ja \o Slash \o jx
      BY <1>2, <2>3, <3>4
    <3>7. Join(a \o Append(x, w), Slash) = ja \o Slash \o Join(Append(x, w), Slash)
      BY <2>1, <3>2, <3>4, <3>5, <3>6
    <3> QED
      BY <2>1, <3>4, <3>7
  <2> QED
    BY <2>2, <2>3
<1> HIDE DEF T
<1>3. b \in T
  BY <1>1, <1>2, SeqInduction DEF Splittings
<1> QED
  BY <1>3 DEF T, Splittings

\* Sequences are equal element by element.
LEMMA SameSeq ==
  ASSUME NEW S, NEW s \in Seq(S), NEW t \in Seq(S), Len(s) = Len(t),
         \A i \in 1..Len(t) : s[i] = t[i]
  PROVE  s = t
OBVIOUS

\* A sequence of some elements is one of more.
LEMMA SeqsWithin ==
  ASSUME NEW S, NEW R, S \subseteq R, NEW s \in Seq(S)
  PROVE  s \in Seq(R)
<1>1. Len(s) \in Nat /\ s \in [1..Len(s) -> S]
  OBVIOUS
<1>2. s \in [1..Len(s) -> R]
  BY <1>1
<1> QED
  BY <1>1, <1>2

\* What is concatenated comes one after the other.
LEMMA Concatenated ==
  ASSUME NEW S, NEW a \in Seq(S), NEW b \in Seq(S)
  PROVE  /\ a \o b \in Seq(S) /\ Len(a \o b) = Len(a) + Len(b)
         /\ \A i \in 1..Len(a) : (a \o b)[i] = a[i]
         /\ \A i \in 1..Len(b) : (a \o b)[Len(a) + i] = b[i]
OBVIOUS

\* What is appended comes last.
LEMMA Appended ==
  ASSUME NEW S, NEW s \in Seq(S), NEW x \in S
  PROVE  /\ Append(s, x) \in Seq(S) /\ Append(s, x) # <<>> /\ Len(Append(s, x)) = Len(s) + 1
         /\ Append(s, x)[1] = IF s = <<>> THEN x ELSE s[1]
         /\ Append(s, x)[Len(s) + 1] = x /\ \A i \in 1..Len(s) : Append(s, x)[i] = s[i]
OBVIOUS

\* The first k elements of a sequence, and the others.
LEMMA Cut ==
  ASSUME NEW S, NEW s \in Seq(S), NEW k \in 0..Len(s)
  PROVE  /\ SubSeq(s, 1, k) \in Seq(S) /\ Len(SubSeq(s, 1, k)) = k
         /\ \A i \in 1..k : SubSeq(s, 1, k)[i] = s[i]
         /\ SubSeq(s, k + 1, Len(s)) \in Seq(S) /\ Len(SubSeq(s, k + 1, Len(s))) = Len(s) - k
         /\ \A i \in 1..Len(s) - k : SubSeq(s, k + 1, Len(s))[i] = s[k + i]
         /\ s = SubSeq(s, 1, k) \o SubSeq(s, k + 1, Len(s))
<1> DEFINE a == SubSeq(s, 1, k)
           b == SubSeq(s, k + 1, Len(s))
<1>1. a \in Seq(S) /\ Len(a) = k /\ \A i \in 1..k : a[i] = s[i]
  OBVIOUS
<1>2. b \in Seq(S) /\ Len(b) = Len(s) - k /\ \A i \in 1..Len(s) - k : b[i] = s[k + i]
  OBVIOUS
<1> HIDE DEF a, b
<1>3. s = a \o b
  <2> DEFINE r == a \o b
  <2>1. r \in Seq(S) /\ Len(r) = Len(s)
    BY <1>1, <1>2
  <2>2. ASSUME NEW i \in 1..Len(s) PROVE r[i] = s[i]
    <3>1. r[i] = IF i <= k THEN a[i] ELSE b[i - k]
      BY <1>1, <1>2
    <3>2. i > k => b[i - k] = s[k + (i - k)] /\ k + (i - k) = i
      BY <1>2
    <3> QED
      BY <1>1, <3>1, <3>2
  <2> HIDE DEF r
  <2>3. s = r
    BY <2>1, <2>2
  <2> QED
    BY <2>3 DEF r
<1> QED
  BY <1>1, <1>2, <1>3 DEF a, b

\* Segments are some and a last one.
LEMMA InitAndLast ==
  ASSUME NEW segs \in Splittings
  PROVE  \E init \in Seq(Text), last \in Text :
           /\ segs = Append(init, last)
           /\ \A ch \in Nat : ch # Sep => Grown(segs, ch) = Append(init, Append(last, ch))
<1> DEFINE n    == Len(segs)
           last == segs[n]
           init == SubSeq(segs, 1, n - 1)
<1>0. /\ n \in Nat /\ n >= 1 /\ init \in Seq(Text) /\ last \in Text /\ Len(init) = n - 1
      /\ \A i \in 1..n - 1 : init[i] = segs[i]
  <2>1. segs \in Seq(Text) /\ n \in Nat /\ n >= 1 /\ n \in 1..n
    BY DEF Splittings
  <2>2. last \in Text
    BY <2>1
  <2>3. init \in Seq(Text) /\ Len(init) = n - 1 /\ \A i \in 1..n - 1 : init[i] = segs[i]
    <3>1. n - 1 \in 0..Len(segs)
      BY <2>1
    <3> QED
      BY <2>1, <3>1, Cut
  <2> QED
    BY <2>1, <2>2, <2>3
<1>1. /\ n \in Nat /\ n >= 1 /\ init \in Seq(Text) /\ last \in Text /\ segs = Append(init, last)
      /\ Len(init) = n - 1
  <2> HIDE DEF init
  <2> DEFINE r == Append(init, last)
  <2>1. r \in Seq(Text) /\ Len(r) = n /\ \A i \in 1..n : r[i] = segs[i]
    BY <1>0
  <2> HIDE DEF r
  <2>2. segs = r
    BY <2>1 DEF Splittings
  <2> QED
    BY <1>0, <2>2 DEF r
<1>2. ASSUME NEW ch \in Nat, ch # Sep
      PROVE  Grown(segs, ch) = Append(init, Append(last, ch))
  <2> DEFINE w == Append(last, ch)
  <2>1. Grown(segs, ch) = [segs EXCEPT ![n] = w]
    BY <1>2 DEF Grown
  <2>2. w \in Text
    BY <1>1 DEF Text
  <2> HIDE DEF w, last, init
  <2>3. [segs EXCEPT ![n] = w] = Append(init, w)
    <3> DEFINE l == [segs EXCEPT ![n] = w]
               r == Append(init, w)
    <3>1. segs \in Seq(Text) /\ n \in 1..Len(segs)
      BY <1>1 DEF Splittings
    <3>2. l \in Seq(Text) /\ Len(l) = n /\ l[n] = w /\ \A i \in 1..n : i # n => l[i] = segs[i]
      BY <2>2, <3>1, ReplaceOne
    <3>3. r \in Seq(Text) /\ Len(r) = n /\ r[n] = w /\ \A i \in 1..n : i # n => r[i] = init[i]
      BY <1>1, <2>2
    <3>4. \A i \in 1..n : i # n => segs[i] = init[i]
      BY <1>1
    <3> HIDE DEF l, r
    <3>5. \A i \in 1..n : l[i] = r[i]
      BY <3>2, <3>3, <3>4
    <3>6. l = r
      BY <3>2, <3>3, <3>5
    <3> QED
      BY <3>6 DEF l, r
  <2> QED
    BY <2>1, <2>3 DEF w
<1> HIDE DEF init, last
<1> QED
  BY <1>1, <1>2

\* The segments of a text joined are the text.
LEMMA JoinSegments ==
  ASSUME NEW u \in Text
  PROVE  Join(Segments(u), Slash) = u
<1> DEFINE T == {x \in Text : Join(Segments(x), Slash) = x}
<1>0. <<>> \in Text /\ Slash \in Text
  BY SlashIsText DEF Text
<1>1. <<>> \in T
  BY <1>0, SegmentsGrow, JoinGrows
<1>2. ASSUME NEW x \in Text, NEW ch \in Nat, x \in T
      PROVE  Join(Segments(Append(x, ch)), Slash) = Append(x, ch)
  <2>0. PICK segs \in Splittings : segs = Segments(x)
    BY SegmentsGrow
  <2>1. Join(segs, Slash) = x /\ Segments(Append(x, ch)) = Grown(segs, ch)
    BY <1>2, <2>0, SegmentsGrow
  <2>2. CASE ch = Sep
    <3>1. Join(Append(segs, <<>>), Slash) = x \o Slash \o <<>>
      BY <1>0, <2>1, JoinGrows
    <3>2. x \o Slash \o <<>> = Append(x, ch)
      BY <1>0, <2>2 DEF Text, Slash
    <3> QED
      BY <2>1, <2>2, <3>1, <3>2 DEF Grown
  <2>3. CASE ch # Sep
    <3>1. PICK init \in Seq(Text), last \in Text :
            segs = Append(init, last) /\ Grown(segs, ch) = Append(init, Append(last, ch))
      BY <2>3, InitAndLast
    <3>2. PICK w \in Text : w = Append(last, ch)
      <4>1. Append(last, ch) \in Text
        BY DEF Text
      <4> QED
        BY <4>1
    <3>3. CASE init = <<>>
      <4>1. Append(init, last) = <<last>> /\ Append(init, w) = <<w>>
        BY <3>3
      <4>2. Join(<<last>>, Slash) = last /\ Join(<<w>>, Slash) = w
        BY <1>0, JoinGrows
      <4> QED
        BY <2>1, <3>1, <3>2, <4>1, <4>2
    <3>4. CASE init # <<>>
      <4>1. init \in Splittings
        BY <3>4 DEF Splittings
      <4>2. PICK ji \in Text : ji = Join(init, Slash)
        BY <1>0, JoinGrows
      <4>3. \A v \in Text : Join(Append(init, v), Slash) = ji \o Slash \o v
        BY <1>0, <4>1, <4>2, JoinGrows
      <4>4. x = ji \o Slash \o last
        BY <2>1, <3>1, <4>3
      <4>5. ji \o Slash \o w = Append(ji \o Slash \o last, ch)
        BY <1>0, <3>2 DEF Text
      <4> QED
        BY <2>1, <3>1, <3>2, <4>3, <4>4, <4>5
    <3> QED
      BY <3>3, <3>4
  <2> QED
    BY <2>2, <2>3
<1>3. ASSUME NEW x \in Text, NEW ch \in Nat, x \in T PROVE Append(x, ch) \in T
  <2>1. Append(x, ch) \in Text
    BY DEF Text
  <2> QED
    BY <1>2, <1>3, <2>1
<1> HIDE DEF T
<1>4. u \in T
  BY <1>1, <1>3, SeqInduction DEF Text
<1> QED
  BY <1>4 DEF T

\* Names without separators that are joined with separators are its segments.
LEMMA SegmentsJoin ==
  ASSUME NEW words \in Splittings, \A i \in 1..Len(words) : Plain(words[i])
  PROVE  Segments(Join(words, Slash)) = words
<1> DEFINE AllPlain(x) == \A i \in 1..Len(x) : Plain(x[i])
           T == {x \in Seq(Text) : x # <<>> /\ AllPlain(x) => Segments(Join(x, Slash)) = x}
<1>0. Slash \in Text
  BY SlashIsText
<1>1. <<>> \in T
  OBVIOUS
<1>2. ASSUME NEW x \in Seq(Text), NEW w \in Text, x \in T PROVE Append(x, w) \in T
  <2> DEFINE y == Append(x, w)
  <2>1. /\ y \in Seq(Text) /\ y[Len(x) + 1] = w /\ \A i \in 1..Len(x) : y[i] = x[i]
        /\ Len(y) = Len(x) + 1 /\ Len(x) \in Nat
    OBVIOUS
  <2> HIDE DEF y
  <2>2. AllPlain(y) => AllPlain(x) /\ Plain(w)
    BY <2>1
  <2> HIDE DEF AllPlain
  <2>3. SUFFICES ASSUME AllPlain(x), Plain(w) PROVE Segments(Join(y, Slash)) = y
    BY <2>1, <2>2 DEF y
  <2>4. Segments(w) = <<w>>
    BY <2>3, SegmentsPlain
  <2>5. CASE x = <<>>
    <3>1. y = <<w>>
      BY <2>5 DEF y
    <3>2. Join(<<w>>, Slash) = w
      BY <1>0, JoinGrows
    <3> QED
      BY <2>4, <3>1, <3>2
  <2>6. CASE x # <<>>
    <3>1. Join(y, Slash) = Join(x, Slash) \o Slash \o w /\ Join(x, Slash) \in Text
      BY <1>0, <2>6, JoinGrows DEF y, Splittings
    <3>2. Segments(Join(x, Slash) \o Slash \o w) = Segments(Join(x, Slash)) \o Segments(w)
      BY <3>1, SegmentsConcat DEF Slash
    <3>3. Segments(Join(x, Slash)) = x
      BY <1>2, <2>3, <2>6
    <3>4. x \o <<w>> = y
      BY DEF y
    <3> QED
      BY <2>4, <3>1, <3>2, <3>3, <3>4
  <2> QED
    BY <2>5, <2>6
<1> HIDE DEF T
<1>3. words \in T
  BY <1>1, <1>2, SeqInduction DEF Splittings
<1> QED
  BY <1>3 DEF T, Splittings

-----------------------------------------------------------------------------
(***************************************************************************)
(* Kept and FlattenSeq, from left to right.                                *)
(***************************************************************************)

\* What is kept so far, and the k-th element if it is.
KeptNext(t, s, at, k) == IF k \in at THEN Append(t, s[k]) ELSE t

Keeps(S, s, at, f) ==
  /\ f \in [0..Len(s) -> Seq(S)]
  /\ f[0] = <<>>
  /\ \A k \in 1..Len(s) : f[k] = KeptNext(f[k - 1], s, at, k)

\* Kept is the end of the keeping.
LEMMA KeptKeeps ==
  ASSUME NEW S, NEW s \in Seq(S), NEW at
  PROVE  \E f : Keeps(S, s, at, f) /\ Kept(s, at) = f[Len(s)]
<1> DEFINE n     == Len(s)
           none  == <<>>
           V     == Seq(S)
           Is(f) == f = [k \in 0..n |-> IF k = 0 THEN none ELSE KeptNext(f[k - 1], s, at, k)]
           d     == [x \in V \X (1..n) |-> KeptNext(x[1], s, at, x[2])]
<1>0. n \in Nat /\ none \in V /\ \A k \in 1..n : s[k] \in S
  OBVIOUS
<1>2. \A k \in 1..n, t \in V : d[<<t, k>>] = KeptNext(t, s, at, k)
  OBVIOUS
<1>3. \A k \in 1..n, t \in V : d[<<t, k>>] \in V
  <2> SUFFICES ASSUME NEW k \in 1..n, NEW t \in V PROVE KeptNext(t, s, at, k) \in V
    BY <1>2
  <2>1. s[k] \in S
    BY <1>0
  <2>2. Append(t, s[k]) \in V
    BY <2>1
  <2> QED
    BY <2>2 DEF KeptNext
<1> HIDE DEF n, d, none, V
<1>4. PICK g : Unfolds(g, n, V, none, d)
  BY <1>0, <1>3, Recursion
<1>5. \A k \in 1..n : g[k] = KeptNext(g[k - 1], s, at, k)
  <2> SUFFICES ASSUME NEW k \in 1..n PROVE g[k] = KeptNext(g[k - 1], s, at, k)
    OBVIOUS
  <2>1. k - 1 \in 0..n
    BY <1>0
  <2>2. g[k - 1] \in V
    BY <1>4, <2>1 DEF Unfolds
  <2> QED
    BY <1>2, <1>4, <2>2 DEF Unfolds
<1>6. Is(g)
  <2>1. ASSUME NEW k \in 0..n
        PROVE  g[k] = IF k = 0 THEN none ELSE KeptNext(g[k - 1], s, at, k)
    <3>1. k # 0 => k \in 1..n
      BY <1>0
    <3> QED
      BY <1>4, <1>5, <3>1 DEF Unfolds
  <2>2. g = [k \in 0..n |-> g[k]]
    BY <1>4 DEF Unfolds
  <2> QED
    BY <2>1, <2>2, Zenon
<1> DEFINE kept == CHOOSE f : Is(f)
<1>7. Is(kept)
  <2> HIDE DEF Is
  <2> QED
    BY <1>6
<1>8. Kept(s, at) = kept[n]
  BY DEF Kept, KeptNext, n, none
<1> HIDE DEF kept
<1>9. kept[n] = g[n]
  <2>1. kept[0] = g[0]
    BY <1>0, <1>4, <1>7 DEF Unfolds
  <2>2. ASSUME NEW k \in 1..n, kept[k - 1] = g[k - 1] PROVE kept[k] = g[k]
    BY <1>0, <1>5, <1>7, <2>2
  <2> HIDE DEF Is
  <2> QED
    BY <1>0, <2>1, <2>2, SameEnd
<1> QED
  BY <1>4, <1>5, <1>8, <1>9 DEF Keeps, Unfolds, n, none, V

\* What is kept grows with the sequence.
LEMMA KeptGrows ==
  ASSUME NEW S, NEW s \in Seq(S), NEW x \in S, NEW at, NEW more,
         \A k \in 1..Len(s) : k \in more <=> k \in at
  PROVE  /\ Len(s) + 1 \in more => Kept(Append(s, x), more) = Append(Kept(s, at), x)
         /\ Len(s) + 1 \notin more => Kept(Append(s, x), more) = Kept(s, at)
<1> DEFINE t == Append(s, x)
           n == Len(s)
<1>1. t \in Seq(S) /\ n \in Nat /\ Len(t) = n + 1 /\ t[n + 1] = x
      /\ \A k \in 1..n : t[k] = s[k]
  OBVIOUS
<1> HIDE DEF t
<1>2. PICK f : Keeps(S, s, at, f) /\ Kept(s, at) = f[n]
  BY KeptKeeps
<1>3. PICK g : Keeps(S, t, more, g) /\ Kept(t, more) = g[n + 1]
  BY <1>1, KeptKeeps
<1> HIDE DEF n
<1>4. f[0] = g[0]
  BY <1>2, <1>3 DEF Keeps
<1>5. ASSUME NEW k \in 1..n, f[k - 1] = g[k - 1] PROVE f[k] = g[k]
  <2>1. f[k] = KeptNext(f[k - 1], s, at, k)
    BY <1>2 DEF Keeps, n
  <2>2. g[k] = KeptNext(g[k - 1], t, more, k)
    BY <1>1, <1>3 DEF Keeps
  <2>3. k \in more <=> k \in at
    BY DEF n
  <2> QED
    BY <1>1, <1>5, <2>1, <2>2, <2>3 DEF KeptNext
<1>6. f[n] = g[n]
  BY <1>1, <1>4, <1>5, SameEnd
<1>7. g[n + 1] = KeptNext(g[n], t, more, n + 1)
  <2>1. n + 1 \in 1..Len(t) /\ (n + 1) - 1 = n
    BY <1>1
  <2> QED
    BY <1>3, <2>1 DEF Keeps
<1> QED
  BY <1>1, <1>2, <1>3, <1>6, <1>7 DEF KeptNext, t, n

\* It is a sequence of the same elements, and only positions in the sequence count.
LEMMA KeptIsSeq ==
  ASSUME NEW S, NEW s \in Seq(S), NEW at
  PROVE  /\ Kept(<<>>, at) = <<>>
         /\ Kept(s, at) \in Seq(S)
         /\ \A more : (\A k \in 1..Len(s) : k \in more <=> k \in at) =>
                        Kept(s, more) = Kept(s, at)
<1>1. Kept(<<>>, at) = <<>>
  <2>1. <<>> \in Seq({}) /\ Len(<<>>) = 0
    OBVIOUS
  <2>2. PICK f : Keeps({}, <<>>, at, f) /\ Kept(<<>>, at) = f[Len(<<>>)]
    BY <2>1, KeptKeeps
  <2> QED
    BY <2>1, <2>2 DEF Keeps
<1>2. PICK f : Keeps(S, s, at, f) /\ Kept(s, at) = f[Len(s)]
  BY KeptKeeps
<1>3. Kept(s, at) \in Seq(S)
  <2>1. Len(s) \in 0..Len(s)
    OBVIOUS
  <2> QED
    BY <1>2, <2>1 DEF Keeps
<1>4. ASSUME NEW more, \A k \in 1..Len(s) : k \in more <=> k \in at
      PROVE  Kept(s, more) = Kept(s, at)
  <2>1. PICK g : Keeps(S, s, more, g) /\ Kept(s, more) = g[Len(s)]
    BY KeptKeeps
  <2>2. Len(s) \in Nat /\ f[0] = g[0]
    BY <1>2, <2>1 DEF Keeps
  <2>3. \A k \in 1..Len(s) : f[k - 1] = g[k - 1] => f[k] = g[k]
    BY <1>2, <1>4, <2>1 DEF Keeps, KeptNext
  <2> QED
    BY <1>2, <2>1, <2>2, <2>3, SameEnd
<1> QED
  BY <1>1, <1>3, <1>4

\* The whole so far, and the i-th part.
FlatNext(whole, parts, i) == IF i = 1 THEN parts[1] ELSE whole \o parts[i]

Flattens(S, parts, f) ==
  /\ f \in [0..Len(parts) -> Seq(S)]
  /\ f[0] = <<>>
  /\ \A i \in 1..Len(parts) : f[i] = FlatNext(f[i - 1], parts, i)

\* FlattenSeq is the end of the flattening.
LEMMA FlattenFlattens ==
  ASSUME NEW S, NEW parts \in Seq(Seq(S))
  PROVE  \E f : Flattens(S, parts, f) /\ FlattenSeq(parts) = f[Len(parts)]
<1> DEFINE n     == Len(parts)
           none  == <<>>
           V     == Seq(S)
           Is(f) == f = [i \in 1..n |-> IF i = 1 THEN parts[i] ELSE f[i - 1] \o parts[i]]
           d     == [x \in V \X (1..n) |-> FlatNext(x[1], parts, x[2])]
<1>0. n \in Nat /\ none \in V /\ \A i \in 1..n : parts[i] \in V
  OBVIOUS
<1>2. \A i \in 1..n, t \in V : d[<<t, i>>] = FlatNext(t, parts, i)
  OBVIOUS
<1>3. \A i \in 1..n, t \in V : d[<<t, i>>] \in V
  <2> SUFFICES ASSUME NEW i \in 1..n, NEW t \in V PROVE FlatNext(t, parts, i) \in V
    BY <1>2
  <2>1. parts[i] \in V
    BY <1>0
  <2>2. t \o parts[i] \in V
    BY <2>1
  <2> QED
    BY <2>1, <2>2 DEF FlatNext
<1> HIDE DEF d, none, V
<1>4. PICK g : Unfolds(g, n, V, none, d)
  <2> HIDE DEF n
  <2> QED
    BY <1>0, <1>3, Recursion
<1>5. \A i \in 1..n : g[i] = FlatNext(g[i - 1], parts, i)
  <2> SUFFICES ASSUME NEW i \in 1..n PROVE g[i] = FlatNext(g[i - 1], parts, i)
    OBVIOUS
  <2>1. i - 1 \in 0..n
    BY <1>0
  <2>2. g[i - 1] \in V
    BY <1>4, <2>1 DEF Unfolds
  <2> QED
    BY <1>2, <1>4, <2>2 DEF Unfolds
<1>6. CASE n = 0
  <2>1. FlattenSeq(parts) = parts /\ parts = <<>>
    BY <1>6 DEF FlattenSeq
  <2> QED
    BY <1>4, <1>5, <1>6, <2>1 DEF Flattens, Unfolds, none, V
<1>7. CASE n # 0
  <2> DEFINE h == [i \in 1..n |-> g[i]]
  <2>1. Is(h)
    <3>1. ASSUME NEW i \in 1..n
          PROVE  h[i] = IF i = 1 THEN parts[i] ELSE h[i - 1] \o parts[i]
      <4>1. i # 1 => i - 1 \in 1..n
        BY <1>0
      <4> QED
        BY <1>5, <4>1 DEF FlatNext
    <3>2. h = [i \in 1..n |-> h[i]]
      OBVIOUS
    <3> HIDE DEF h
    <3> QED
      BY <3>1, <3>2, Zenon
  <2> DEFINE flat == CHOOSE f : Is(f)
  <2>2. Is(flat)
    <3> HIDE DEF Is
    <3> QED
      BY <2>1
  <2>3. FlattenSeq(parts) = flat[n]
    BY <1>7 DEF FlattenSeq
  <2> HIDE DEF flat, h
  <2>4. \A i \in 1..n : flat[i] = IF i = 1 THEN parts[i] ELSE flat[i - 1] \o parts[i]
    BY <2>2
  <2> HIDE DEF Is
  <2> DEFINE e == [i \in 0..n |-> IF i = 0 THEN none ELSE flat[i]]
  <2>5. e[0] = g[0]
    BY <1>0, <1>4 DEF Unfolds
  <2>6. ASSUME NEW i \in 1..n, e[i - 1] = g[i - 1] PROVE e[i] = g[i]
    <3>1. i \in 0..n /\ i # 0 /\ (i # 1 => i - 1 \in 0..n /\ i - 1 # 0)
      BY <1>0
    <3>2. e[i] = flat[i] /\ (i # 1 => e[i - 1] = flat[i - 1])
      BY <3>1
    <3> HIDE DEF e
    <3> QED
      BY <1>5, <2>4, <2>6, <3>2 DEF FlatNext
  <2>7. e[n] = flat[n]
    BY <1>0, <1>7
  <2> HIDE DEF e, n
  <2>8. e[n] = g[n]
    BY <1>0, <2>5, <2>6, SameEnd
  <2> QED
    BY <1>4, <1>5, <2>3, <2>7, <2>8 DEF Flattens, Unfolds, none, V, n
<1> QED
  BY <1>6, <1>7

\* A flattened sequence grows part by part.
LEMMA FlattenGrows ==
  ASSUME NEW S
  PROVE  /\ FlattenSeq(<<>>) = <<>>
         /\ \A parts \in Seq(Seq(S)) : FlattenSeq(parts) \in Seq(S)
         /\ \A parts \in Seq(Seq(S)), w \in Seq(S) :
              FlattenSeq(Append(parts, w)) = FlattenSeq(parts) \o w
<1>1. FlattenSeq(<<>>) = <<>>
  BY DEF FlattenSeq
<1>2. ASSUME NEW parts \in Seq(Seq(S)) PROVE FlattenSeq(parts) \in Seq(S)
  <2>1. PICK f : Flattens(S, parts, f) /\ FlattenSeq(parts) = f[Len(parts)]
    BY FlattenFlattens
  <2>2. Len(parts) \in 0..Len(parts)
    OBVIOUS
  <2> QED
    BY <2>1, <2>2 DEF Flattens
<1>3. ASSUME NEW parts \in Seq(Seq(S)), NEW w \in Seq(S)
      PROVE  FlattenSeq(Append(parts, w)) = FlattenSeq(parts) \o w
  <2> DEFINE more == Append(parts, w)
             n    == Len(parts)
             V    == Seq(S)
  <2> HIDE DEF V
  <2>1. more \in Seq(V) /\ n \in Nat /\ Len(more) = n + 1 /\ more[n + 1] = w
        /\ \A i \in 1..n : more[i] = parts[i]
    BY DEF V
  <2> HIDE DEF more
  <2>2. PICK f : Flattens(S, parts, f) /\ FlattenSeq(parts) = f[n]
    BY FlattenFlattens
  <2>3. PICK g : Flattens(S, more, g) /\ FlattenSeq(more) = g[n + 1]
    BY <2>1, FlattenFlattens DEF V
  <2>4. f[0] = g[0] /\ f[0] = <<>>
    BY <2>2, <2>3 DEF Flattens
  <2>5. ASSUME NEW i \in 1..n, f[i - 1] = g[i - 1] PROVE f[i] = g[i]
    <3>1. f[i] = FlatNext(f[i - 1], parts, i)
      BY <2>2 DEF Flattens
    <3>2. g[i] = FlatNext(g[i - 1], more, i) /\ 1 \in 1..n
      BY <2>1, <2>3 DEF Flattens
    <3>3. more[i] = parts[i] /\ more[1] = parts[1]
      BY <2>1, <3>2
    <3> QED
      BY <2>5, <3>1, <3>2, <3>3 DEF FlatNext
  <2>6. f[n] = g[n]
    <3> HIDE DEF n
    <3> QED
      BY <2>1, <2>4, <2>5, SameEnd
  <2>7. g[n + 1] = FlatNext(g[n], more, n + 1)
    <3>1. n + 1 \in 1..Len(more) /\ (n + 1) - 1 = n
      BY <2>1
    <3> QED
      BY <2>3, <3>1 DEF Flattens
  <2>8. n = 0 => f[n] \o w = w
    BY <2>4
  <2>9. n # 0 => n + 1 # 1
    BY <2>1
  <2> HIDE DEF n
  <2> QED
    BY <2>1, <2>2, <2>3, <2>6, <2>7, <2>8, <2>9 DEF FlatNext, more
<1> QED
  BY <1>1, <1>2, <1>3

-----------------------------------------------------------------------------
(***************************************************************************)
(* The prefix tests of the in-memory tree.                                 *)
(***************************************************************************)

\* A sequence goes on from each of its prefixes.
LEMMA PrefixIsConcat ==
  ASSUME NEW S, NEW s \in Seq(S), NEW t \in Seq(S)
  PROVE  IsPrefix(s, t) <=> \E r \in Seq(S) : t = s \o r
<1>1. ASSUME IsPrefix(s, t) PROVE \E r \in Seq(S) : t = s \o r
  <2>1. Len(s) \in 0..Len(t) /\ SubSeq(s, 1, Len(s)) = SubSeq(t, 1, Len(s))
    BY <1>1 DEF IsPrefix
  <2>2. SubSeq(s, 1, Len(s)) = s
    OBVIOUS
  <2> DEFINE k == Len(s)
             r == SubSeq(t, k + 1, Len(t))
  <2>3. k \in 0..Len(t)
    BY <2>1
  <2> HIDE DEF k
  <2>4. r \in Seq(S) /\ t = SubSeq(t, 1, k) \o r
    BY <2>3, Cut
  <2> HIDE DEF r
  <2> QED
    BY <2>1, <2>2, <2>4 DEF k
<1>2. ASSUME NEW r \in Seq(S), t = s \o r PROVE IsPrefix(s, t)
  <2>1. Len(t) = Len(s) + Len(r) /\ Len(s) \in 0..Len(t) /\ \A i \in 1..Len(s) : t[i] = s[i]
    BY <1>2
  <2> DEFINE a == SubSeq(t, 1, Len(s))
             b == SubSeq(s, 1, Len(s))
  <2>2. a \in Seq(S) /\ Len(a) = Len(s) /\ \A i \in 1..Len(s) : a[i] = t[i]
    BY <2>1, Cut
  <2>3. b = s
    OBVIOUS
  <2> HIDE DEF a, b
  <2>4. a = s
    BY <2>1, <2>2
  <2> QED
    BY <2>1, <2>3, <2>4 DEF IsPrefix, a, b
<1> QED
  BY <1>1, <1>2

\* A path beneath a target is the target, a separator and the rest.
LEMMA BeneathIsConcat ==
  ASSUME NEW p \in Text, NEW t \in Text
  PROVE  /\ Beneath(p, t) <=> \E r \in Text : p = t \o Slash \o r
         /\ \A r \in Text : p = t \o Slash \o r => SubSeq(p, Len(t) + 2, Len(p)) = r
<1>1. t \o Slash \in Seq(Nat) /\ p \in Seq(Nat)
  BY SlashIsText DEF Text
<1>2. Beneath(p, t) <=> \E r \in Text : p = t \o Slash \o r
  BY <1>1, PrefixIsConcat DEF Beneath, Text, Slash
<1>3. ASSUME NEW r \in Text, p = t \o Slash \o r
      PROVE  SubSeq(p, Len(t) + 2, Len(p)) = r
  <2> DEFINE k == Len(t) + 1
             b == SubSeq(p, k + 1, Len(p))
  <2>1. k \in 0..Len(p) /\ Len(p) = k + Len(r) /\ r \in Seq(Nat) /\ Len(r) \in Nat
        /\ \A i \in 1..Len(r) : p[k + i] = r[i]
    BY <1>3 DEF Text, Slash
  <2>2. k + 1 = Len(t) + 2
    BY DEF Text
  <2> HIDE DEF k
  <2>3. b \in Seq(Nat) /\ Len(b) = Len(p) - k /\ \A i \in 1..Len(p) - k : b[i] = p[k + i]
    BY <1>1, <2>1, Cut
  <2>4. Len(p) - k = Len(r) /\ k \in Nat
    BY <2>1
  <2> HIDE DEF b
  <2>5. \A i \in 1..Len(r) : b[i] = r[i]
    BY <2>1, <2>3, <2>4
  <2>6. b = r
    <3>1. Len(b) = Len(r)
      BY <2>3, <2>4
    <3> QED
      BY <2>1, <2>3, <2>5, <3>1, SameSeq
  <2> QED
    BY <2>2, <2>6 DEF b
<1> QED
  BY <1>2, <1>3

\* Its segments are the target's and the rest's.
LEMMA BeneathSegments ==
  ASSUME NEW p \in Text, NEW t \in Text
  PROVE  Beneath(p, t) <=> \E x \in Splittings : Segments(p) = Segments(t) \o x
<1>1. ASSUME Beneath(p, t) PROVE \E x \in Splittings : Segments(p) = Segments(t) \o x
  <2>1. PICK r \in Text : p = t \o Slash \o r
    BY <1>1, BeneathIsConcat
  <2>2. Segments(p) = Segments(t) \o Segments(r)
    BY <2>1, SegmentsConcat DEF Slash
  <2> QED
    BY <2>2, SegmentsGrow
<1>2. ASSUME NEW x \in Splittings, Segments(p) = Segments(t) \o x PROVE Beneath(p, t)
  <2>1. Segments(t) \in Splittings
    BY SegmentsGrow
  <2>2. Join(Segments(p), Slash) = Join(Segments(t), Slash) \o Slash \o Join(x, Slash)
    BY <1>2, <2>1, JoinConcat
  <2>3. Join(x, Slash) \in Text
    BY SlashIsText, JoinGrows DEF Splittings
  <2>4. p = t \o Slash \o Join(x, Slash)
    BY <2>2, JoinSegments
  <2> QED
    BY <2>3, <2>4, BeneathIsConcat
<1> QED
  BY <1>1, <1>2

\* The two tests, by segments.
LEMMA TestsBySegments ==
  ASSUME NEW p \in Text, NEW t \in Text
  PROVE  /\ Beneath(p, t) <=> IsStrictPrefix(Segments(t), Segments(p))
         /\ Inside(p, t) <=> IsPrefix(Segments(t), Segments(p))
<1> DEFINE sp == Segments(p)
           st == Segments(t)
<1>1. sp \in Seq(Text) /\ st \in Seq(Text)
  BY SegmentsGrow DEF Splittings
<1>2. p = t <=> sp = st
  BY JoinSegments
<1>3. Beneath(p, t) <=> \E x \in Splittings : sp = st \o x
  BY BeneathSegments
<1> HIDE DEF sp, st
<1>4. IsPrefix(st, sp) <=> \E x \in Seq(Text) : sp = st \o x
  BY <1>1, PrefixIsConcat
<1>5. \A x \in Seq(Text) : st \o x = st <=> x = <<>>
  BY <1>1, Concat
<1>6. IsPrefix(st, sp) <=> sp = st \/ \E x \in Splittings : sp = st \o x
  <2>1. st = st \o <<>> /\ <<>> \in Seq(Text)
    BY <1>1, Concat
  <2> QED
    BY <1>4, <1>5, <2>1 DEF Splittings
<1>7. (\E x \in Splittings : sp = st \o x) => sp # st
  BY <1>5 DEF Splittings
<1> QED
  BY <1>2, <1>3, <1>6, <1>7 DEF Inside, IsStrictPrefix, sp, st

\* The name cut out of a path is plain, and the first segment of the rest.
LEMMA FirstSegment ==
  ASSUME NEW p \in Text, NEW t \in Text, NEW r \in Text, p = t \o Slash \o r
  PROVE  Plain(ChildName(p, t)) /\ ChildName(p, t) = Segments(r)[1]
<1> DEFINE cuts == {i \in 1..Len(r) : r[i] = Sep}
           m    == Min(cuts)
<1>1. ChildName(p, t) = IF cuts = {} THEN r ELSE SubSeq(r, 1, m - 1)
  <2>1. SubSeq(p, Len(t) + 2, Len(p)) = r
    BY BeneathIsConcat
  <2> QED
    BY <2>1 DEF ChildName
<1>2. CASE cuts = {}
  <2>1. Plain(r)
    BY <1>2 DEF Plain, Text
  <2>2. Segments(r) = <<r>>
    BY <2>1, SegmentsPlain
  <2> QED
    BY <1>1, <1>2, <2>1, <2>2
<1>3. CASE cuts # {}
  <2>1. cuts \in SUBSET Nat
    BY DEF Text
  <2>2. m \in cuts /\ \A i \in cuts : m <= i
    <3> HIDE DEF cuts
    <3>1. \E i \in cuts : \A j \in cuts : i <= j
      BY <1>3, <2>1, NatHasLeast
    <3> QED
      BY <3>1 DEF Min
  <2> HIDE DEF m
  <2>3. m \in 1..Len(r) /\ r[m] = Sep /\ \A i \in 1..m - 1 : r[i] # Sep
    BY <2>2 DEF Text
  <2>4. r \in Seq(Nat) /\ m - 1 \in 0..Len(r) /\ m \in 0..Len(r)
    BY <2>3 DEF Text
  <2> DEFINE a == SubSeq(r, 1, m - 1)
             b == SubSeq(r, m + 1, Len(r))
  <2>5. a \in Text /\ Len(a) = m - 1 /\ \A i \in 1..m - 1 : a[i] = r[i]
    BY <2>4, Cut DEF Text
  <2>6. Plain(a)
    <3> HIDE DEF a
    <3> QED
      BY <2>3, <2>5 DEF Plain
  <2>7. b \in Text
    BY <2>4, Cut DEF Text
  <2>8. r = a \o Slash \o b
    <3>1. a \o Slash = SubSeq(r, 1, m)
      BY <2>3 DEF Text, Slash
    <3>2. r = SubSeq(r, 1, m) \o b
      BY <2>4, Cut
    <3> QED
      BY <3>1, <3>2
  <2> HIDE DEF a, b
  <2>9. Segments(r) = <<a>> \o Segments(b) /\ Segments(b) \in Splittings
    <3>1. Segments(a) = <<a>> /\ Segments(b) \in Splittings
      BY <2>6, <2>7, SegmentsPlain, SegmentsGrow
    <3>2. Segments(a \o <<Sep>> \o b) = Segments(a) \o Segments(b)
      BY <2>5, <2>7, SegmentsConcat
    <3> QED
      BY <2>8, <3>1, <3>2 DEF Slash
  <2>10. (<<a>> \o Segments(b))[1] = a
    BY <2>9 DEF Splittings
  <2> QED
    BY <1>1, <1>3, <2>6, <2>9, <2>10 DEF a
<1> QED
  BY <1>2, <1>3

-----------------------------------------------------------------------------
(***************************************************************************)
(* Numbers as text.                                                        *)
(***************************************************************************)

\* The text of k, from the texts of what is less.
Decimal(f, k) == IF k < 10 THEN <<48 + k>> ELSE Append(f[k \div 10], 48 + (k % 10))

DecimalsTo(f, n) == f \in [0..n -> Text] /\ \A k \in 0..n : f[k] = Decimal(f, k)

\* It is a text.
LEMMA DecimalIsText ==
  ASSUME NEW k \in Nat, NEW f, k >= 10 => f[k \div 10] \in Text
  PROVE  /\ Decimal(f, k) \in Text
         /\ k >= 10 => k \div 10 \in 0..k - 1
<1>1. CASE k < 10
  <2>1. 48 + k \in Nat
    OBVIOUS
  <2>2. <<48 + k>> \in Seq(Nat)
    BY <2>1
  <2> QED
    BY <1>1, <2>2 DEF Decimal, Text
<1>2. CASE k >= 10
  <2>1. k \div 10 \in 0..k - 1
    BY <1>2
  <2>2. 48 + (k % 10) \in Nat
    OBVIOUS
  <2>3. Append(f[k \div 10], 48 + (k % 10)) \in Seq(Nat)
    BY <1>2, <2>2, Appended DEF Text
  <2> QED
    BY <1>2, <2>1, <2>3 DEF Decimal, Text
<1> QED
  BY <1>1, <1>2

\* There are such texts of all naturals,
LEMMA DecimalsExist ==
  ASSUME NEW n \in Nat
  PROVE  \E f : DecimalsTo(f, n)
<1> DEFINE T == {m \in Nat : \E f : DecimalsTo(f, m)}
<1>1. 0 \in T
  <2> DEFINE f == [k \in 0..0 |-> <<48>>]
  <2>1. <<48>> \in Text
    BY DEF Text
  <2>2. f \in [0..0 -> Text] /\ \A k \in 0..0 : f[k] = <<48 + k>> /\ k < 10
    BY <2>1
  <2> HIDE DEF f
  <2>3. DecimalsTo(f, 0)
    BY <2>2 DEF DecimalsTo, Decimal
  <2> QED
    BY <2>3
<1>2. ASSUME NEW m \in 0..n - 1, m \in T PROVE m + 1 \in T
  <2>1. PICK f : DecimalsTo(f, m)
    BY <1>2
  <2> DEFINE g == [k \in 0..m + 1 |-> IF k <= m THEN f[k] ELSE Decimal(f, k)]
  <2>2. m \in Nat /\ m + 1 \in Nat
    OBVIOUS
  <2>3. m + 1 >= 10 => (m + 1) \div 10 \in 0..m
    OBVIOUS
  <2>4. Decimal(f, m + 1) \in Text
    <3>1. m + 1 >= 10 => f[(m + 1) \div 10] \in Text
      BY <2>1, <2>3 DEF DecimalsTo
    <3> QED
      BY <2>2, <3>1, DecimalIsText
  <2>5. g \in [0..m + 1 -> Text]
    <3> SUFFICES ASSUME NEW k \in 0..m + 1 PROVE g[k] \in Text
      OBVIOUS
    <3>1. CASE k \in 0..m
      BY <2>1, <3>1 DEF DecimalsTo
    <3>2. CASE k = m + 1
      BY <2>2, <2>4, <3>2
    <3> QED
      BY <2>2, <3>1, <3>2
  <2>6. (\A k \in 0..m : g[k] = f[k]) /\ g[m + 1] = Decimal(f, m + 1)
    BY <2>2
  <2> HIDE DEF g
  <2>7. ASSUME NEW k \in 0..m + 1 PROVE g[k] = Decimal(g, k)
    <3>1. g[k] = Decimal(f, k)
      BY <2>1, <2>2, <2>6 DEF DecimalsTo
    <3>2. k >= 10 => k \div 10 \in 0..m
      BY <2>2
    <3> QED
      BY <2>2, <2>6, <3>1, <3>2 DEF Decimal
  <2>8. DecimalsTo(g, m + 1)
    BY <2>5, <2>7 DEF DecimalsTo
  <2> QED
    BY <2>2, <2>8
<1> HIDE DEF T
<1>3. n \in T
  <2>1. n \in 0..n
    OBVIOUS
  <2> QED
    BY <1>1, <1>2, <2>1, Induction
<1> QED
  BY <1>3 DEF T

\* and just one for each.
LEMMA DecimalsAgree ==
  ASSUME NEW n \in Nat, NEW m \in Nat, NEW f, NEW g, DecimalsTo(f, n), DecimalsTo(g, m)
  PROVE  \A k \in 0..n : k <= m => f[k] = g[k]
<1> DEFINE S == {k \in 0..n : k <= m /\ f[k] # g[k]}
<1>1. SUFFICES ASSUME S # {} PROVE FALSE
  OBVIOUS
<1>2. PICK k \in S : \A j \in S : k <= j
  <2>1. S \in SUBSET Nat
    OBVIOUS
  <2> HIDE DEF S
  <2> QED
    BY <1>1, <2>1, NatHasLeast
<1>3. k \in Nat /\ k \in 0..n /\ k \in 0..m
  BY <1>2
<1>4. k >= 10 => f[k \div 10] = g[k \div 10]
  <2> SUFFICES ASSUME k >= 10 PROVE f[k \div 10] = g[k \div 10]
    OBVIOUS
  <2>1. k \div 10 \in 0..n /\ k \div 10 <= m /\ ~(k <= k \div 10)
    BY <1>3
  <2> QED
    BY <1>2, <2>1
<1>5. f[k] = g[k]
  <2>1. f[k] = Decimal(f, k) /\ g[k] = Decimal(g, k)
    BY <1>3 DEF DecimalsTo
  <2>2. Decimal(f, k) = Decimal(g, k)
    BY <1>3, <1>4 DEF Decimal
  <2> QED
    BY <2>1, <2>2
<1> QED
  BY <1>2, <1>5

\* Itoa is as it is written.
LEMMA ItoaIs == \A n \in Nat : Itoa[n] = Decimal(Itoa, n)
<1> DEFINE Is(f) == f = [n \in Nat |-> IF n < 10 THEN <<48 + n>>
                                       ELSE Append(f[n \div 10], 48 + (n % 10))]
           F(n)  == CHOOSE f : DecimalsTo(f, n)
           g     == [n \in Nat |-> F(n)[n]]
<1>1. \A n \in Nat : DecimalsTo(F(n), n)
  BY DecimalsExist
<1>2. \A n \in Nat : g[n] = F(n)[n]
  OBVIOUS
<1>3. g = [n \in Nat |-> g[n]]
  OBVIOUS
<1> HIDE DEF F, g
<1>4. ASSUME NEW n \in Nat PROVE g[n] = Decimal(g, n)
  <2>1. g[n] = Decimal(F(n), n)
    <3>1. n \in 0..n
      OBVIOUS
    <3> QED
      BY <1>1, <1>2, <3>1 DEF DecimalsTo
  <2>2. ASSUME n >= 10 PROVE F(n)[n \div 10] = g[n \div 10]
    <3> DEFINE m == n \div 10
    <3>1. m \in Nat /\ m \in 0..n /\ m <= m /\ m \in 0..m
      BY <2>2
    <3> HIDE DEF m
    <3>2. F(n)[m] = F(m)[m]
      BY <1>1, <3>1, DecimalsAgree
    <3>3. F(n)[m] = g[m]
      BY <1>2, <3>1, <3>2
    <3> QED
      BY <3>3 DEF m
  <2> QED
    BY <2>1, <2>2 DEF Decimal
<1>5. Is(g)
  <2>1. \A n \in Nat : g[n] = IF n < 10 THEN <<48 + n>> ELSE Append(g[n \div 10], 48 + (n % 10))
    BY <1>4 DEF Decimal
  <2> QED
    BY <1>3, <2>1, Zenon
<1>6. Is(Itoa)
  <2>1. Itoa = CHOOSE f : Is(f)
    BY DEF Itoa
  <2> HIDE DEF Is
  <2> QED
    BY <1>5, <2>1
<1>7. \A n \in Nat : Itoa[n] = Decimal(Itoa, n)
  <2> SUFFICES ASSUME NEW n \in Nat PROVE Itoa[n] = Decimal(Itoa, n)
    OBVIOUS
  <2> DEFINE J == Itoa
  <2> HIDE DEF J
  <2>1. J = [i \in Nat |-> IF i < 10 THEN <<48 + i>> ELSE Append(J[i \div 10], 48 + (i % 10))]
    BY <1>6 DEF J
  <2>2. J[n] = IF n < 10 THEN <<48 + n>> ELSE Append(J[n \div 10], 48 + (n % 10))
    BY <2>1, Zenon
  <2> QED
    BY <2>2 DEF Decimal, J
<1> QED
  BY <1>7

\* Every number has a text.
LEMMA ItoaIsText == \A n \in Nat : Itoa[n] \in Text
<1> DEFINE S == {n \in Nat : Itoa[n] \notin Text}
<1>1. ASSUME S # {} PROVE FALSE
  <2>1. PICK n \in S : \A m \in S : n <= m
    <3>1. S \in SUBSET Nat
      OBVIOUS
    <3> HIDE DEF S
    <3> QED
      BY <1>1, <3>1, NatHasLeast
  <2>2. n >= 10 => Itoa[n \div 10] \in Text
    <3> SUFFICES ASSUME n >= 10 PROVE Itoa[n \div 10] \in Text
      OBVIOUS
    <3>1. n \div 10 \in Nat /\ ~(n <= n \div 10)
      BY <2>1
    <3> QED
      BY <2>1, <3>1
  <2>3. Itoa[n] \in Text
    BY <2>1, <2>2, ItoaIs, DecimalIsText
  <2> QED
    BY <2>1, <2>3
<1> QED
  BY <1>1

-----------------------------------------------------------------------------
(***************************************************************************)
(* The cut of trailing separators.                                         *)
(***************************************************************************)

Seps(k) == [i \in 1..k |-> Sep]

\* Where the trailing separators of a text begin.
EndsAt(u, m) ==
  /\ m \in 0..Len(u)
  /\ m = 0 \/ u[m] # Sep
  /\ \A i \in m + 1..Len(u) : u[i] = Sep

\* Trailing separators begin at one place.
LEMMA EndsOnce ==
  ASSUME NEW u \in Text, NEW m, NEW n, EndsAt(u, m), EndsAt(u, n)
  PROVE  m = n
<1>1. Len(u) \in Nat /\ m \in Nat /\ n \in Nat /\ m <= Len(u) /\ n <= Len(u)
  BY DEF EndsAt, Text
<1>2. ~(m < n)
  BY <1>1 DEF EndsAt
<1>3. ~(n < m)
  BY <1>1 DEF EndsAt
<1> QED
  BY <1>1, <1>2, <1>3

\* A text is cut after the last character that is none of the set.
LEMMA TrimRightEnds ==
  ASSUME NEW u \in Text, NEW cut
  PROVE  \E m \in 0..Len(u) :
           /\ TrimRight(u, cut) = SubSeq(u, 1, m)
           /\ m = 0 \/ u[m] \notin cut
           /\ \A i \in m + 1..Len(u) : u[i] \in cut
<1> DEFINE n    == Len(u)
           kept == {0} \cup {i \in 1..n : u[i] \notin cut}
           gaps == {n - i : i \in kept}
           m    == Max(kept)
<1>1. n \in Nat /\ kept \subseteq 0..n /\ kept # {}
  BY DEF Text
<1>2. m \in kept /\ \A i \in kept : m >= i
  <2>1. gaps \in SUBSET Nat /\ gaps # {}
    BY <1>1
  <2>2. PICK g \in gaps : \A h \in gaps : g <= h
    <3> HIDE DEF gaps
    <3> QED
      BY <2>1, NatHasLeast
  <2>3. PICK i \in kept : g = n - i
    BY <2>2
  <2>4. \A j \in kept : n - i <= n - j
    BY <2>2, <2>3
  <2> HIDE DEF kept
  <2>5. \A j \in kept : i >= j
    BY <1>1, <2>4
  <2> QED
    BY <2>5 DEF Max
<1>3. TrimRight(u, cut) = SubSeq(u, 1, m)
  BY DEF TrimRight
<1> HIDE DEF m
<1>4. m \in 0..n /\ (m = 0 \/ u[m] \notin cut)
  BY <1>1, <1>2
<1>5. ASSUME NEW i \in m + 1..n PROVE u[i] \in cut
  <2>1. i \in 1..n /\ ~(m >= i)
    BY <1>1, <1>4
  <2> QED
    BY <1>2, <2>1
<1> QED
  BY <1>3, <1>4, <1>5

\* A text without spaces at its ends.
Tight(r) == r # <<>> => r[1] \notin Spaces /\ r[Len(r)] \notin Spaces

\* Trimming leaves no space at the ends,
LEMMA TrimSpaceIsTight ==
  ASSUME NEW s \in Text
  PROVE  TrimSpace(s) \in Text /\ Tight(TrimSpace(s))
<1> DEFINE t     == TrimRight(s, Spaces)
           n     == Len(t)
           first == {n + 1} \cup {i \in 1..n : t[i] \notin Spaces}
           f     == Min(first)
           r     == SubSeq(t, f, n)
<1>1. PICK m \in 0..Len(s) :
        /\ t = SubSeq(s, 1, m)
        /\ m = 0 \/ s[m] \notin Spaces
        /\ \A i \in m + 1..Len(s) : s[i] \in Spaces
  BY TrimRightEnds
<1>2. TrimSpace(s) = r
  BY DEF TrimSpace
<1> HIDE DEF t
<1>3. t \in Seq(Nat) /\ n = m /\ n \in Nat /\ \A i \in 1..m : t[i] = s[i]
  BY <1>1, Cut DEF Text
<1>4. f \in first /\ \A i \in first : f <= i
  <2>1. first \in SUBSET Nat /\ first # {}
    BY <1>3
  <2> HIDE DEF first
  <2>2. PICK i \in first : \A j \in first : i <= j
    BY <2>1, NatHasLeast
  <2> QED
    BY <2>2 DEF Min
<1> HIDE DEF f
<1>5. f \in 1..n + 1 /\ f - 1 \in 0..n /\ (f - 1) + 1 = f
  BY <1>3, <1>4
<1>6. /\ r \in Seq(Nat) /\ Len(r) = n - (f - 1)
      /\ \A i \in 1..n - (f - 1) : r[i] = t[(f - 1) + i]
  BY <1>3, <1>5, Cut
<1> HIDE DEF r
<1>7. ASSUME r # <<>> PROVE r[1] \notin Spaces /\ r[Len(r)] \notin Spaces
  <2>1. Len(r) \in Nat \ {0}
    BY <1>6, <1>7
  <2>2. f # n + 1 /\ f \in 1..n /\ n \in 1..n
    BY <1>3, <1>5, <1>6, <2>1
  <2>3. t[f] \notin Spaces
    BY <1>4, <2>2
  <2>4. t[n] \notin Spaces
    BY <1>1, <1>3, <2>2
  <2>5. r[1] = t[f]
    BY <1>5, <1>6, <2>1
  <2>6. r[Len(r)] = t[n]
    <3>1. n - (f - 1) \in 1..n - (f - 1) /\ (f - 1) + (n - (f - 1)) = n
      BY <1>3, <1>5, <1>6, <2>1
    <3> QED
      BY <1>6, <3>1
  <2> QED
    BY <2>3, <2>4, <2>5, <2>6
<1> QED
  BY <1>2, <1>6, <1>7 DEF Tight, Text

\* so that there is nothing to trim twice.
LEMMA TrimSpaceTwice ==
  ASSUME NEW s \in Text
  PROVE  TrimSpace(TrimSpace(s)) = TrimSpace(s)
<1> DEFINE r == TrimSpace(s)
           t == TrimRight(r, Spaces)
           n == Len(r)
<1>1. r \in Text /\ Tight(r)
  BY TrimSpaceIsTight
<1> HIDE DEF r
<1>2. r \in Seq(Nat) /\ n \in Nat
  BY <1>1 DEF Text
<1>3. PICK m \in 0..n :
        /\ t = SubSeq(r, 1, m)
        /\ \A i \in m + 1..n : r[i] \in Spaces
  BY <1>1, TrimRightEnds
<1>4. m = n
  BY <1>1, <1>2, <1>3 DEF Tight
<1>5. SubSeq(r, 1, n) = r
  BY <1>2
<1>6. t = r
  BY <1>3, <1>4, <1>5
<1> DEFINE first == {n + 1} \cup {i \in 1..n : r[i] \notin Spaces}
<1>7. 1 \in first /\ \A i \in first : 1 <= i /\ i \in Nat
  BY <1>1, <1>2 DEF Tight
<1>8. Min(first) = 1
  <2> HIDE DEF first
  <2>1. \A i \in first : (\A j \in first : i <= j) => i = 1
    BY <1>7
  <2> QED
    BY <1>7, <2>1 DEF Min
<1>9. TrimSpace(r) = SubSeq(r, Min(first), n)
  BY <1>6 DEF TrimSpace
<1> QED
  BY <1>5, <1>8, <1>9 DEF r

\* Norm cuts there.
LEMMA NormEnds ==
  ASSUME NEW u \in Text
  PROVE  \E m : EndsAt(u, m) /\ Norm(u) = SubSeq(u, 1, m)
<1>1. PICK m \in 0..Len(u) :
        /\ TrimRight(u, {Sep}) = SubSeq(u, 1, m)
        /\ m = 0 \/ u[m] \notin {Sep}
        /\ \A i \in m + 1..Len(u) : u[i] \in {Sep}
  BY TrimRightEnds
<1>2. {i \in 1..Len(u) : u[i] \notin {Sep}} = {i \in 1..Len(u) : u[i] # Sep}
  OBVIOUS
<1>3. Norm(u) = TrimRight(u, {Sep})
  BY <1>2 DEF Norm, TrimRight
<1>4. EndsAt(u, m)
  BY <1>1 DEF EndsAt
<1> QED
  BY <1>1, <1>3, <1>4

\* What Norm cuts off is the trailing separators, and nothing else.
LEMMA NormOf ==
  ASSUME NEW u \in Text, NEW m, EndsAt(u, m)
  PROVE  /\ Norm(u) = SubSeq(u, 1, m) /\ Norm(u) \in Text /\ Len(Norm(u)) = m
         /\ \A i \in 1..m : Norm(u)[i] = u[i]
<1>1. Norm(u) = SubSeq(u, 1, m)
  BY NormEnds, EndsOnce
<1>2. m \in 0..Len(u) /\ u \in Seq(Nat)
  BY DEF EndsAt, Text
<1> QED
  BY <1>1, <1>2, Cut DEF Text

\* A key of the tree is its own key.
LEMMA NormTwice ==
  ASSUME NEW u \in Text
  PROVE  Norm(u) \in Text /\ Norm(Norm(u)) = Norm(u)
<1>1. PICK m : EndsAt(u, m)
  BY NormEnds
<1> DEFINE v == Norm(u)
<1>2. v \in Text /\ Len(v) = m /\ \A i \in 1..m : v[i] = u[i]
  BY <1>1, NormOf
<1> HIDE DEF v
<1>3. EndsAt(v, m)
  BY <1>1, <1>2 DEF EndsAt, Text
<1>4. Norm(v) = SubSeq(v, 1, m)
  BY <1>2, <1>3, NormOf
<1>5. SubSeq(v, 1, m) = v
  BY <1>2 DEF Text
<1> QED
  BY <1>2, <1>4, <1>5 DEF v

\* More separators at the end change nothing.
LEMMA NormIgnoresSeps ==
  ASSUME NEW u \in Text, NEW k \in Nat
  PROVE  Norm(u \o Seps(k)) = Norm(u)
<1> DEFINE w == u \o Seps(k)
<1>1. PICK m : EndsAt(u, m)
  BY NormEnds
<1>2. /\ w \in Text /\ Len(w) = Len(u) + k /\ Len(u) \in Nat
      /\ \A i \in 1..Len(u) : w[i] = u[i]
      /\ \A i \in Len(u) + 1..Len(u) + k : w[i] = Sep
  BY DEF Text, Seps, Sep
<1> HIDE DEF w
<1>3. EndsAt(w, m)
  BY <1>1, <1>2 DEF EndsAt
<1>4. /\ Norm(w) \in Text /\ Len(Norm(w)) = m /\ \A i \in 1..m : Norm(w)[i] = w[i]
      /\ Norm(u) \in Text /\ Len(Norm(u)) = m /\ \A i \in 1..m : Norm(u)[i] = u[i]
  BY <1>1, <1>2, <1>3, NormOf
<1>5. \A i \in 1..m : Norm(w)[i] = Norm(u)[i]
  BY <1>1, <1>2, <1>4 DEF EndsAt
<1> QED
  BY <1>4, <1>5, SameSeq DEF w, Text

\* Texts with one key differ in separators at the end only.
LEMMA NormTells ==
  ASSUME NEW u \in Text, NEW v \in Text, Norm(u) = Norm(v), Len(u) <= Len(v)
  PROVE  v = u \o Seps(Len(v) - Len(u))
<1> DEFINE k == Len(v) - Len(u)
           w == u \o Seps(k)
<1>1. PICK m : EndsAt(u, m)
  BY NormEnds
<1>2. PICK n : EndsAt(v, n)
  BY NormEnds
<1>3. m = n /\ \A i \in 1..m : u[i] = v[i]
  <2>1. Len(Norm(u)) = m /\ \A i \in 1..m : Norm(u)[i] = u[i]
    BY <1>1, NormOf
  <2>2. Len(Norm(v)) = n /\ \A i \in 1..n : Norm(v)[i] = v[i]
    BY <1>2, NormOf
  <2> QED
    BY <2>1, <2>2
<1>4. k \in Nat /\ Len(u) \in Nat /\ Len(v) = Len(u) + k
  BY DEF Text
<1> HIDE DEF k
<1>5. /\ w \in Text /\ Len(w) = Len(u) + k
      /\ \A i \in 1..Len(u) : w[i] = u[i]
      /\ \A i \in Len(u) + 1..Len(u) + k : w[i] = Sep
  BY <1>4 DEF Text, Seps, Sep
<1> HIDE DEF w
<1>6. ASSUME NEW i \in 1..Len(v) PROVE w[i] = v[i]
  <2>1. CASE i <= m
    BY <1>1, <1>3, <1>4, <1>5, <2>1 DEF EndsAt
  <2>2. CASE ~(i <= m)
    <3>1. i \in m + 1..Len(v)
      BY <1>1, <1>4, <2>2 DEF EndsAt
    <3>2. v[i] = Sep
      BY <1>2, <1>3, <3>1 DEF EndsAt
    <3>3. i <= Len(u) => u[i] = Sep
      BY <1>1, <1>4, <3>1 DEF EndsAt
    <3> QED
      BY <1>4, <1>5, <3>2, <3>3
  <2> QED
    BY <2>1, <2>2
<1> QED
  BY <1>4, <1>5, <1>6, SameSeq DEF w, k, Text

-----------------------------------------------------------------------------
(***************************************************************************)
(* Escaping, and reading what was escaped.                                 *)
(***************************************************************************)

\* What a character is written as.
Written(r) == IF r \in DOMAIN Entities THEN Entities[r] ELSE <<r>>

\* An entity begins with an ampersand and has no other, nor a line end; its second
\* character tells which one it is.
LEMMA EntitiesAre ==
  /\ DOMAIN Entities = {38, 60, 62, 34}
  /\ \A e \in DOMAIN Entities :
       /\ Entities[e] \in Text /\ Len(Entities[e]) \in 4..6
       /\ Entities[e][1] = Amp
       /\ \A j \in 2..Len(Entities[e]) : Entities[e][j] \notin {Amp, Lt, CR, LF}
       /\ \A f \in DOMAIN Entities : Entities[e][2] = Entities[f][2] => e = f
<1>1. /\ DOMAIN Entities = {38, 60, 62, 34}
      /\ Entities[38] = <<38, 97, 109, 112, 59>> /\ Entities[60] = <<38, 108, 116, 59>>
      /\ Entities[62] = <<38, 103, 116, 59>> /\ Entities[34] = <<38, 113, 117, 111, 116, 59>>
  BY DEF Entities
<1> DEFINE Good(w) == /\ w \in Text /\ Len(w) \in 4..6 /\ w[1] = Amp
                      /\ \A j \in 2..Len(w) : w[j] \notin {Amp, Lt, CR, LF}
<1>2. Good(<<38, 97, 109, 112, 59>>)
  BY DEF Amp, Lt, CR, LF, Text
<1>3. Good(<<38, 108, 116, 59>>)
  BY DEF Amp, Lt, CR, LF, Text
<1>4. Good(<<38, 103, 116, 59>>)
  BY DEF Amp, Lt, CR, LF, Text
<1>5. Good(<<38, 113, 117, 111, 116, 59>>)
  BY DEF Amp, Lt, CR, LF, Text
<1>6. Entities[38][2] = 97 /\ Entities[60][2] = 108 /\ Entities[62][2] = 103 /\ Entities[34][2] = 113
  BY <1>1
<1> HIDE DEF Good
<1>7. \A e \in DOMAIN Entities : Good(Entities[e])
  BY <1>1, <1>2, <1>3, <1>4, <1>5
<1>8. \A e, f \in DOMAIN Entities : Entities[e][2] = Entities[f][2] => e = f
  BY <1>1, <1>6
<1> QED
  BY <1>1, <1>7, <1>8 DEF Good

\* What a character is written as: one character that is no more to be looked at, and
\* perhaps others.
LEMMA WrittenAre ==
  ASSUME NEW r \in Nat
  PROVE  /\ Written(r) \in Text /\ Len(Written(r)) \in Nat \ {0}
         /\ Written(r)[1] = IF r \in DOMAIN Entities THEN Amp ELSE r
         /\ r \notin DOMAIN Entities => r # Amp /\ r # Lt
         /\ \A j \in 2..Len(Written(r)) : Written(r)[j] \notin {Amp, Lt, CR, LF}
<1>1. CASE r \in DOMAIN Entities
  BY <1>1, EntitiesAre DEF Written
<1>2. CASE r \notin DOMAIN Entities
  <2>1. Written(r) = <<r>>
    BY <1>2 DEF Written
  <2>2. r # Amp /\ r # Lt
    BY <1>2, EntitiesAre DEF Amp, Lt
  <2>3. <<r>> \in Seq(Nat) /\ Len(<<r>>) = 1 /\ <<r>>[1] = r
    OBVIOUS
  <2> QED
    BY <1>2, <2>1, <2>2, <2>3 DEF Text
<1> QED
  BY <1>1, <1>2

\* An escaped text grows character by character.
LEMMA EscapeGrows ==
  /\ Escape(<<>>) = <<>>
  /\ \A u \in Text : Escape(u) \in Text
  /\ \A u \in Text, r \in Nat : Escape(Append(u, r)) = Escape(u) \o Written(r)
<1> DEFINE parts(u) == [i \in 1..Len(u) |-> Written(u[i])]
<1>1. \A u : Escape(u) = FlattenSeq(parts(u))
  BY DEF Escape, Written
<1>2. ASSUME NEW u \in Text PROVE parts(u) \in Seq(Seq(Nat))
  <2>1. \A i \in 1..Len(u) : Written(u[i]) \in Seq(Nat)
    <3>1. \A i \in 1..Len(u) : u[i] \in Nat
      BY DEF Text
    <3> QED
      BY <3>1, WrittenAre DEF Text
  <2>2. Len(u) \in Nat
    BY DEF Text
  <2> QED
    BY <2>1, <2>2
<1>3. ASSUME NEW u \in Text, NEW r \in Nat PROVE parts(Append(u, r)) = Append(parts(u), Written(r))
  <2> DEFINE t == Append(u, r)
             W == Written(r)
  <2>1. t \in Seq(Nat) /\ Len(u) \in Nat /\ Len(t) = Len(u) + 1 /\ t[Len(u) + 1] = r
        /\ \A i \in 1..Len(u) : t[i] = u[i]
    BY DEF Text
  <2>2. W \in Seq(Nat)
    BY WrittenAre DEF Text
  <2> HIDE DEF t, W
  <2>3. parts(t) \in Seq(Seq(Nat)) /\ parts(u) \in Seq(Seq(Nat))
    BY <1>2, <2>1 DEF Text
  <2>4. /\ Len(parts(t)) = Len(u) + 1 /\ Len(parts(u)) = Len(u)
        /\ \A i \in 1..Len(u) : parts(t)[i] = Written(u[i]) /\ parts(u)[i] = Written(u[i])
        /\ parts(t)[Len(u) + 1] = W
    BY <2>1 DEF W
  <2> DEFINE a == parts(t)
             b == parts(u)
             c == Append(b, W)
  <2>5. c \in Seq(Seq(Nat)) /\ Len(c) = Len(b) + 1 /\ c[Len(b) + 1] = W
        /\ \A i \in 1..Len(b) : c[i] = b[i]
    BY <2>2, <2>3
  <2>6. Len(a) = Len(c) /\ \A i \in 1..Len(c) : a[i] = c[i]
    <3> HIDE DEF parts
    <3>1. Len(a) = Len(u) + 1 /\ Len(b) = Len(u) /\ a[Len(u) + 1] = W
          /\ \A i \in 1..Len(u) : a[i] = b[i]
      BY <2>4
    <3>2. Len(c) = Len(b) + 1 /\ c[Len(b) + 1] = W /\ \A i \in 1..Len(b) : c[i] = b[i]
      BY <2>5
    <3> HIDE DEF a, b, c
    <3>3. Len(c) = Len(u) + 1 /\ c[Len(u) + 1] = W /\ \A i \in 1..Len(u) : c[i] = b[i]
      BY <3>1, <3>2
    <3>4. \A i \in 1..Len(u) + 1 : i \in 1..Len(u) \/ i = Len(u) + 1
      BY <2>1
    <3> QED
      BY <3>1, <3>3, <3>4
  <2>7. a = c
    <3> HIDE DEF a, b, c
    <3> QED
      BY <2>3, <2>5, <2>6, SameSeq DEF a
  <2> QED
    BY <2>7 DEF t, W
<1> HIDE DEF parts
<1>4. Escape(<<>>) = <<>>
  <2>1. parts(<<>>) = <<>>
    BY DEF parts
  <2> QED
    BY <1>1, <2>1, FlattenGrows
<1>5. ASSUME NEW u \in Text PROVE Escape(u) \in Text
  BY <1>1, <1>2, FlattenGrows DEF Text
<1>6. ASSUME NEW u \in Text, NEW r \in Nat PROVE Escape(Append(u, r)) = Escape(u) \o Written(r)
  <2>1. Written(r) \in Seq(Nat)
    BY WrittenAre DEF Text
  <2>2. FlattenSeq(Append(parts(u), Written(r))) = FlattenSeq(parts(u)) \o Written(r)
    BY <1>2, <2>1, FlattenGrows
  <2> QED
    BY <1>1, <1>3, <2>2
<1> QED
  BY <1>4, <1>5, <1>6

\* A text that ends with a carriage return.
EndsCR(u) == u # <<>> /\ u[Len(u)] = CR

\* The line ends of a text, character by character.
LEMMA LineEndsGrow ==
  /\ LineEnds(<<>>) = <<>>
  /\ \A u \in Text : LineEnds(u) \in Text
  /\ \A u \in Text, r \in Nat :
       LineEnds(Append(u, r)) =
         IF r = LF /\ EndsCR(u) THEN LineEnds(u)
         ELSE Append(LineEnds(u), IF r = CR THEN LF ELSE r)
<1> DEFINE chars(u) == [i \in 1..Len(u) |-> IF u[i] = CR THEN LF ELSE u[i]]
           keep(u) == {i \in 1..Len(u) : ~(u[i] = LF /\ i > 1 /\ u[i - 1] = CR)}
<1>1. \A u : LineEnds(u) = Kept(chars(u), keep(u))
  BY DEF LineEnds
<1>2. ASSUME NEW u \in Text PROVE chars(u) \in Seq(Nat) /\ Len(chars(u)) = Len(u)
  <2>1. Len(u) \in Nat /\ \A i \in 1..Len(u) : u[i] \in Nat
    BY DEF Text
  <2> QED
    BY <2>1 DEF LF
<1>3. LineEnds(<<>>) = <<>>
  <2>1. chars(<<>>) = <<>> /\ <<>> \in Seq(Nat)
    OBVIOUS
  <2> HIDE DEF chars, keep
  <2> QED
    BY <1>1, <2>1, KeptIsSeq
<1>4. ASSUME NEW u \in Text PROVE LineEnds(u) \in Text
  <2> HIDE DEF chars, keep
  <2> QED
    BY <1>1, <1>2, KeptIsSeq DEF Text
<1>5. ASSUME NEW u \in Text, NEW r \in Nat
      PROVE  LineEnds(Append(u, r)) =
               IF r = LF /\ EndsCR(u) THEN LineEnds(u)
               ELSE Append(LineEnds(u), IF r = CR THEN LF ELSE r)
  <2> DEFINE t == Append(u, r)
             n == Len(u)
             y == IF r = CR THEN LF ELSE r
  <2>1. t \in Text /\ n \in Nat /\ Len(t) = n + 1 /\ t[n + 1] = r /\ \A i \in 1..n : t[i] = u[i]
    BY DEF Text
  <2>2. u # <<>> <=> n > 0
    BY <2>1 DEF Text
  <2>3. y \in Nat
    BY DEF LF
  <2> HIDE DEF t, y
  <2>4. chars(t) = Append(chars(u), y)
    <3> DEFINE a == chars(t)
               b == chars(u)
               c == Append(b, y)
    <3>1. a \in Seq(Nat) /\ Len(a) = n + 1 /\ b \in Seq(Nat) /\ Len(b) = n
      BY <1>2, <2>1
    <3>2. a[n + 1] = y /\ \A i \in 1..n : a[i] = b[i]
      BY <2>1 DEF y
    <3> HIDE DEF a, b
    <3>3. c \in Seq(Nat) /\ Len(c) = n + 1 /\ c[n + 1] = y /\ \A i \in 1..n : c[i] = b[i]
      BY <2>3, <3>1
    <3>4. \A i \in 1..Len(c) : a[i] = c[i]
      BY <2>1, <3>2, <3>3
    <3> HIDE DEF c
    <3>5. a = c
      BY <3>1, <3>3, <3>4, SameSeq
    <3> QED
      BY <3>5 DEF a, b, c
  <2>5. keep(t) \cap (1..n) = keep(u) \cap (1..n)
    BY <2>1
  <2>6. n + 1 \in keep(t) <=> ~(r = LF /\ EndsCR(u))
    <3>1. n + 1 > 1 <=> u # <<>>
      BY <2>1, <2>2
    <3>2. n > 0 => t[(n + 1) - 1] = u[n]
      BY <2>1
    <3> QED
      BY <2>1, <2>2, <3>1, <3>2 DEF EndsCR
  <2>7. chars(u) \in Seq(Nat) /\ Len(chars(u)) = n
    BY <1>2
  <2> HIDE DEF chars, keep, n
  <2>8. Kept(chars(t), keep(t)) =
          IF n + 1 \in keep(t) THEN Append(Kept(chars(u), keep(u)), y) ELSE Kept(chars(u), keep(u))
    <3> DEFINE a == chars(u)
               A == keep(u)
               B == keep(t)
    <3>1. a \in Seq(Nat) /\ Len(a) = n /\ y \in Nat
      BY <2>3, <2>7
    <3>2. \A k \in 1..Len(a) : k \in B <=> k \in A
      BY <2>5, <2>7
    <3> HIDE DEF a, A, B
    <3>3. /\ Len(a) + 1 \in B => Kept(Append(a, y), B) = Append(Kept(a, A), y)
          /\ Len(a) + 1 \notin B => Kept(Append(a, y), B) = Kept(a, A)
      BY ONLY <3>1, <3>2, KeptGrows
    <3> QED
      BY <2>4, <3>1, <3>3 DEF a, A, B
  <2> QED
    BY <1>1, <2>6, <2>8 DEF t, y
<1> QED
  BY <1>3, <1>4, <1>5

\* Text without line ends is added as it is.
LEMMA LineEndsPlain ==
  ASSUME NEW u \in Text, NEW w \in Text, \A j \in 1..Len(w) : w[j] # CR /\ w[j] # LF
  PROVE  /\ LineEnds(u \o w) = LineEnds(u) \o w
         /\ Len(w) > 0 => ~EndsCR(u \o w)
<1> DEFINE Plainly(x) == \A j \in 1..Len(x) : x[j] # CR /\ x[j] # LF
           T == {x \in Text : Plainly(x) => LineEnds(u \o x) = LineEnds(u) \o x}
<1>1. <<>> \in T
  <2>1. <<>> \in Text /\ u \o <<>> = u
    BY DEF Text
  <2>2. LineEnds(u) \o <<>> = LineEnds(u)
    <3>1. LineEnds(u) \in Seq(Nat)
      BY LineEndsGrow DEF Text
    <3> QED
      BY <3>1
  <2> QED
    BY <2>1, <2>2
<1>2. ASSUME NEW x \in Seq(Nat), NEW r \in Nat, x \in T PROVE Append(x, r) \in T
  <2> DEFINE more == Append(x, r)
  <2>1. more \in Text /\ Len(x) \in Nat /\ Len(more) = Len(x) + 1 /\ more[Len(x) + 1] = r
        /\ \A j \in 1..Len(x) : more[j] = x[j]
    BY DEF Text
  <2>2. SUFFICES ASSUME Plainly(more) PROVE LineEnds(u \o more) = LineEnds(u) \o more
    BY <2>1
  <2>3. r # CR /\ r # LF
    BY <2>1, <2>2
  <2>4. LineEnds(u \o x) = LineEnds(u) \o x
    <3>1. Plainly(x)
      BY <2>1, <2>2
    <3> QED
      BY <1>2, <3>1
  <2>5. u \o more = Append(u \o x, r) /\ u \o x \in Text
    BY Concat DEF Text
  <2>6. LineEnds(Append(u \o x, r)) = Append(LineEnds(u \o x), r)
    BY <2>3, <2>5, LineEndsGrow
  <2>7. LineEnds(u) \in Seq(Nat)
    BY LineEndsGrow DEF Text
  <2>8. Append(LineEnds(u) \o x, r) = LineEnds(u) \o more
    <3> DEFINE a == LineEnds(u)
    <3> HIDE DEF a
    <3>1. a \o Append(x, r) = Append(a \o x, r)
      BY <2>7, Concat DEF a
    <3> QED
      BY <3>1 DEF a
  <2> QED
    BY <2>4, <2>5, <2>6, <2>8
<1>3. w \in Seq(Nat)
  BY DEF Text
<1>4. w \in T
  <2> HIDE DEF T
  <2> QED
    BY <1>1, <1>2, <1>3, SeqInduction
<1>5. Len(w) > 0 => ~EndsCR(u \o w)
  <2>1. u \in Seq(Nat) /\ w \in Seq(Nat)
    BY DEF Text
  <2>2. Len(w) > 0 => Len(u \o w) = Len(u) + Len(w) /\ (u \o w)[Len(u) + Len(w)] = w[Len(w)]
    BY <2>1
  <2>3. Len(w) > 0 => w[Len(w)] # CR
    BY <2>1
  <2> QED
    BY <2>2, <2>3 DEF EndsCR
<1> QED
  BY <1>4, <1>5

\* Line ends may be read before or after escaping.
LEMMA LineEndsEscape ==
  ASSUME NEW v \in Text
  PROVE  LineEnds(Escape(v)) = Escape(LineEnds(v))
<1> DEFINE T == {u \in Text : /\ LineEnds(Escape(u)) = Escape(LineEnds(u))
                              /\ EndsCR(Escape(u)) <=> EndsCR(u)}
<1>1. <<>> \in T
  <2>1. <<>> \in Text
    BY DEF Text
  <2> QED
    BY <2>1, EscapeGrows, LineEndsGrow
<1>2. ASSUME NEW u \in Seq(Nat), NEW r \in Nat, u \in T PROVE Append(u, r) \in T
  <2> DEFINE t == Append(u, r)
             e == Escape(u)
             l == LineEnds(u)
  <2>1. /\ u \in Text /\ t \in Text /\ e \in Text /\ l \in Text
        /\ LineEnds(e) = Escape(l) /\ (EndsCR(e) <=> EndsCR(u))
    BY <1>2, EscapeGrows, LineEndsGrow DEF Text
  <2>2. EndsCR(t) <=> r = CR
    BY DEF EndsCR
  <2>3. Escape(t) = e \o Written(r)
    BY <2>1, EscapeGrows
  <2>4. LineEnds(t) = IF r = LF /\ EndsCR(u) THEN l ELSE Append(l, IF r = CR THEN LF ELSE r)
    BY <2>1, LineEndsGrow
  <2>5. \A x \in Nat : Escape(Append(l, x)) = Escape(l) \o Written(x)
    BY <2>1, EscapeGrows
  <2> HIDE DEF t, e, l
  <2>6. CASE r \in DOMAIN Entities
    <3>1. Written(r) \in Text /\ Len(Written(r)) > 0 /\ r # CR /\ r # LF
          /\ \A j \in 1..Len(Written(r)) : Written(r)[j] # CR /\ Written(r)[j] # LF
      <4>1. r # CR /\ r # LF /\ Amp # CR /\ Amp # LF
        BY <2>6, EntitiesAre DEF CR, LF, Amp
      <4>2. Written(r) \in Text /\ Len(Written(r)) \in Nat \ {0} /\ Written(r)[1] = Amp
            /\ \A j \in 2..Len(Written(r)) : Written(r)[j] # CR /\ Written(r)[j] # LF
        BY <2>6, WrittenAre
      <4>3. \A j \in 1..Len(Written(r)) : j = 1 \/ j \in 2..Len(Written(r))
        BY <4>2
      <4> QED
        BY <4>1, <4>2, <4>3
    <3>2. LineEnds(e \o Written(r)) = LineEnds(e) \o Written(r) /\ ~EndsCR(e \o Written(r))
      BY <2>1, <3>1, LineEndsPlain
    <3>3. LineEnds(t) = Append(l, r)
      BY <2>4, <3>1
    <3>4. LineEnds(Escape(t)) = Escape(LineEnds(t))
      BY <2>1, <2>3, <2>5, <3>2, <3>3
    <3> QED
      BY <2>1, <2>2, <2>3, <3>1, <3>2, <3>4 DEF t
  <2>7. CASE r \notin DOMAIN Entities
    <3>1. Written(r) = <<r>>
      BY <2>7 DEF Written
    <3>2. e \in Seq(Nat)
      BY <2>1 DEF Text
    <3>3. e \o <<r>> = Append(e, r)
      BY <3>2, Concat
    <3>4. Escape(t) = Append(e, r)
      BY <2>3, <3>1, <3>3
    <3>5. LineEnds(Escape(t)) = IF r = LF /\ EndsCR(e) THEN LineEnds(e)
                                ELSE Append(LineEnds(e), IF r = CR THEN LF ELSE r)
      BY <2>1, <3>4, LineEndsGrow
    <3> DEFINE y == IF r = CR THEN LF ELSE r
    <3>6. y \in Nat /\ Written(y) = <<y>>
      <4>1. LF \in Nat /\ LF \notin DOMAIN Entities
        BY EntitiesAre DEF LF
      <4> QED
        BY <2>7, <4>1 DEF Written
    <3> HIDE DEF y
    <3>7. Escape(Append(l, y)) = Append(Escape(l), y)
      <4>1. Escape(l) \in Seq(Nat)
        BY <2>1, EscapeGrows DEF Text
      <4>2. Escape(l) \o <<y>> = Append(Escape(l), y)
        BY <3>6, <4>1, Concat
      <4> QED
        BY <2>5, <3>6, <4>2
    <3>8. LineEnds(Escape(t)) = Escape(LineEnds(t))
      BY <2>1, <2>4, <3>5, <3>7 DEF y
    <3>9. EndsCR(Escape(t)) <=> r = CR
      BY <3>2, <3>4 DEF EndsCR
    <3> QED
      BY <2>1, <2>2, <3>8, <3>9 DEF t
  <2> QED
    BY <2>6, <2>7
<1>3. v \in Seq(Nat)
  BY DEF Text
<1>4. v \in T
  <2> HIDE DEF T
  <2> QED
    BY <1>1, <1>2, <1>3, SeqInduction
<1> QED
  BY <1>4

\* The entities that stand at a position, the ampersands, the positions that no entity
\* covers beyond its ampersand, and what is read at a position.
EntityAt(s, i) == {e \in DOMAIN Entities : IsPrefix(Entities[e], SubSeq(s, i, Len(s)))}
Amps(s)        == {i \in 1..Len(s) : s[i] = Amp}
Outside(s)     == {j \in 1..Len(s) :
                     ~\E i \in Amps(s) : \E e \in EntityAt(s, i) :
                        j \in i + 1..i + Len(Entities[e]) - 1}
Meant(s)       == [i \in 1..Len(s) |->
                     IF s[i] = Amp THEN CHOOSE e \in EntityAt(s, i) : TRUE ELSE s[i]]

\* These are what the XML reader makes of a text.
LEMMA ReadByParts ==
  ASSUME NEW raw
  PROVE  ReadText(raw) =
           IF Lt \in Range(LineEnds(raw)) \/ \E i \in Amps(LineEnds(raw)) : EntityAt(LineEnds(raw), i) = {}
           THEN <<>> ELSE <<Kept(Meant(LineEnds(raw)), Outside(LineEnds(raw)))>>
BY DEF ReadText, EntityAt, Amps, Outside, Meant

\* The entity of e stands at i, character by character.
Spelled(s, i, e) ==
  /\ i + Len(Entities[e]) - 1 <= Len(s)
  /\ \A j \in 1..Len(Entities[e]) : s[i + j - 1] = Entities[e][j]

\* That is what the prefix test asks.
LEMMA EntityIsSpelled ==
  ASSUME NEW s \in Text, NEW i \in 1..Len(s), NEW e \in DOMAIN Entities
  PROVE  e \in EntityAt(s, i) <=> Spelled(s, i, e)
<1> DEFINE w == Entities[e]
           r == SubSeq(s, i, Len(s))
           a == SubSeq(w, 1, Len(w))
           b == SubSeq(r, 1, Len(w))
<1>1. w \in Seq(Nat) /\ Len(w) \in 4..6
  BY EntitiesAre DEF Text
<1>2. s \in Seq(Nat) /\ Len(s) \in Nat
  BY DEF Text
<1>3. r \in Seq(Nat) /\ Len(r) = Len(s) - i + 1 /\ \A j \in 1..Len(r) : r[j] = s[i + j - 1]
  BY <1>2
<1> HIDE DEF w, r
<1>4. IsPrefix(w, r) <=> Len(w) <= Len(r) /\ a = b
  BY <1>1, <1>3 DEF IsPrefix
<1>5. a = w
  BY <1>1
<1>6. ASSUME Len(w) <= Len(r)
      PROVE  b \in Seq(Nat) /\ Len(b) = Len(w) /\ \A j \in 1..Len(w) : b[j] = r[j]
  BY <1>1, <1>3, <1>6
<1> HIDE DEF a, b
<1>7. ASSUME Len(w) <= Len(r) PROVE w = b <=> \A j \in 1..Len(w) : r[j] = w[j]
  <2>1. w = b => \A j \in 1..Len(w) : r[j] = w[j]
    BY <1>6, <1>7
  <2>2. ASSUME \A j \in 1..Len(w) : r[j] = w[j] PROVE w = b
    <3>1. b \in Seq(Nat) /\ Len(w) = Len(b) /\ \A j \in 1..Len(b) : w[j] = b[j]
      BY <1>6, <1>7, <2>2
    <3> QED
      BY ONLY <1>1, <3>1, SameSeq
  <2> QED
    BY <2>1, <2>2
<1>8. Len(w) <= Len(r) <=> i + Len(w) - 1 <= Len(s)
  BY <1>1, <1>2, <1>3
<1>9. ASSUME Len(w) <= Len(r)
      PROVE  (\A j \in 1..Len(w) : r[j] = w[j]) <=> \A j \in 1..Len(w) : s[i + j - 1] = w[j]
  <2>1. \A j \in 1..Len(w) : j \in 1..Len(r)
    BY <1>1, <1>3, <1>9
  <2>2. \A j \in 1..Len(w) : r[j] = s[i + j - 1]
    BY <1>3, <2>1
  <2> QED
    BY ONLY <2>2
<1> QED
  BY <1>4, <1>5, <1>7, <1>8, <1>9 DEF EntityAt, Spelled, w, r

\* What stands beyond the last position of a set is not kept.
LEMMA KeptEnds ==
  ASSUME NEW S, NEW s \in Seq(S), NEW at, NEW k \in 0..Len(s), at \cap (k + 1..Len(s)) = {}
  PROVE  Kept(s, at) = Kept(SubSeq(s, 1, k), at)
<1> DEFINE t == SubSeq(s, 1, k)
           n == Len(s)
<1>1. n \in Nat /\ k \in Nat /\ k <= n
  OBVIOUS
<1>2. t \in Seq(S) /\ Len(t) = k /\ \A j \in 1..k : t[j] = s[j]
  BY Cut
<1> HIDE DEF t
<1>3. PICK f : Keeps(S, s, at, f) /\ Kept(s, at) = f[n]
  BY KeptKeeps
<1>4. PICK g : Keeps(S, t, at, g) /\ Kept(t, at) = g[k]
  BY <1>2, KeptKeeps
<1> HIDE DEF n
<1>5. f[0] = g[0]
  BY <1>3, <1>4 DEF Keeps
<1>6. ASSUME NEW j \in 1..k, f[j - 1] = g[j - 1] PROVE f[j] = g[j]
  <2>1. f[j] = KeptNext(f[j - 1], s, at, j)
    BY <1>1, <1>3 DEF Keeps, n
  <2>2. g[j] = KeptNext(g[j - 1], t, at, j)
    BY <1>2, <1>4 DEF Keeps
  <2> QED
    BY <1>2, <1>6, <2>1, <2>2 DEF KeptNext
<1>7. f[k] = g[k]
  BY ONLY <1>1, <1>5, <1>6, SameEnd
<1> DEFINE T == {j \in Nat : k + j <= n => f[k + j] = f[k]}
<1>8. 0 \in T
  BY <1>1
<1>9. ASSUME NEW j \in 0..(n - k) - 1, j \in T PROVE j + 1 \in T
  <2>1. k + (j + 1) \in 1..n /\ (k + (j + 1)) - 1 = k + j /\ k + (j + 1) \in k + 1..n
    BY <1>1
  <2>2. f[k + (j + 1)] = KeptNext(f[(k + (j + 1)) - 1], s, at, k + (j + 1))
    BY <1>3, <2>1 DEF Keeps, n
  <2>3. k + (j + 1) \notin at
    BY <2>1 DEF n
  <2>4. f[k + j] = f[k]
    BY <1>1, <1>9
  <2> QED
    BY <2>1, <2>2, <2>3, <2>4 DEF KeptNext
<1>10. n - k \in T
  <2>1. n - k \in Nat /\ \A j \in 0..(n - k) - 1 : j \in T => j + 1 \in T
    BY <1>1, <1>9
  <2> HIDE DEF T
  <2>2. \A j \in 0..n - k : j \in T
    BY <1>8, <2>1, Induction, Zenon
  <2> QED
    BY <2>1, <2>2
<1>11. f[n] = f[k]
  <2>1. k + (n - k) = n /\ n <= n
    BY <1>1
  <2> QED
    BY <1>10, <2>1
<1> QED
  BY <1>3, <1>4, <1>7, <1>11 DEF t

\* The text s is read as v: nothing in it opens an element, every ampersand is that of
\* one entity, and what the positions outside the entities mean is v.
ReadsAs(s, v) ==
  /\ s \in Text /\ v \in Text
  /\ \A i \in 1..Len(s) : s[i] # Lt
  /\ \A i \in Amps(s) : \E e \in DOMAIN Entities : EntityAt(s, i) = {e}
  /\ Kept(Meant(s), Outside(s)) = v

\* An entity that stands in a text stands there, alone, when the text goes on.
LEMMA EntityStays ==
  ASSUME NEW s \in Text, NEW w \in Text, NEW i \in 1..Len(s), NEW e \in DOMAIN Entities,
         Spelled(s, i, e)
  PROVE  EntityAt(s \o w, i) = {e}
<1> DEFINE t == s \o w
<1>1. s \in Seq(Nat) /\ w \in Seq(Nat)
  BY DEF Text
<1>2. /\ t \in Text /\ Len(s) \in Nat /\ Len(w) \in Nat /\ Len(t) = Len(s) + Len(w)
      /\ \A j \in 1..Len(s) : t[j] = s[j]
  BY <1>1 DEF Text
<1> HIDE DEF t
<1>3. i \in 1..Len(t)
  BY <1>2
<1>4. \A f \in DOMAIN Entities : Len(Entities[f]) \in 4..6
  BY EntitiesAre
<1>5. Spelled(t, i, e)
  <2>1. i + Len(Entities[e]) - 1 <= Len(t)
    BY <1>2, <1>4 DEF Spelled
  <2>2. ASSUME NEW j \in 1..Len(Entities[e]) PROVE t[i + j - 1] = Entities[e][j]
    <3>1. i + j - 1 \in 1..Len(s)
      BY <1>2, <1>4 DEF Spelled
    <3> QED
      BY <1>2, <3>1 DEF Spelled
  <2> QED
    BY <2>1, <2>2 DEF Spelled
<1>6. ASSUME NEW f \in DOMAIN Entities, Spelled(t, i, f) PROVE f = e
  <2>1. 2 \in 1..Len(Entities[e]) /\ 2 \in 1..Len(Entities[f])
    <3>1. Len(Entities[e]) \in 4..6 /\ Len(Entities[f]) \in 4..6
      BY <1>4
    <3>2. \A k \in 4..6 : 2 \in 1..k
      OBVIOUS
    <3> QED
      BY ONLY <3>1, <3>2, Zenon
  <2>2. t[i + 2 - 1] = Entities[e][2] /\ t[i + 2 - 1] = Entities[f][2]
    BY <1>5, <1>6, <2>1 DEF Spelled
  <2> QED
    BY <2>2, EntitiesAre
<1>7. \A f \in DOMAIN Entities : f \in EntityAt(t, i) <=> Spelled(t, i, f)
  BY <1>2, <1>3, EntityIsSpelled
<1>8. EntityAt(t, i) \subseteq DOMAIN Entities
  BY DEF EntityAt
<1> QED
  BY <1>5, <1>6, <1>7, <1>8 DEF t

\* What a character is written as is read as the character.
LEMMA WrittenIsRead ==
  ASSUME NEW s, NEW v, NEW r \in Nat, ReadsAs(s, v)
  PROVE  ReadsAs(s \o Written(r), Append(v, r))
<1> DEFINE w == Written(r)
           t == s \o w
           n == Len(s)
           m == Len(w)
<1>1. s \in Text /\ w \in Text /\ v \in Text /\ s \in Seq(Nat) /\ w \in Seq(Nat) /\ v \in Seq(Nat)
  BY WrittenAre DEF ReadsAs, Text
<1>2. /\ m \in Nat \ {0}
      /\ w[1] = IF r \in DOMAIN Entities THEN Amp ELSE r
      /\ r \notin DOMAIN Entities => r # Amp /\ r # Lt
      /\ \A j \in 2..m : w[j] \notin {Amp, Lt}
      /\ r \in DOMAIN Entities => w = Entities[r]
      /\ r \notin DOMAIN Entities => m = 1
  <2>1. r \in DOMAIN Entities => w = Entities[r]
    BY DEF Written
  <2>2. r \notin DOMAIN Entities => w = <<r>>
    BY DEF Written
  <2>3. Len(<<r>>) = 1
    OBVIOUS
  <2> QED
    BY <2>1, <2>2, <2>3, WrittenAre
<1> HIDE DEF w
<1>3. /\ t \in Text /\ n \in Nat /\ Len(t) = n + m
      /\ \A j \in 1..n : t[j] = s[j]
      /\ \A j \in 1..m : t[n + j] = w[j]
  BY <1>1, <1>2 DEF Text
<1> HIDE DEF t, m, n
<1>4. \A j \in 1..n + m : j \in 1..n \/ j = n + 1 \/ (j - n \in 2..m /\ t[j] = w[j - n])
  <2>1. ASSUME NEW j \in 1..n + m, j \notin 1..n, j # n + 1 PROVE j - n \in 2..m /\ t[j] = w[j - n]
    <3>1. j - n \in 2..m /\ j - n \in 1..m /\ n + (j - n) = j
      BY <1>2, <1>3, <2>1
    <3> QED
      BY <1>3, <3>1
  <2> QED
    BY <2>1
<1>5. t[n + 1] = IF r \in DOMAIN Entities THEN Amp ELSE r
  <2>1. 1 \in 1..m
    BY <1>2
  <2> QED
    BY <1>2, <1>3, <2>1
<1>6. Amps(t) = Amps(s) \cup (IF r \in DOMAIN Entities THEN {n + 1} ELSE {})
  <2>1. ASSUME NEW j \in 1..n + m, t[j] = Amp
        PROVE  j \in 1..n \/ (r \in DOMAIN Entities /\ j = n + 1)
    BY <1>2, <1>4, <1>5, <2>1
  <2>2. Amps(t) = {j \in 1..n + m : t[j] = Amp}
    BY <1>3 DEF Amps
  <2>3. Amps(s) = {j \in 1..n : s[j] = Amp}
    BY DEF Amps, n
  <2>4. n + 1 \in 1..n + m /\ \A j \in 1..n : j \in 1..n + m
    BY <1>2, <1>3
  <2>5. ASSUME NEW j \in Amps(t) PROVE j \in Amps(s) \cup (IF r \in DOMAIN Entities THEN {n + 1} ELSE {})
    <3>1. j \in 1..n + m /\ t[j] = Amp
      BY <2>2
    <3>2. j \in 1..n => s[j] = Amp
      BY <1>3, <3>1
    <3> QED
      BY <2>1, <2>3, <3>1, <3>2
  <2>6. ASSUME NEW j \in Amps(s) PROVE j \in Amps(t)
    BY <1>3, <2>2, <2>3, <2>4
  <2>7. r \in DOMAIN Entities => n + 1 \in Amps(t)
    BY <1>5, <2>2, <2>4
  <2> QED
    BY <2>5, <2>6, <2>7
<1>7. ASSUME NEW i \in Amps(s)
      PROVE  \E e \in DOMAIN Entities :
               /\ EntityAt(s, i) = {e} /\ EntityAt(t, i) = {e}
               /\ i \in 1..n /\ i + Len(Entities[e]) - 1 <= n
  <2>1. PICK e \in DOMAIN Entities : EntityAt(s, i) = {e}
    BY DEF ReadsAs
  <2>2. i \in 1..Len(s)
    BY DEF Amps
  <2>3. Spelled(s, i, e)
    BY <1>1, <2>1, <2>2, EntityIsSpelled
  <2>4. EntityAt(t, i) = {e}
    BY <1>1, <2>2, <2>3, EntityStays DEF t
  <2> QED
    BY <2>1, <2>2, <2>3, <2>4 DEF Spelled, n
<1>8. ASSUME r \in DOMAIN Entities PROVE EntityAt(t, n + 1) = {r}
  <2>1. n + 1 \in 1..Len(t) /\ (n + 1) + Len(Entities[r]) - 1 <= Len(t)
    BY <1>2, <1>3, <1>8 DEF m
  <2>2. ASSUME NEW j \in 1..Len(Entities[r]) PROVE t[(n + 1) + j - 1] = Entities[r][j]
    <3>1. j \in 1..m /\ (n + 1) + j - 1 = n + j
      BY <1>2, <1>3, <1>8 DEF m
    <3> QED
      BY <1>2, <1>3, <1>8, <3>1
  <2>3. Spelled(t, n + 1, r)
    BY <2>1, <2>2 DEF Spelled
  <2>4. EntityAt(t \o <<>>, n + 1) = {r}
    <3>1. <<>> \in Text
      BY DEF Text
    <3> QED
      BY <1>3, <1>8, <2>1, <2>3, <3>1, EntityStays
  <2>5. t \o <<>> = t
    BY <1>3 DEF Text
  <2> QED
    BY <2>4, <2>5
<1>9. \A i \in 1..n + m : t[i] # Lt
  <2>1. Amp # Lt
    BY DEF Amp, Lt
  <2>2. \A i \in 1..n : t[i] # Lt
    BY <1>3 DEF ReadsAs, n
  <2> QED
    BY <1>2, <1>4, <1>5, <2>1, <2>2
<1>10. \A i \in Amps(t) : \E e \in DOMAIN Entities : EntityAt(t, i) = {e}
  BY <1>6, <1>7, <1>8
<1>11. Outside(t) \cap (1..n) = Outside(s) \cap (1..n)
  <2>1. ASSUME NEW j \in 1..n
        PROVE  (\E i \in Amps(t) : \E e \in EntityAt(t, i) : j \in i + 1..i + Len(Entities[e]) - 1)
               <=> \E i \in Amps(s) : \E e \in EntityAt(s, i) : j \in i + 1..i + Len(Entities[e]) - 1
    <3>1. \A k \in Int : j \notin (n + 1) + 1..k
      BY <1>3
    <3>2. \A i \in Amps(s) : EntityAt(t, i) = EntityAt(s, i)
      BY <1>7
    <3>3. \A e \in DOMAIN Entities : (n + 1) + Len(Entities[e]) - 1 \in Int
      BY <1>3, EntitiesAre DEF Text
    <3>4. \A e \in DOMAIN Entities : j \notin (n + 1) + 1..(n + 1) + Len(Entities[e]) - 1
      BY <3>1, <3>3
    <3>5. EntityAt(t, n + 1) \subseteq DOMAIN Entities
      BY DEF EntityAt
    <3> QED
      BY <1>6, <3>2, <3>4, <3>5
  <2>2. \A j \in 1..n : j \in 1..Len(t) /\ j \in 1..Len(s)
    BY <1>2, <1>3 DEF n
  <2> QED
    BY <2>1, <2>2 DEF Outside
<1>12. n + 1 \in Outside(t)
  <2>1. n + 1 \in 1..Len(t)
    BY <1>2, <1>3
  <2>2. ASSUME NEW i \in Amps(t), NEW e \in EntityAt(t, i)
        PROVE  n + 1 \notin i + 1..i + Len(Entities[e]) - 1
    <3>1. CASE i \in Amps(s)
      <4>1. PICK f \in DOMAIN Entities :
              EntityAt(t, i) = {f} /\ i \in 1..n /\ i + Len(Entities[f]) - 1 <= n
        BY <1>7, <3>1
      <4>2. e = f /\ Len(Entities[f]) \in Nat
        BY <4>1, EntitiesAre DEF Text
      <4> QED
        BY <1>3, <4>1, <4>2
    <3>2. CASE i = n + 1
      BY <1>3, <3>2
    <3> QED
      BY <1>6, <3>1, <3>2
  <2> QED
    BY <2>1, <2>2 DEF Outside
<1>13. ASSUME NEW j \in n + 2..n + m PROVE j \notin Outside(t)
  <2>1. r \in DOMAIN Entities
    BY <1>2, <1>3
  <2>2. n + 1 \in Amps(t) /\ r \in EntityAt(t, n + 1)
    BY <1>6, <1>8, <2>1
  <2>3. j \in (n + 1) + 1..(n + 1) + Len(Entities[r]) - 1
    BY <1>2, <1>3, <2>1 DEF m
  <2> QED
    BY <2>2, <2>3 DEF Outside
<1> DEFINE a == Meant(s)
           b == Meant(t)
<1>14. /\ a \in Seq(Nat) /\ Len(a) = n
       /\ b \in Seq(Nat) /\ Len(b) = n + m
       /\ b[n + 1] = r /\ \A i \in 1..n : b[i] = a[i]
  <2>1. DOMAIN Entities \subseteq Nat
    BY EntitiesAre
  <2>2. ASSUME NEW u \in Text, \A i \in Amps(u) : \E e \in DOMAIN Entities : EntityAt(u, i) = {e}
        PROVE  Meant(u) \in Seq(Nat) /\ Len(Meant(u)) = Len(u)
    <3>1. Len(u) \in Nat /\ \A i \in 1..Len(u) : u[i] \in Nat
      BY DEF Text
    <3>2. ASSUME NEW i \in 1..Len(u)
          PROVE  (IF u[i] = Amp THEN CHOOSE e \in EntityAt(u, i) : TRUE ELSE u[i]) \in Nat
      <4>1. u[i] = Amp => i \in Amps(u)
        BY DEF Amps
      <4> QED
        BY <2>1, <2>2, <3>1, <4>1
    <3> QED
      BY <3>1, <3>2 DEF Meant
  <2>3. a \in Seq(Nat) /\ Len(a) = n
    BY <1>1, <2>2 DEF ReadsAs, n
  <2>4. b \in Seq(Nat) /\ Len(b) = n + m
    BY <1>3, <1>10, <2>2
  <2>5. n + 1 \in 1..Len(t) /\ \A i \in 1..n : i \in 1..Len(t) /\ i \in 1..Len(s)
    BY <1>2, <1>3 DEF n
  <2>6. b[n + 1] = r
    <3>1. b[n + 1] = IF t[n + 1] = Amp THEN CHOOSE e \in EntityAt(t, n + 1) : TRUE ELSE t[n + 1]
      BY <2>5 DEF Meant
    <3>2. CASE r \in DOMAIN Entities
      BY <1>5, <1>8, <3>1, <3>2
    <3>3. CASE r \notin DOMAIN Entities
      BY <1>2, <1>5, <3>1, <3>3
    <3> QED
      BY <3>2, <3>3
  <2>7. ASSUME NEW i \in 1..n PROVE b[i] = a[i]
    <3>1. t[i] = s[i] /\ (s[i] = Amp => EntityAt(t, i) = EntityAt(s, i))
      <4>1. s[i] = Amp => i \in Amps(s)
        BY DEF Amps, n
      <4> QED
        BY <1>3, <1>7, <4>1
    <3>2. /\ b[i] = IF t[i] = Amp THEN CHOOSE e \in EntityAt(t, i) : TRUE ELSE t[i]
          /\ a[i] = IF s[i] = Amp THEN CHOOSE e \in EntityAt(s, i) : TRUE ELSE s[i]
      BY <2>5 DEF Meant
    <3> QED
      BY <3>1, <3>2
  <2> QED
    BY <2>3, <2>4, <2>6, <2>7
<1>15. Kept(b, Outside(t)) = Append(v, r)
  <2> DEFINE A == Outside(s)
             B == Outside(t)
             c == SubSeq(b, 1, n + 1)
             x == Append(a, r)
  <2>1. B \cap (n + 2..n + m) = {} /\ n + 1 \in B /\ \A j \in 1..n : j \in B <=> j \in A
    BY <1>11, <1>12, <1>13
  <2>2. Kept(a, A) = v
    BY DEF ReadsAs
  <2>3. n + 1 \in 0..Len(b) /\ n + m = Len(b) /\ (n + 1) + 1 = n + 2
    BY <1>2, <1>3, <1>14
  <2> HIDE DEF A, B, a, b
  <2>4. B \cap ((n + 1) + 1..Len(b)) = {}
    BY <2>1, <2>3
  <2>5. Kept(b, B) = Kept(c, B)
    BY ONLY <1>14, <2>3, <2>4, KeptEnds
  <2>6. c \in Seq(Nat) /\ Len(c) = n + 1 /\ \A j \in 1..n + 1 : c[j] = b[j]
    BY <1>14, <2>3, Cut
  <2>7. x \in Seq(Nat) /\ Len(x) = n + 1 /\ x[n + 1] = r /\ \A j \in 1..n : x[j] = a[j]
    BY <1>14
  <2> HIDE DEF c, x
  <2>8. \A j \in 1..n + 1 : c[j] = x[j]
    <3>1. \A j \in 1..n + 1 : j \in 1..n \/ j = n + 1
      BY <1>3
    <3> QED
      BY <1>3, <1>14, <2>6, <2>7, <3>1
  <2>9. c = x
    BY <2>6, <2>7, <2>8, SameSeq
  <2>10. n + 1 \in B => Kept(Append(a, r), B) = Append(Kept(a, A), r)
    <3>1. a \in Seq(Nat) /\ Len(a) = n /\ r \in Nat
      BY <1>14
    <3>2. \A j \in 1..Len(a) : j \in B <=> j \in A
      BY <2>1, <3>1
    <3>3. Len(a) + 1 \in B => Kept(Append(a, r), B) = Append(Kept(a, A), r)
      BY ONLY <3>1, <3>2, KeptGrows
    <3> QED
      BY <3>1, <3>3
  <2> QED
    BY <2>1, <2>2, <2>5, <2>9, <2>10 DEF x, B
<1>16. Append(v, r) \in Text
  BY <1>1 DEF Text
<1> HIDE DEF a, b
<1> QED
  BY <1>3, <1>9, <1>10, <1>15, <1>16 DEF ReadsAs, t, w, b

\* Every text can be read from what it is escaped to.
LEMMA EscapedReads ==
  ASSUME NEW v \in Text
  PROVE  ReadsAs(Escape(v), v)
<1> DEFINE T == {u \in Text : ReadsAs(Escape(u), u)}
<1>1. <<>> \in T
  <2>1. <<>> \in Text /\ Escape(<<>>) = <<>>
    BY EscapeGrows DEF Text
  <2>2. Meant(<<>>) = <<>> /\ Amps(<<>>) = {}
    BY DEF Meant, Amps
  <2>3. Kept(Meant(<<>>), Outside(<<>>)) = <<>>
    <3>1. <<>> \in Seq(Nat)
      OBVIOUS
    <3> QED
      BY <2>2, <3>1, KeptIsSeq
  <2> QED
    BY <2>1, <2>2, <2>3 DEF ReadsAs
<1>2. ASSUME NEW u \in Seq(Nat), NEW r \in Nat, u \in T PROVE Append(u, r) \in T
  <2>1. Append(u, r) \in Text /\ u \in Text
    BY DEF Text
  <2>2. Escape(Append(u, r)) = Escape(u) \o Written(r)
    BY <2>1, EscapeGrows
  <2>3. ReadsAs(Escape(u) \o Written(r), Append(u, r))
    BY <1>2, WrittenIsRead
  <2> QED
    BY <2>1, <2>2, <2>3
<1>3. v \in Seq(Nat)
  BY DEF Text
<1>4. v \in T
  <2> HIDE DEF T
  <2> QED
    BY <1>1, <1>2, <1>3, SeqInduction
<1> QED
  BY <1>4

\* So an XML reader reads what was escaped, with its line ends.
LEMMA EscapedIsText ==
  ASSUME NEW v \in Text
  PROVE  ReadText(Escape(v)) = <<LineEnds(v)>>
<1> DEFINE u == LineEnds(v)
           s == Escape(u)
<1>1. u \in Text
  BY LineEndsGrow
<1>2. ReadsAs(s, u)
  BY <1>1, EscapedReads
<1>3. LineEnds(Escape(v)) = s
  BY LineEndsEscape
<1> HIDE DEF s, u
<1>4. Lt \notin Range(s)
  BY <1>2 DEF ReadsAs, Text, Range
<1>5. \A i \in Amps(s) : EntityAt(s, i) # {}
  BY <1>2 DEF ReadsAs
<1> QED
  BY <1>2, <1>3, <1>4, <1>5, ReadByParts DEF ReadsAs, u

-----------------------------------------------------------------------------
(***************************************************************************)
(* Exported names.                                                         *)
(***************************************************************************)

\* The letters and digits of a text with its capitals, and whether it ends with one.
Capped(s)    == [i \in 1..Len(s) |->
                   IF i = 1 \/ ~IsAlnum(s[i - 1]) THEN ToUpper(s[i]) ELSE s[i]]
Letters(s)   == Kept(Capped(s), {i \in 1..Len(s) : IsAlnum(s[i])})
EndsAlnum(s) == s # <<>> /\ IsAlnum(s[Len(s)])

\* That is what an exported name is made of.
LEMMA ExportIs ==
  ASSUME NEW s \in Text
  PROVE  ExportName[s] = CASE Letters(s) = <<>> -> <<88>>
                           [] Letters(s) # <<>> /\ IsDigit(Letters(s)[1]) -> <<78>> \o Letters(s)
                           [] OTHER -> Letters(s)
BY DEF ExportName, Letters, Capped

\* Characters stay characters.
LEMMA CaseIs ==
  ASSUME NEW r \in Nat
  PROVE  /\ ToUpper(r) \in Nat /\ ToLower(r) \in Nat
         /\ IsAlnum(r) => /\ ToUpper(r) \in Uppers \cup Digits
                          /\ ToLower(r) \in Lowers \cup Digits
         /\ r \in Uppers \cup Digits => ToUpper(r) = r
         /\ r \in Lowers \cup Digits => ToLower(r) = r
         /\ r \in Uppers => ToLower(r) \in Lowers /\ ToUpper(ToLower(r)) = r
         /\ r \in Lowers => ToUpper(r) \in Uppers /\ ToLower(ToUpper(r)) = r
BY DEF ToUpper, ToLower, IsAlnum, Alnum, Uppers, Lowers, Digits

\* No letter is both.
LEMMA CaseTells == \A r \in Uppers : r \notin Lowers
BY DEF Uppers, Lowers

\* The letters and digits, character by character.
LEMMA LettersGrow ==
  /\ Letters(<<>>) = <<>>
  /\ \A u \in Text, r \in Nat :
       Letters(Append(u, r)) =
         IF IsAlnum(r) THEN Append(Letters(u), IF EndsAlnum(u) THEN r ELSE ToUpper(r))
         ELSE Letters(u)
<1> DEFINE keep(u) == {i \in 1..Len(u) : IsAlnum(u[i])}
<1>1. \A u : Letters(u) = Kept(Capped(u), keep(u))
  BY DEF Letters
<1>2. ASSUME NEW u \in Text PROVE Capped(u) \in Seq(Nat) /\ Len(Capped(u)) = Len(u)
  <2>1. Len(u) \in Nat /\ \A i \in 1..Len(u) : u[i] \in Nat
    BY DEF Text
  <2>2. \A i \in 1..Len(u) : (IF i = 1 \/ ~IsAlnum(u[i - 1]) THEN ToUpper(u[i]) ELSE u[i]) \in Nat
    BY <2>1, CaseIs
  <2> QED
    BY <2>1, <2>2 DEF Capped
<1>3. Letters(<<>>) = <<>>
  <2>1. Capped(<<>>) = <<>> /\ <<>> \in Seq(Nat)
    BY DEF Capped
  <2> HIDE DEF keep
  <2> QED
    BY <1>1, <2>1, KeptIsSeq
<1>4. ASSUME NEW u \in Text, NEW r \in Nat
      PROVE  Letters(Append(u, r)) =
               IF IsAlnum(r) THEN Append(Letters(u), IF EndsAlnum(u) THEN r ELSE ToUpper(r))
               ELSE Letters(u)
  <2> DEFINE t == Append(u, r)
             n == Len(u)
             y == IF EndsAlnum(u) THEN r ELSE ToUpper(r)
  <2>1. t \in Text /\ n \in Nat /\ Len(t) = n + 1 /\ t[n + 1] = r /\ \A i \in 1..n : t[i] = u[i]
    BY DEF Text
  <2>2. u # <<>> <=> n > 0
    BY <2>1 DEF Text
  <2>3. y \in Nat
    BY CaseIs
  <2> HIDE DEF t, y
  <2>4. Capped(t) = Append(Capped(u), y)
    <3> DEFINE a == Capped(t)
               b == Capped(u)
               c == Append(b, y)
    <3>1. a \in Seq(Nat) /\ Len(a) = n + 1 /\ b \in Seq(Nat) /\ Len(b) = n
      BY <1>2, <2>1
    <3>2. a[n + 1] = y
      <4>1. a[n + 1] = IF n + 1 = 1 \/ ~IsAlnum(t[(n + 1) - 1]) THEN ToUpper(t[n + 1]) ELSE t[n + 1]
        BY <2>1 DEF Capped
      <4>2. n > 0 => t[(n + 1) - 1] = u[n]
        BY <2>1
      <4>3. n + 1 = 1 <=> u = <<>>
        BY <2>1, <2>2
      <4> QED
        BY <2>1, <2>2, <4>1, <4>2, <4>3 DEF EndsAlnum, y
    <3>3. ASSUME NEW i \in 1..n PROVE a[i] = b[i]
      <4>1. i \in 1..Len(t) /\ i \in 1..Len(u) /\ t[i] = u[i] /\ (i # 1 => t[i - 1] = u[i - 1])
        BY <2>1
      <4> QED
        BY <4>1 DEF Capped
    <3> HIDE DEF a, b
    <3>4. c \in Seq(Nat) /\ Len(c) = n + 1 /\ c[n + 1] = y /\ \A i \in 1..n : c[i] = b[i]
      BY <2>3, <3>1
    <3>5. \A i \in 1..Len(c) : a[i] = c[i]
      BY <2>1, <3>2, <3>3, <3>4
    <3> HIDE DEF c
    <3>6. a = c
      BY <3>1, <3>4, <3>5, SameSeq
    <3> QED
      BY <3>6 DEF a, b, c
  <2>5. keep(t) \cap (1..n) = keep(u) \cap (1..n)
    BY <2>1
  <2>6. n + 1 \in keep(t) <=> IsAlnum(r)
    BY <2>1
  <2>7. Capped(u) \in Seq(Nat) /\ Len(Capped(u)) = n
    BY <1>2
  <2> HIDE DEF keep, n
  <2>8. Kept(Capped(t), keep(t)) =
          IF n + 1 \in keep(t) THEN Append(Kept(Capped(u), keep(u)), y)
          ELSE Kept(Capped(u), keep(u))
    <3> DEFINE a == Capped(u)
               A == keep(u)
               B == keep(t)
    <3>1. a \in Seq(Nat) /\ Len(a) = n /\ y \in Nat
      BY <2>3, <2>7
    <3>2. \A k \in 1..Len(a) : k \in B <=> k \in A
      BY <2>5, <2>7
    <3> HIDE DEF a, A, B
    <3>3. /\ Len(a) + 1 \in B => Kept(Append(a, y), B) = Append(Kept(a, A), y)
          /\ Len(a) + 1 \notin B => Kept(Append(a, y), B) = Kept(a, A)
      BY ONLY <3>1, <3>2, KeptGrows
    <3> QED
      BY <2>4, <3>1, <3>3 DEF a, A, B
  <2> QED
    BY <1>1, <2>6, <2>8 DEF t, y
<1> QED
  BY <1>3, <1>4

\* They begin with no small letter.
LEMMA LettersAre ==
  ASSUME NEW v \in Text
  PROVE  /\ Letters(v) \in Seq(Alnum)
         /\ Letters(v) # <<>> => Letters(v)[1] \in Uppers \cup Digits
<1> DEFINE T == {u \in Text : /\ Letters(u) \in Seq(Alnum)
                              /\ EndsAlnum(u) => Letters(u) # <<>>
                              /\ Letters(u) # <<>> => Letters(u)[1] \in Uppers \cup Digits}
<1>1. <<>> \in T
  <2>1. <<>> \in Text /\ <<>> \in Seq(Alnum) /\ Letters(<<>>) = <<>>
    BY LettersGrow DEF Text
  <2>2. ~EndsAlnum(<<>>)
    BY DEF EndsAlnum
  <2> QED
    BY <2>1, <2>2
<1>2. ASSUME NEW u \in Seq(Nat), NEW r \in Nat, u \in T PROVE Append(u, r) \in T
  <2> DEFINE t == Append(u, r)
             l == Letters(u)
             y == IF EndsAlnum(u) THEN r ELSE ToUpper(r)
  <2>1. u \in Text /\ t \in Text /\ l \in Seq(Alnum) /\ (EndsAlnum(u) => l # <<>>)
        /\ (l # <<>> => l[1] \in Uppers \cup Digits)
    BY <1>2 DEF Text
  <2>2. EndsAlnum(t) <=> IsAlnum(r)
    BY DEF EndsAlnum
  <2>3. Letters(t) = IF IsAlnum(r) THEN Append(l, y) ELSE l
    BY <2>1, LettersGrow
  <2>4. IsAlnum(r) => y \in Alnum /\ (l = <<>> => y \in Uppers \cup Digits)
    BY <2>1, CaseIs DEF IsAlnum, Alnum
  <2> HIDE DEF t, l, y
  <2>5. CASE IsAlnum(r)
    <3>1. Append(l, y) \in Seq(Alnum) /\ Append(l, y) # <<>>
          /\ Append(l, y)[1] = IF l = <<>> THEN y ELSE l[1]
      BY <2>1, <2>4, <2>5, Appended
    <3>2. l # <<>> => l[1] \in Uppers \cup Digits
      BY <2>1
    <3>3. Append(l, y)[1] \in Uppers \cup Digits
      BY <2>4, <2>5, <3>1, <3>2
    <3>4. Letters(t) = Append(l, y)
      BY <2>3, <2>5
    <3> QED
      BY <2>1, <2>2, <3>1, <3>3, <3>4 DEF t
  <2>6. CASE ~IsAlnum(r)
    BY <2>1, <2>2, <2>3, <2>6 DEF t
  <2> QED
    BY <2>5, <2>6
<1>3. v \in Seq(Nat)
  BY DEF Text
<1>4. v \in T
  <2> HIDE DEF T
  <2> QED
    BY <1>1, <1>2, <1>3, SeqInduction
<1> QED
  BY <1>4

\* A name of letters and digits.
Plainly(v) == v \in Seq(Alnum) /\ v # <<>>

\* The letters of a name of letters are the name with a capital.
WithCapital(v) == [v EXCEPT ![1] = ToUpper(v[1])]

\* These are texts.
LEMMA AlnumIsText == Alnum \subseteq Nat /\ Seq(Alnum) \subseteq Text
<1>1. Alnum \subseteq Nat
  BY DEF Alnum, Uppers, Lowers, Digits
<1> QED
  BY <1>1, SeqsWithin DEF Text

\* A name of letters and digits only gets a capital.
LEMMA LettersOf ==
  ASSUME NEW v, Plainly(v)
  PROVE  Letters(v) = WithCapital(v)
<1> DEFINE T == {u \in Seq(Alnum) : u # <<>> => Letters(u) = WithCapital(u)}
<1>1. <<>> \in T
  OBVIOUS
<1>2. ASSUME NEW u \in Seq(Alnum), NEW r \in Alnum, u \in T PROVE Append(u, r) \in T
  <2> DEFINE t == Append(u, r)
  <2>1. u \in Text /\ t \in Seq(Alnum) /\ r \in Nat /\ IsAlnum(r)
    BY AlnumIsText DEF IsAlnum
  <2>2. EndsAlnum(u) <=> u # <<>>
    BY DEF EndsAlnum, IsAlnum
  <2>3. Letters(t) = Append(Letters(u), IF EndsAlnum(u) THEN r ELSE ToUpper(r))
    BY <2>1, LettersGrow
  <2>4. CASE u = <<>>
    <3>1. Letters(t) = <<ToUpper(r)>>
      <4>1. Letters(u) = <<>> /\ ~EndsAlnum(u)
        BY <2>2, <2>4, LettersGrow
      <4>2. Append(<<>>, ToUpper(r)) = <<ToUpper(r)>>
        OBVIOUS
      <4> QED
        BY <2>3, <4>1, <4>2
    <3>2. t = <<r>>
      BY <2>4
    <3>3. [<<r>> EXCEPT ![1] = ToUpper(<<r>>[1])] = <<ToUpper(r)>>
      OBVIOUS
    <3> QED
      BY <2>1, <3>1, <3>2, <3>3 DEF WithCapital
  <2>5. CASE u # <<>>
    <3> DEFINE c == ToUpper(u[1])
    <3>0. u[1] \in Alnum /\ 1 \in 1..Len(u) /\ Len(u) \in Nat
      BY <2>5
    <3>1. c \in Nat
      BY <3>0, AlnumIsText, CaseIs
    <3>2. t[1] = u[1]
      BY <3>0
    <3> HIDE DEF c
    <3>3. Append([u EXCEPT ![1] = c], r) = [Append(u, r) EXCEPT ![1] = c]
      <4> DEFINE a == Append([u EXCEPT ![1] = c], r)
                 b == [Append(u, r) EXCEPT ![1] = c]
      <4>1. u \in Seq(Nat) /\ [u EXCEPT ![1] = c] \in Seq(Nat) /\ Len([u EXCEPT ![1] = c]) = Len(u)
        BY <2>1, <3>0, <3>1 DEF Text
      <4>2. a \in Seq(Nat) /\ Len(a) = Len(u) + 1
        BY <2>1, <4>1
      <4>3. b \in Seq(Nat) /\ Len(b) = Len(u) + 1
        BY <2>1, <3>0, <3>1, <4>1
      <4>4. \A i \in 1..Len(b) : a[i] = b[i]
        <5>1. [u EXCEPT ![1] = c][1] = c /\ \A i \in 2..Len(u) : [u EXCEPT ![1] = c][i] = u[i]
          BY <3>0
        <5>2. /\ \A i \in 1..Len(u) : a[i] = [u EXCEPT ![1] = c][i]
              /\ a[Len(u) + 1] = r
          BY <2>1, <4>1, Appended
        <5>3. /\ \A i \in 1..Len(u) : Append(u, r)[i] = u[i]
              /\ Append(u, r)[Len(u) + 1] = r /\ Len(Append(u, r)) = Len(u) + 1
          BY <2>1, <4>1
        <5>4. b[1] = c /\ \A i \in 2..Len(u) + 1 : b[i] = Append(u, r)[i]
          <6> DEFINE f == Append(u, r)
          <6>1. DOMAIN f = 1..Len(u) + 1 /\ 1 \in 1..Len(u) + 1
            BY <3>0, <2>1
          <6>2. \A i \in 2..Len(u) + 1 : i \in 1..Len(u) + 1 /\ i # 1
            BY <3>0
          <6> HIDE DEF f
          <6>3. \A i \in DOMAIN f : [f EXCEPT ![1] = c][i] = IF i = 1 THEN c ELSE f[i]
            OBVIOUS
          <6> QED
            BY <6>1, <6>2, <6>3 DEF f
        <5>5. \A i \in 1..Len(b) : i = 1 \/ i \in 2..Len(u) \/ i = Len(u) + 1
          BY <3>0, <4>3
        <5>6. \A i \in 2..Len(u) : i \in 1..Len(u) /\ i \in 2..Len(u) + 1
          BY <3>0
        <5>7. Len(u) + 1 \in 2..Len(u) + 1
          BY <3>0
        <5> HIDE DEF a, b
        <5> QED
          BY <3>0, <5>1, <5>2, <5>3, <5>4, <5>5, <5>6, <5>7
      <4> HIDE DEF a, b
      <4>5. a = b
        BY <4>2, <4>3, <4>4, SameSeq
      <4> QED
        BY <4>5 DEF a, b
    <3> QED
      BY <1>2, <2>1, <2>2, <2>3, <2>5, <3>2, <3>3 DEF WithCapital, c
  <2> QED
    BY <2>4, <2>5
<1>3. v \in T
  <2>1. v \in Seq(Alnum)
    BY DEF Plainly
  <2> HIDE DEF T
  <2> QED
    BY <1>1, <1>2, <2>1, SeqInduction
<1> QED
  BY <1>3 DEF Plainly

\* An exported name is a name that begins with a capital.
LEMMA ExportNameIs ==
  ASSUME NEW s \in Text
  PROVE  Plainly(ExportName[s]) /\ ExportName[s][1] \in Uppers
<1> DEFINE l == Letters(s)
<1>1. l \in Seq(Alnum) /\ (l # <<>> => l[1] \in Uppers \cup Digits)
  BY LettersAre
<1>2. 88 \in Uppers /\ 78 \in Uppers /\ 88 \in Alnum /\ 78 \in Alnum
  BY DEF Uppers, Alnum
<1> HIDE DEF l
<1>3. CASE l = <<>>
  <2>1. ExportName[s] = <<88>>
    BY <1>3, ExportIs DEF l
  <2>2. <<88>> \in Seq(Alnum) /\ <<88>> # <<>> /\ <<88>>[1] = 88
    BY <1>2
  <2> QED
    BY <1>2, <2>1, <2>2 DEF Plainly
<1>4. CASE l # <<>> /\ IsDigit(l[1])
  <2>1. <<78>> \o l \in Seq(Alnum) /\ <<78>> \o l # <<>> /\ (<<78>> \o l)[1] = 78
    BY <1>1, <1>2
  <2> QED
    BY <1>2, <1>4, <2>1, ExportIs DEF l, Plainly
<1>5. CASE l # <<>> /\ ~IsDigit(l[1])
  <2>1. ExportName[s] = l
    BY <1>5, ExportIs DEF l
  <2> QED
    BY <1>1, <1>5, <2>1 DEF Plainly, IsDigit
<1> QED
  BY <1>3, <1>4, <1>5

\* A name of letters gets a capital when it is exported.
LEMMA ExportOfName ==
  ASSUME NEW v, Plainly(v), v[1] \in Uppers \cup Lowers
  PROVE  /\ ExportName[v] = WithCapital(v)
         /\ v[1] \in Uppers => WithCapital(v) = v
<1>1. v \in Seq(Alnum) /\ v # <<>> /\ 1 \in 1..Len(v) /\ v \in Text /\ v[1] \in Nat
  <2>1. v \in Seq(Alnum) /\ v # <<>>
    BY DEF Plainly
  <2>2. 1 \in 1..Len(v) /\ v[1] \in Alnum
    BY <2>1
  <2> QED
    BY <2>1, <2>2, AlnumIsText
<1>2. Letters(v) = WithCapital(v)
  BY LettersOf
<1>3. WithCapital(v)[1] = ToUpper(v[1]) /\ WithCapital(v) # <<>>
  BY <1>1 DEF WithCapital
<1>4. ToUpper(v[1]) \in Uppers /\ (v[1] \in Uppers => ToUpper(v[1]) = v[1])
  BY <1>1, CaseIs
<1>5. ~IsDigit(ToUpper(v[1]))
  BY <1>4 DEF IsDigit, Digits, Uppers
<1>6. v[1] \in Uppers => WithCapital(v) = v
  BY <1>1, <1>4 DEF WithCapital
<1> QED
  BY <1>1, <1>2, <1>3, <1>5, <1>6, ExportIs

-----------------------------------------------------------------------------
(***************************************************************************)
(* Parameter names.                                                        *)
(***************************************************************************)

\* The text begins with so many capitals, and no more.
Leading(v, run) ==
  /\ run \in 0..Len(v)
  /\ \A i \in 1..run : v[i] \in Uppers
  /\ run < Len(v) => v[run + 1] \notin Uppers

\* The first characters of a text in small letters.
LowerFirst(v, i) == [j \in 1..i |-> ToLower(v[j])] \o SubSeq(v, i + 1, Len(v))

\* How many of the leading capitals become small.
Lowered(v, run) == IF run > 1 /\ run < Len(v) THEN run - 1 ELSE run

\* Which they are.
LEMMA UncappedIs ==
  ASSUME NEW v \in Text
  PROVE  /\ \E run : Leading(v, run)
         /\ \A run : Leading(v, run) => Uncapped[v] = LowerFirst(v, Lowered(v, run))
<1> DEFINE S == {Len(v)} \cup {i \in 0..Len(v) - 1 : v[i + 1] \notin Uppers}
<1>1. Len(v) \in Nat
  BY DEF Text
<1>2. \A k, l \in S : (\A m \in S : k <= m) /\ (\A m \in S : l <= m) => k = l
  <2>1. S \subseteq Nat
    BY <1>1
  <2> HIDE DEF S
  <2>2. \A k, l \in Nat : k <= l /\ l <= k => k = l
    OBVIOUS
  <2> QED
    BY <2>1, <2>2
<1>3. PICK least \in S : \A m \in S : least <= m
  <2>1. S \in SUBSET Nat /\ S # {}
    BY <1>1
  <2> HIDE DEF S
  <2> QED
    BY <2>1, NatHasLeast
<1>4. \A run : Leading(v, run) => run \in S /\ \A m \in S : run <= m
  <2> SUFFICES ASSUME NEW run, Leading(v, run) PROVE run \in S /\ \A m \in S : run <= m
    OBVIOUS
  <2>1. run \in 0..Len(v) /\ (run = Len(v) \/ run \in 0..Len(v) - 1)
    BY <1>1 DEF Leading
  <2>2. run \in S
    BY <1>1, <2>1 DEF Leading
  <2>3. ASSUME NEW m \in S, ~(run <= m) PROVE FALSE
    <3>1. m \in 0..Len(v) - 1 /\ v[m + 1] \notin Uppers
      BY <1>1, <2>1, <2>3
    <3>2. m + 1 \in 1..run
      BY <1>1, <2>1, <2>3, <3>1
    <3> QED
      BY <3>1, <3>2 DEF Leading
  <2> QED
    BY <2>2, <2>3
<1>5. Leading(v, least)
  <2>1. least \in 0..Len(v) /\ (least < Len(v) => v[least + 1] \notin Uppers)
    BY <1>1
  <2>2. ASSUME NEW i \in 1..least, v[i] \notin Uppers PROVE FALSE
    <3>1. i - 1 \in 0..Len(v) - 1 /\ (i - 1) + 1 = i
      BY <1>1, <2>1
    <3>2. i - 1 \in S
      BY <2>2, <3>1
    <3> HIDE DEF S
    <3>3. least <= i - 1
      BY <1>3, <3>2
    <3> QED
      BY <1>1, <2>1, <3>3
  <2> QED
    BY <2>1, <2>2 DEF Leading
<1>6. ASSUME NEW run, Leading(v, run) PROVE Uncapped[v] = LowerFirst(v, Lowered(v, run))
  <2>1. run \in S /\ \A m \in S : run <= m
    BY <1>4, <1>6
  <2> DEFINE min == CHOOSE k \in S : \A m \in S : k <= m
  <2>2. Min(S) = min
    BY DEF Min
  <2>3. min \in S /\ \A m \in S : min <= m
    <3> HIDE DEF S
    <3> QED
      BY <2>1
  <2>4. min = run
    <3> HIDE DEF S, min
    <3> QED
      BY <1>2, <2>1, <2>3
  <2>5. Min(S) = run
    BY <2>2, <2>4
  <2> HIDE DEF min
  <2>6. Uncapped[v] = LowerFirst(v, Lowered(v, Min(S)))
    BY DEF Uncapped, LowerFirst, Lowered
  <2> QED
    BY <2>5, <2>6
<1> QED
  BY <1>5, <1>6

\* Character by character.
LEMMA LowerFirstIs ==
  ASSUME NEW v \in Text, NEW i \in 0..Len(v)
  PROVE  /\ LowerFirst(v, i) \in Text /\ Len(LowerFirst(v, i)) = Len(v)
         /\ \A j \in 1..Len(v) : LowerFirst(v, i)[j] = IF j <= i THEN ToLower(v[j]) ELSE v[j]
<1> DEFINE a == [j \in 1..i |-> ToLower(v[j])]
           b == SubSeq(v, i + 1, Len(v))
<1>1. v \in Seq(Nat) /\ Len(v) \in Nat /\ i \in Nat
  BY DEF Text
<1>2. a \in Seq(Nat) /\ Len(a) = i /\ \A j \in 1..i : a[j] = ToLower(v[j])
  <2>1. \A j \in 1..i : v[j] \in Nat
    BY <1>1
  <2>2. \A j \in 1..i : ToLower(v[j]) \in Nat
    BY <2>1, CaseIs
  <2> QED
    BY <1>1, <2>2
<1>3. b \in Seq(Nat) /\ Len(b) = Len(v) - i /\ \A j \in 1..Len(v) - i : b[j] = v[i + j]
  BY <1>1, Cut
<1> HIDE DEF a, b
<1> DEFINE c == a \o b
<1>4. c \in Seq(Nat) /\ Len(c) = Len(v)
  <2>1. c \in Seq(Nat) /\ Len(c) = Len(a) + Len(b)
    BY <1>2, <1>3, Concatenated
  <2>2. i + (Len(v) - i) = Len(v)
    BY <1>1
  <2> QED
    BY <1>2, <1>3, <2>1, <2>2
<1>5. ASSUME NEW j \in 1..Len(v) PROVE c[j] = IF j <= i THEN ToLower(v[j]) ELSE v[j]
  <2>1. c[j] = IF j <= i THEN a[j] ELSE b[j - i]
    BY <1>1, <1>2, <1>3
  <2>2. j <= i => j \in 1..i
    BY <1>1
  <2>3. ~(j <= i) => j - i \in 1..Len(v) - i /\ i + (j - i) = j
    BY <1>1
  <2> QED
    BY <1>2, <1>3, <2>1, <2>2, <2>3
<1> QED
  BY <1>4, <1>5 DEF LowerFirst, Text, a, b

\* A name that begins with a small letter, and not with two capitals after it.
Param(w) ==
  /\ Plainly(w) /\ w[1] \in Lowers
  /\ Len(w) > 1 /\ w[2] \in Uppers => Len(w) > 2 /\ w[3] \notin Uppers

\* An exported name becomes such a name.
LEMMA UncappedIsParam ==
  ASSUME NEW v, Plainly(v), v[1] \in Uppers
  PROVE  Param(Uncapped[v])
<1>1. v \in Seq(Alnum) /\ v # <<>>
  BY DEF Plainly
<1>2. v \in Text /\ Len(v) \in Nat \ {0} /\ \A j \in 1..Len(v) : v[j] \in Alnum /\ v[j] \in Nat
  <2>1. v \in Text
    BY <1>1, AlnumIsText
  <2>2. Len(v) \in Nat \ {0} /\ \A j \in 1..Len(v) : v[j] \in Alnum
    BY <1>1
  <2> QED
    BY <2>1, <2>2, AlnumIsText
<1>3. PICK run : Leading(v, run)
  BY <1>2, UncappedIs
<1>4. run \in 1..Len(v)
  <2>1. run # 0
    BY <1>2, <1>3 DEF Leading
  <2> QED
    BY <1>2, <1>3, <2>1 DEF Leading
<1> DEFINE i == Lowered(v, run)
           w == LowerFirst(v, i)
<1>5. /\ i \in 1..Len(v) /\ i <= run
      /\ i = 1 => run = 1 \/ (run = 2 /\ 2 < Len(v))
  BY <1>2, <1>4 DEF Lowered
<1>6. Uncapped[v] = w
  BY <1>2, <1>3, UncappedIs
<1> HIDE DEF i
<1>7. /\ w \in Text /\ Len(w) = Len(v)
      /\ \A j \in 1..Len(v) : w[j] = IF j <= i THEN ToLower(v[j]) ELSE v[j]
  <2>1. i \in 0..Len(v)
    BY <1>2, <1>5
  <2> QED
    BY <1>2, <2>1, LowerFirstIs
<1> HIDE DEF w
<1>8. \A j \in 1..Len(v) : j <= i => v[j] \in Uppers
  BY <1>2, <1>3, <1>4, <1>5 DEF Leading
<1>9. \A j \in 1..Len(v) : j <= i => w[j] \in Lowers
  <2> SUFFICES ASSUME NEW j \in 1..Len(v), j <= i PROVE w[j] \in Lowers
    OBVIOUS
  <2>1. v[j] \in Nat /\ v[j] \in Uppers
    BY <1>2, <1>8
  <2>2. ToLower(v[j]) \in Lowers
    BY <2>1, CaseIs
  <2> QED
    BY <1>7, <2>2
<1>10. w \in Seq(Alnum)
  <2>1. \A j \in 1..Len(w) : w[j] \in Alnum
    BY <1>2, <1>7, <1>9 DEF Alnum
  <2>2. w \in [1..Len(w) -> Nat] /\ Len(w) \in Nat
    BY <1>7 DEF Text
  <2>3. w \in [1..Len(w) -> Alnum]
    BY <2>1, <2>2
  <2> QED
    BY <2>2, <2>3
<1>11. w # <<>> /\ w[1] \in Lowers
  <2>1. 1 \in 1..Len(v) /\ 1 <= i
    BY <1>2, <1>5
  <2> QED
    BY <1>7, <1>9, <2>1
<1>12. ASSUME Len(w) > 1, w[2] \in Uppers PROVE Len(w) > 2 /\ w[3] \notin Uppers
  <2>1. 2 \in 1..Len(v)
    BY <1>2, <1>7, <1>12
  <2>2. i = 1
    <3>1. w[2] \notin Lowers
      BY <1>12, CaseTells
    <3>2. ~(2 <= i)
      BY <1>9, <2>1, <3>1
    <3> QED
      BY <1>5, <3>2
  <2>3. v[2] \in Uppers
    <3>1. ~(2 <= i)
      BY <2>2
    <3> QED
      BY <1>7, <1>12, <2>1, <3>1
  <2>4. run # 1
    BY <1>3, <1>2, <1>7, <1>12, <2>3 DEF Leading
  <2>5. run = 2 /\ 2 < Len(v)
    BY <1>5, <2>2, <2>4
  <2>6. v[3] \notin Uppers
    BY <1>3, <2>5 DEF Leading
  <2>7. 3 \in 1..Len(v) /\ ~(3 <= i)
    BY <1>2, <2>2, <2>5
  <2> QED
    BY <1>7, <2>5, <2>6, <2>7
<1> QED
  BY <1>6, <1>10, <1>11, <1>12 DEF Param, Plainly

\* So it stays with a suffix.
LEMMA SuffixedIsParam ==
  ASSUME NEW w, Param(w)
  PROVE  Param(w \o NameText)
<1> DEFINE t == w \o NameText
<1>1. w \in Seq(Alnum) /\ Len(w) \in Nat \ {0} /\ w[1] \in Lowers
  BY DEF Param, Plainly
<1>2. NameText \in Seq(Alnum) /\ Len(NameText) = 4 /\ NameText[1] = 78 /\ NameText[2] = 97
  BY DEF NameText, Alnum, Uppers, Lowers, Digits
<1>3. /\ t \in Seq(Alnum) /\ Len(t) = Len(w) + 4
      /\ \A j \in 1..Len(w) : t[j] = w[j]
      /\ t[Len(w) + 1] = NameText[1] /\ t[Len(w) + 2] = NameText[2]
  <2> DEFINE u == NameText
  <2>1. u \in Seq(Alnum) /\ Len(u) = 4 /\ t = w \o u
    BY <1>2
  <2> HIDE DEF t, u
  <2>2. /\ t \in Seq(Alnum) /\ Len(t) = Len(w) + Len(u)
        /\ \A j \in 1..Len(w) : t[j] = w[j]
        /\ \A j \in 1..Len(u) : t[Len(w) + j] = u[j]
    <3>1. w \in Seq(Alnum) /\ u \in Seq(Alnum)
      BY <1>1, <2>1
    <3>2. /\ w \o u \in Seq(Alnum) /\ Len(w \o u) = Len(w) + Len(u)
          /\ \A j \in 1..Len(w) : (w \o u)[j] = w[j]
          /\ \A j \in 1..Len(u) : (w \o u)[Len(w) + j] = u[j]
      BY ONLY <3>1, Concatenated
    <3> QED
      BY ONLY <2>1, <3>2, Zenon
  <2>5. 1 \in 1..Len(u) /\ 2 \in 1..Len(u)
    BY <2>1
  <2> QED
    BY <2>1, <2>2, <2>5 DEF u
<1>4. 97 \notin Uppers
  BY DEF Uppers
<1> HIDE DEF t
<1>5. t # <<>> /\ t[1] \in Lowers
  BY <1>1, <1>3
<1>6. ASSUME t[2] \in Uppers PROVE Len(t) > 2 /\ t[3] \notin Uppers
  <2>1. CASE Len(w) = 1
    BY <1>2, <1>3, <1>4, <2>1
  <2>2. CASE Len(w) > 1
    <3>1. 2 \in 1..Len(w)
      BY <1>1, <2>2
    <3>2. w[2] \in Uppers
      BY <1>3, <1>6, <3>1
    <3>3. Len(w) > 2 /\ w[3] \notin Uppers
      BY <2>2, <3>2 DEF Param
    <3>4. 3 \in 1..Len(w)
      BY <1>1, <3>3
    <3> QED
      BY <1>1, <1>3, <3>3, <3>4
  <2>3. Len(w) = 1 \/ Len(w) > 1
    <3>1. \A k \in Nat \ {0} : k = 1 \/ k > 1
      OBVIOUS
    <3> QED
      BY ONLY <1>1, <3>1, Zenon
  <2> QED
    BY <2>1, <2>2, <2>3
<1> QED
  BY <1>3, <1>5, <1>6 DEF Param, Plainly, t

\* And its exported name becomes that name again.
LEMMA ParamIsStable ==
  ASSUME NEW w, Param(w)
  PROVE  Uncapped[ExportName[w]] = w
<1> DEFINE c == WithCapital(w)
           k == IF Len(w) > 1 /\ w[2] \in Uppers THEN 2 ELSE 1
<1>1. w \in Seq(Alnum) /\ Len(w) \in Nat \ {0} /\ w[1] \in Lowers /\ Plainly(w)
  BY DEF Param, Plainly
<1>2. ExportName[w] = c
  BY <1>1, ExportOfName
<1>3. w \in Text /\ 1 \in 1..Len(w) /\ w[1] \in Nat
  BY <1>1, AlnumIsText DEF Lowers
<1>4. ToUpper(w[1]) \in Uppers /\ ToUpper(w[1]) \in Nat /\ ToLower(ToUpper(w[1])) = w[1]
  BY <1>1, <1>3, CaseIs
<1>5. /\ c \in Text /\ Len(c) = Len(w)
      /\ c[1] = ToUpper(w[1]) /\ \A j \in 2..Len(w) : c[j] = w[j]
  BY <1>3, <1>4 DEF WithCapital, Text
<1> HIDE DEF c
<1>6. Leading(c, k) /\ Lowered(c, k) = 1
  <2>1. CASE Len(w) > 1 /\ w[2] \in Uppers
    <3>1. Len(w) > 2 /\ w[3] \notin Uppers
      BY <2>1 DEF Param
    <3>2. 2 \in 2..Len(w) /\ 3 \in 2..Len(w)
      BY <1>1, <3>1
    <3>3. c[1] \in Uppers /\ c[2] \in Uppers /\ c[3] \notin Uppers /\ k = 2
      BY <1>4, <1>5, <2>1, <3>1, <3>2
    <3>4. \A j \in 1..2 : c[j] \in Uppers
      BY <3>3
    <3> HIDE DEF k
    <3> QED
      BY <1>1, <1>5, <3>1, <3>3, <3>4 DEF Leading, Lowered
  <2>2. CASE ~(Len(w) > 1 /\ w[2] \in Uppers)
    <3>1. k = 1
      BY <2>2
    <3>2. 1 < Len(w) => c[2] \notin Uppers
      BY <1>1, <1>5, <2>2
    <3>3. \A j \in 1..1 : c[j] \in Uppers
      BY <1>4, <1>5
    <3> HIDE DEF k
    <3> QED
      BY <1>1, <1>5, <3>1, <3>2, <3>3 DEF Leading, Lowered
  <2> QED
    BY <2>1, <2>2
<1> HIDE DEF k
<1>7. Uncapped[c] = LowerFirst(c, 1)
  BY <1>5, <1>6, UncappedIs
<1>8. LowerFirst(c, 1) = w
  <2> DEFINE l == LowerFirst(c, 1)
  <2>1. 1 \in 0..Len(c)
    BY <1>1, <1>5
  <2>2. /\ l \in Text /\ Len(l) = Len(w)
        /\ \A j \in 1..Len(w) : l[j] = IF j <= 1 THEN ToLower(c[j]) ELSE c[j]
    BY <1>5, <2>1, LowerFirstIs
  <2> HIDE DEF l
  <2>3. ASSUME NEW j \in 1..Len(w) PROVE l[j] = w[j]
    <3>1. j = 1 \/ (j \in 2..Len(w) /\ ~(j <= 1))
      BY <1>1
    <3> QED
      BY <1>4, <1>5, <2>2, <3>1
  <2>4. l = w
    BY <1>3, <2>2, <2>3, SameSeq DEF Text
  <2> QED
    BY <2>4 DEF l
<1> QED
  BY <1>2, <1>7, <1>8

\* A parameter's name is a name that is not taken, and names itself.
LEMMA ParamNameIs ==
  ASSUME NEW s \in Text
  PROVE  /\ Param(ParamName(s)) /\ ParamName(s) \notin Reserved
         /\ ParamName(ParamName(s)) = ParamName(s)
<1> DEFINE out == Uncapped[ExportName[s]]
           p   == IF out \in Reserved THEN out \o NameText ELSE out
<1>1. Param(out)
  BY ExportNameIs, UncappedIsParam
<1>2. ParamName(s) = p
  BY DEF ParamName
<1>3. ParamName(p) = IF Uncapped[ExportName[p]] \in Reserved
                     THEN Uncapped[ExportName[p]] \o NameText ELSE Uncapped[ExportName[p]]
  BY DEF ParamName
<1> HIDE DEF out
<1>4. Param(p)
  BY <1>1, SuffixedIsParam
<1>5. p \notin Reserved
  BY ReservedAssumption
<1> HIDE DEF p
<1>6. Uncapped[ExportName[p]] = p
  BY <1>4, ParamIsStable
<1> QED
  BY <1>2, <1>3, <1>4, <1>5, <1>6

-----------------------------------------------------------------------------
(***************************************************************************)
(* Package names.                                                          *)
(***************************************************************************)

\* The characters of a package name, and a text of them that begins with none but a
\* letter or a digit and has no two underscores in a row.
NameChars == Lowers \cup Digits \cup {Underscore}
Neat(f) ==
  /\ f \in Seq(NameChars)
  /\ f # <<>> => f[1] # Underscore
  /\ \A i \in 1..Len(f) - 1 : ~(f[i] = Underscore /\ f[i + 1] = Underscore)

\* It ends with a letter or a digit.
Ended(f) == f # <<>> /\ f[Len(f)] # Underscore

\* The folded name, character by character.
LEMMA FoldedGrows ==
  /\ Folded(<<>>) = <<>>
  /\ \A u \in Text, r \in Nat :
       Folded(Append(u, r)) =
         IF IsAlnum(r) \/ EndsAlnum(u)
         THEN Append(Folded(u), IF IsAlnum(r) THEN ToLower(r) ELSE Underscore)
         ELSE Folded(u)
<1> DEFINE keep(u) == {i \in 1..Len(u) : IsAlnum(u[i]) \/ (i > 1 /\ IsAlnum(u[i - 1]))}
<1>1. \A u : Folded(u) = Kept(FoldedEach(u), keep(u))
  BY DEF Folded
<1>2. ASSUME NEW u \in Text PROVE FoldedEach(u) \in Seq(Nat) /\ Len(FoldedEach(u)) = Len(u)
  <2>1. Len(u) \in Nat /\ \A i \in 1..Len(u) : u[i] \in Nat
    BY DEF Text
  <2>2. \A i \in 1..Len(u) : (IF IsAlnum(u[i]) THEN ToLower(u[i]) ELSE Underscore) \in Nat
    BY <2>1, CaseIs DEF Underscore
  <2> QED
    BY <2>1, <2>2 DEF FoldedEach
<1>3. Folded(<<>>) = <<>>
  <2>1. FoldedEach(<<>>) = <<>> /\ <<>> \in Seq(Nat)
    BY DEF FoldedEach
  <2> HIDE DEF keep
  <2> QED
    BY <1>1, <2>1, KeptIsSeq
<1>4. ASSUME NEW u \in Text, NEW r \in Nat
      PROVE  Folded(Append(u, r)) =
               IF IsAlnum(r) \/ EndsAlnum(u)
               THEN Append(Folded(u), IF IsAlnum(r) THEN ToLower(r) ELSE Underscore)
               ELSE Folded(u)
  <2> DEFINE t == Append(u, r)
             n == Len(u)
             y == IF IsAlnum(r) THEN ToLower(r) ELSE Underscore
  <2>1. t \in Text /\ n \in Nat /\ Len(t) = n + 1 /\ t[n + 1] = r /\ \A i \in 1..n : t[i] = u[i]
    BY DEF Text
  <2>2. u # <<>> <=> n > 0
    BY <2>1 DEF Text
  <2>3. y \in Nat
    BY CaseIs DEF Underscore
  <2> HIDE DEF t, y
  <2>4. FoldedEach(t) = Append(FoldedEach(u), y)
    <3> DEFINE a == FoldedEach(t)
               b == FoldedEach(u)
               c == Append(b, y)
    <3>1. a \in Seq(Nat) /\ Len(a) = n + 1 /\ b \in Seq(Nat) /\ Len(b) = n
      BY <1>2, <2>1
    <3>2. a[n + 1] = y /\ \A i \in 1..n : a[i] = b[i]
      BY <2>1 DEF y, FoldedEach
    <3> HIDE DEF a, b
    <3>3. c \in Seq(Nat) /\ Len(c) = n + 1 /\ c[n + 1] = y /\ \A i \in 1..n : c[i] = b[i]
      BY <2>3, <3>1
    <3>4. \A i \in 1..Len(c) : a[i] = c[i]
      BY <2>1, <3>2, <3>3
    <3> HIDE DEF c
    <3>5. a = c
      BY <3>1, <3>3, <3>4, SameSeq
    <3> QED
      BY <3>5 DEF a, b, c
  <2>5. keep(t) \cap (1..n) = keep(u) \cap (1..n)
    BY <2>1
  <2>6. n + 1 \in keep(t) <=> IsAlnum(r) \/ EndsAlnum(u)
    <3>1. n + 1 > 1 <=> u # <<>>
      BY <2>1, <2>2
    <3>2. n > 0 => t[(n + 1) - 1] = u[n]
      BY <2>1
    <3> QED
      BY <2>1, <2>2, <3>1, <3>2 DEF EndsAlnum
  <2>7. FoldedEach(u) \in Seq(Nat) /\ Len(FoldedEach(u)) = n
    BY <1>2
  <2> HIDE DEF keep, n
  <2>8. Kept(FoldedEach(t), keep(t)) =
          IF n + 1 \in keep(t) THEN Append(Kept(FoldedEach(u), keep(u)), y)
          ELSE Kept(FoldedEach(u), keep(u))
    <3> DEFINE a == FoldedEach(u)
               A == keep(u)
               B == keep(t)
    <3>1. a \in Seq(Nat) /\ Len(a) = n /\ y \in Nat
      BY <2>3, <2>7
    <3>2. \A k \in 1..Len(a) : k \in B <=> k \in A
      BY <2>5, <2>7
    <3> HIDE DEF a, A, B
    <3>3. /\ Len(a) + 1 \in B => Kept(Append(a, y), B) = Append(Kept(a, A), y)
          /\ Len(a) + 1 \notin B => Kept(Append(a, y), B) = Kept(a, A)
      BY ONLY <3>1, <3>2, KeptGrows
    <3> QED
      BY <2>4, <3>1, <3>3 DEF a, A, B
  <2> QED
    BY <1>1, <2>6, <2>8 DEF t, y
<1> QED
  BY <1>3, <1>4

\* Neat texts go on neatly.
LEMMA NeatGrows ==
  ASSUME NEW f \in Seq(NameChars), NEW y \in NameChars
  PROVE  Neat(Append(f, y)) <=> Neat(f) /\ (y = Underscore => Ended(f))
<1> DEFINE t == Append(f, y)
           n == Len(f)
<1>1. /\ n \in Nat /\ t \in Seq(NameChars) /\ t # <<>> /\ Len(t) = n + 1
      /\ t[n + 1] = y /\ \A i \in 1..n : t[i] = f[i]
  BY Appended
<1>2. f # <<>> <=> n > 0
  OBVIOUS
<1> HIDE DEF t, n
<1>3. t[1] = IF n = 0 THEN y ELSE f[1]
  BY <1>1
<1>4. ASSUME Neat(t) PROVE Neat(f) /\ (y = Underscore => Ended(f))
  <2>1. f # <<>> => f[1] # Underscore
    BY <1>1, <1>2, <1>3, <1>4 DEF Neat
  <2>2. \A i \in 1..n - 1 : ~(f[i] = Underscore /\ f[i + 1] = Underscore)
    <3> SUFFICES ASSUME NEW i \in 1..n - 1 PROVE ~(f[i] = Underscore /\ f[i + 1] = Underscore)
      OBVIOUS
    <3>1. i \in 1..n /\ i + 1 \in 1..n /\ i \in 1..Len(t) - 1
      BY <1>1
    <3> QED
      BY <1>1, <1>4, <3>1 DEF Neat
  <2>3. ASSUME y = Underscore PROVE Ended(f)
    <3>1. n # 0
      BY <1>1, <1>3, <1>4, <2>3 DEF Neat
    <3>2. n \in 1..Len(t) - 1 /\ n \in 1..n
      BY <1>1, <3>1
    <3>3. f[n] # Underscore
      BY <1>1, <1>4, <2>3, <3>2 DEF Neat
    <3> QED
      BY <1>1, <1>2, <3>1, <3>3 DEF Ended, n
  <2> QED
    BY <2>1, <2>2, <2>3 DEF Neat, n
<1>5. ASSUME Neat(f), y = Underscore => Ended(f) PROVE Neat(t)
  <2>1. t[1] # Underscore
    <3>1. CASE n = 0
      BY <1>2, <1>1, <1>3, <1>5, <3>1 DEF Ended
    <3>2. CASE n # 0
      BY <1>1, <1>2, <1>3, <1>5, <3>2 DEF Neat
    <3> QED
      BY <3>1, <3>2
  <2>2. ASSUME NEW i \in 1..Len(t) - 1 PROVE ~(t[i] = Underscore /\ t[i + 1] = Underscore)
    <3>1. CASE i = n
      <4>1. t[i] = f[n] /\ t[i + 1] = y
        BY <1>1, <2>2, <3>1
      <4> QED
        BY <1>5, <4>1 DEF Ended, n
    <3>2. CASE i # n
      <4>1. i \in 1..n - 1 /\ i \in 1..n /\ i + 1 \in 1..n
        BY <1>1, <2>2, <3>2
      <4> QED
        BY <1>1, <1>5, <4>1 DEF Neat, n
    <3> QED
      BY <3>1, <3>2
  <2> QED
    BY <1>1, <2>1, <2>2 DEF Neat
<1> QED
  BY <1>4, <1>5 DEF t

\* A folded name is neat.
LEMMA FoldedIsNeat ==
  ASSUME NEW v \in Text
  PROVE  Neat(Folded(v)) /\ (EndsAlnum(v) <=> Ended(Folded(v)))
<1> DEFINE T == {u \in Text : Neat(Folded(u)) /\ (EndsAlnum(u) <=> Ended(Folded(u)))}
<1>1. <<>> \in T
  <2>1. <<>> \in Text /\ Folded(<<>>) = <<>> /\ <<>> \in Seq(NameChars)
    BY FoldedGrows DEF Text
  <2>2. ~EndsAlnum(<<>>) /\ ~Ended(<<>>)
    BY DEF EndsAlnum, Ended
  <2>3. Neat(<<>>)
    BY <2>1 DEF Neat
  <2> QED
    BY <2>1, <2>2, <2>3
<1>2. ASSUME NEW u \in Seq(Nat), NEW r \in Nat, u \in T PROVE Append(u, r) \in T
  <2> DEFINE t == Append(u, r)
             f == Folded(u)
             y == IF IsAlnum(r) THEN ToLower(r) ELSE Underscore
  <2>1. u \in Text /\ t \in Text /\ Neat(f) /\ (EndsAlnum(u) <=> Ended(f)) /\ f \in Seq(NameChars)
    BY <1>2 DEF Text, Neat
  <2>2. EndsAlnum(t) <=> IsAlnum(r)
    BY DEF EndsAlnum
  <2>3. Folded(t) = IF IsAlnum(r) \/ EndsAlnum(u) THEN Append(f, y) ELSE f
    BY <2>1, FoldedGrows
  <2>4. y \in NameChars /\ (y = Underscore <=> ~IsAlnum(r))
    <3>1. IsAlnum(r) => ToLower(r) \in Lowers \cup Digits
      BY CaseIs
    <3>2. Underscore \notin Lowers \cup Digits
      BY DEF Underscore, Lowers, Digits
    <3> QED
      BY <3>1, <3>2 DEF NameChars
  <2>5. Ended(Append(f, y)) <=> y # Underscore
    BY <2>1, <2>4 DEF Ended
  <2> HIDE DEF t, f, y
  <2>6. Neat(Append(f, y)) <=> Neat(f) /\ (y = Underscore => Ended(f))
    BY <2>1, <2>4, NeatGrows
  <2> QED
    BY <2>1, <2>2, <2>3, <2>4, <2>5, <2>6 DEF t
<1>3. v \in Seq(Nat)
  BY DEF Text
<1>4. v \in T
  <2> HIDE DEF T
  <2> QED
    BY <1>1, <1>2, <1>3, SeqInduction
<1> QED
  BY <1>4

\* A neat text stays what it is.
LEMMA FoldedOfNeat ==
  ASSUME NEW v, Neat(v)
  PROVE  Folded(v) = v
<1> DEFINE T == {f \in Seq(NameChars) : Neat(f) => Folded(f) = f}
<1>0. NameChars \subseteq Nat
  BY DEF NameChars, Lowers, Digits, Underscore
<1>1. <<>> \in T
  BY FoldedGrows
<1>2. ASSUME NEW f \in Seq(NameChars), NEW y \in NameChars, f \in T PROVE Append(f, y) \in T
  <2>1. Append(f, y) \in Seq(NameChars) /\ f \in Text /\ y \in Nat
    <3>1. f \in Seq(Nat)
      BY <1>0, SeqsWithin
    <3> QED
      BY <1>0, <3>1, Appended DEF Text
  <2>2. SUFFICES ASSUME Neat(Append(f, y)) PROVE Folded(Append(f, y)) = Append(f, y)
    BY <2>1
  <2>3. Neat(f) /\ (y = Underscore => Ended(f)) /\ Folded(f) = f
    BY <1>2, <2>2, NeatGrows
  <2>4. Folded(Append(f, y)) = IF IsAlnum(y) \/ EndsAlnum(f)
                               THEN Append(f, IF IsAlnum(y) THEN ToLower(y) ELSE Underscore) ELSE f
    BY <2>1, <2>3, FoldedGrows
  <2>5. \A z \in NameChars : z # Underscore => IsAlnum(z) /\ ToLower(z) = z
    <3>1. \A z \in NameChars : z # Underscore => z \in Lowers \cup Digits /\ z \in Nat
      BY <1>0 DEF NameChars
    <3> QED
      BY <3>1, CaseIs DEF IsAlnum, Alnum
  <2>6. ~IsAlnum(Underscore)
    BY DEF IsAlnum, Alnum, Underscore, Lowers, Uppers, Digits
  <2>7. CASE y = Underscore
    <3>1. f # <<>> /\ f[Len(f)] # Underscore
      BY <2>3, <2>7 DEF Ended
    <3>2. f[Len(f)] \in NameChars
      BY <3>1
    <3>3. EndsAlnum(f)
      BY <2>5, <3>1, <3>2 DEF EndsAlnum
    <3> QED
      BY <2>4, <2>6, <2>7, <3>3
  <2>8. CASE y # Underscore
    BY <2>4, <2>5, <2>8
  <2> QED
    BY <2>7, <2>8
<1>3. v \in T
  <2>1. v \in Seq(NameChars)
    BY DEF Neat
  <2> HIDE DEF T
  <2> QED
    BY <1>1, <1>2, <2>1, SeqInduction
<1> QED
  BY <1>3

\* A package name: neat, and from a letter to a letter or digit.
IsPackage(p) == Neat(p) /\ Ended(p) /\ p[1] \in Lowers

\* Without trailing underscores a neat text is neat.
LEMMA TrimmedIsNeat ==
  ASSUME NEW f, Neat(f)
  PROVE  LET t == TrimRight(f, {Underscore})
         IN  /\ Neat(t) /\ (t = <<>> \/ Ended(t))
             /\ Ended(f) => t = f
<1> DEFINE t == TrimRight(f, {Underscore})
<1>1. f \in Seq(NameChars) /\ f \in Text /\ Len(f) \in Nat
  <2>1. NameChars \subseteq Nat
    BY DEF NameChars, Lowers, Digits, Underscore
  <2>2. f \in Seq(NameChars)
    BY DEF Neat
  <2>3. f \in Seq(Nat)
    BY <2>1, <2>2, SeqsWithin
  <2> QED
    BY <2>2, <2>3 DEF Text
<1>2. PICK m \in 0..Len(f) :
        /\ t = SubSeq(f, 1, m)
        /\ m = 0 \/ f[m] \notin {Underscore}
        /\ \A i \in m + 1..Len(f) : f[i] \in {Underscore}
  BY <1>1, TrimRightEnds
<1> HIDE DEF t
<1>3. t \in Seq(NameChars) /\ Len(t) = m /\ \A i \in 1..m : t[i] = f[i]
  BY <1>1, <1>2, Cut
<1>4. Neat(t)
  <2>1. t # <<>> => t[1] # Underscore
    <3>1. t # <<>> => f # <<>> /\ 1 \in 1..m
      BY <1>1, <1>2, <1>3
    <3> QED
      BY <1>3, <3>1 DEF Neat
  <2>2. ASSUME NEW i \in 1..Len(t) - 1 PROVE ~(t[i] = Underscore /\ t[i + 1] = Underscore)
    <3>1. i \in 1..m /\ i + 1 \in 1..m /\ i \in 1..Len(f) - 1
      BY <1>1, <1>2, <1>3
    <3> QED
      BY <1>3, <3>1 DEF Neat
  <2> QED
    BY <1>3, <2>1, <2>2 DEF Neat
<1>5. t = <<>> \/ Ended(t)
  <2>1. t # <<>> => m # 0
    BY <1>3
  <2>2. m # 0 => m \in 1..m
    BY <1>1, <1>2
  <2> QED
    BY <1>2, <1>3, <2>1, <2>2 DEF Ended
<1>6. ASSUME Ended(f) PROVE t = f
  <2>1. Len(f) \notin m + 1..Len(f)
    BY <1>2, <1>6 DEF Ended
  <2>2. m = Len(f)
    BY <1>1, <1>2, <2>1
  <2>3. SubSeq(f, 1, Len(f)) = f
    BY <1>1
  <2> QED
    BY <1>2, <2>2, <2>3
<1> QED
  BY <1>4, <1>5, <1>6 DEF t

\* The end of a sequence.
LEMMA SuffixIs ==
  ASSUME NEW S, NEW s \in Seq(S), NEW t \in Seq(S), IsSuffix(s, t)
  PROVE  /\ Len(s) <= Len(t)
         /\ \A i \in 1..Len(s) : t[(Len(t) - Len(s)) + i] = s[i]
<1> DEFINE a == Reverse(s)
           b == Reverse(t)
<1>1. Len(s) \in Nat /\ Len(t) \in Nat
  OBVIOUS
<1>2. /\ a \in Seq(S) /\ Len(a) = Len(s) /\ \A i \in 1..Len(s) : a[i] = s[(Len(s) - i) + 1]
      /\ b \in Seq(S) /\ Len(b) = Len(t) /\ \A i \in 1..Len(t) : b[i] = t[(Len(t) - i) + 1]
  <2>1. \A i \in 1..Len(s) : s[(Len(s) - i) + 1] \in S
    <3>1. \A i \in 1..Len(s) : (Len(s) - i) + 1 \in 1..Len(s)
      BY <1>1
    <3> QED
      BY <3>1
  <2>2. \A i \in 1..Len(t) : t[(Len(t) - i) + 1] \in S
    <3>1. \A i \in 1..Len(t) : (Len(t) - i) + 1 \in 1..Len(t)
      BY <1>1
    <3> QED
      BY <3>1
  <2> QED
    BY <1>1, <2>1, <2>2 DEF Reverse
<1>3. IsPrefix(a, b)
  BY DEF IsSuffix
<1> HIDE DEF a, b
<1>4. PICK r \in Seq(S) : b = a \o r
  BY <1>2, <1>3, PrefixIsConcat
<1>5. Len(b) = Len(a) + Len(r) /\ Len(r) \in Nat /\ \A i \in 1..Len(a) : b[i] = a[i]
  BY <1>2, <1>4, Concatenated
<1>6. Len(s) <= Len(t)
  BY <1>1, <1>2, <1>5
<1>7. ASSUME NEW i \in 1..Len(s) PROVE t[(Len(t) - Len(s)) + i] = s[i]
  <2> DEFINE j == (Len(s) - i) + 1
  <2>1. /\ j \in 1..Len(s) /\ j \in 1..Len(t)
        /\ (Len(s) - j) + 1 = i /\ (Len(t) - j) + 1 = (Len(t) - Len(s)) + i
    BY <1>1, <1>6
  <2> HIDE DEF j
  <2>2. a[j] = s[i] /\ b[j] = t[(Len(t) - Len(s)) + i] /\ b[j] = a[j]
    BY <1>2, <1>5, <2>1
  <2> QED
    BY <2>2
<1> QED
  BY <1>6, <1>7

\* What PackageName makes of any name.
LEMMA PackageNameIs ==
  ASSUME NEW s \in Text
  PROVE  IsPackage(PackageName(s))
<1> DEFINE base == TrimSuffix(s, AreaText)
           out  == TrimRight(Folded(base), {Underscore})
           long == CspText \o out
<1>1. base \in Text
  <2>1. s \in Seq(Nat) /\ Len(s) \in Nat /\ Len(AreaText) = 8
    BY DEF Text, AreaText
  <2>2. CASE IsSuffix(AreaText, s)
    <3>1. Len(s) - Len(AreaText) \in 0..Len(s)
      <4>1. AreaText \in Seq(Nat)
        BY DEF AreaText
      <4>2. Len(AreaText) <= Len(s)
        BY <2>1, <2>2, <4>1, SuffixIs
      <4> QED
        BY <2>1, <4>2
    <3>2. SubSeq(s, 1, Len(s) - Len(AreaText)) \in Seq(Nat)
      BY <2>1, <3>1, Cut
    <3> QED
      BY <2>2, <3>2 DEF TrimSuffix, Text
  <2>3. CASE ~IsSuffix(AreaText, s)
    BY <2>3 DEF TrimSuffix
  <2> QED
    BY <2>2, <2>3
<1> HIDE DEF base
<1>2. Neat(out) /\ (out = <<>> \/ Ended(out))
  BY <1>1, FoldedIsNeat, TrimmedIsNeat
<1>3. PackageName(s) = CASE out = <<>> -> CspText
                         [] out # <<>> /\ IsDigit(out[1]) -> long
                         [] OTHER -> out
  BY DEF PackageName, base
<1> HIDE DEF out
<1>4. /\ CspText \in Seq(NameChars) /\ Len(CspText) = 3
      /\ CspText[1] \in Lowers /\ \A i \in 1..3 : CspText[i] # Underscore
  BY DEF CspText, NameChars, Lowers, Underscore
<1>5. CASE out = <<>>
  <2>1. Neat(CspText) /\ Ended(CspText)
    BY <1>4 DEF Neat, Ended
  <2> QED
    BY <1>3, <1>4, <1>5, <2>1 DEF IsPackage
<1>6. CASE out # <<>> /\ IsDigit(out[1])
  <2> DEFINE c == CspText
             n == Len(out)
  <2>1. out \in Seq(NameChars) /\ n \in Nat \ {0} /\ c \in Seq(NameChars) /\ long = c \o out
    BY <1>2, <1>4, <1>6 DEF Neat
  <2>2. /\ long \in Seq(NameChars) /\ Len(long) = 3 + n
        /\ \A i \in 1..3 : long[i] = c[i]
        /\ \A i \in 1..n : long[3 + i] = out[i]
    <3>1. /\ c \o out \in Seq(NameChars) /\ Len(c \o out) = Len(c) + Len(out)
          /\ \A i \in 1..Len(c) : (c \o out)[i] = c[i]
          /\ \A i \in 1..Len(out) : (c \o out)[Len(c) + i] = out[i]
      BY ONLY <2>1, Concatenated
    <3> QED
      BY ONLY <1>4, <2>1, <3>1 DEF n, c
  <2> HIDE DEF long, c
  <2>3. long # <<>> /\ long[1] \in Lowers /\ \A i \in 1..3 : long[i] # Underscore
    BY <1>4, <2>1, <2>2 DEF c
  <2>4. Neat(long)
    <3>1. ASSUME NEW i \in 1..Len(long) - 1 PROVE ~(long[i] = Underscore /\ long[i + 1] = Underscore)
      <4>1. CASE i <= 3
        <5>1. i \in 1..3
          BY <2>1, <2>2, <4>1
        <5> QED
          BY <2>3, <5>1
      <4>2. CASE ~(i <= 3)
        <5>1. i - 3 \in 1..n - 1 /\ i - 3 \in 1..n /\ (i - 3) + 1 \in 1..n
              /\ 3 + (i - 3) = i /\ 3 + ((i - 3) + 1) = i + 1
          BY <2>1, <2>2, <4>2
        <5>2. long[i] = out[i - 3] /\ long[i + 1] = out[(i - 3) + 1]
          BY <2>2, <5>1
        <5> QED
          BY <1>2, <5>1, <5>2 DEF Neat
      <4> QED
        BY <4>1, <4>2
    <3>2. long[1] # Underscore
      BY <2>3
    <3> QED
      BY <2>2, <3>1, <3>2 DEF Neat
  <2>5. Ended(long)
    <3>1. n \in 1..n
      BY <2>1
    <3>2. long[Len(long)] = out[n]
      BY <2>2, <3>1
    <3> QED
      BY <1>2, <1>6, <2>3, <3>2 DEF Ended
  <2> QED
    BY <1>3, <1>6, <2>3, <2>4, <2>5 DEF IsPackage, long
<1>7. CASE out # <<>> /\ ~IsDigit(out[1])
  <2>1. out \in Seq(NameChars) /\ out[1] # Underscore
    BY <1>2, <1>7 DEF Neat
  <2>2. out[1] \in NameChars
    BY <1>7, <2>1
  <2>3. out[1] \in Lowers
    BY <1>7, <2>1, <2>2 DEF NameChars, IsDigit
  <2> QED
    BY <1>2, <1>3, <1>7, <2>3 DEF IsPackage
<1> QED
  BY <1>5, <1>6, <1>7

\* A package name names itself.
LEMMA PackageOfPackage ==
  ASSUME NEW p, IsPackage(p)
  PROVE  PackageName(p) = p
<1>1. p \in Seq(NameChars) /\ Len(p) \in Nat /\ p # <<>>
  BY DEF IsPackage, Neat, Ended
<1>2. ~IsSuffix(AreaText, p)
  <2> SUFFICES ASSUME IsSuffix(AreaText, p) PROVE FALSE
    OBVIOUS
  <2>1. Len(AreaText) = 8 /\ AreaText[2] = 65 /\ AreaText \in Seq(Nat)
    BY DEF AreaText
  <2>2. p \in Seq(Nat)
    <3>1. NameChars \subseteq Nat
      BY DEF NameChars, Lowers, Digits, Underscore
    <3> QED
      BY <1>1, <3>1, SeqsWithin
  <2>3. Len(AreaText) <= Len(p) /\ \A i \in 1..Len(AreaText) :
          p[(Len(p) - Len(AreaText)) + i] = AreaText[i]
    <3>1. AreaText \in Seq(Nat) /\ p \in Seq(Nat) /\ IsSuffix(AreaText, p)
      BY <2>1, <2>2
    <3> QED
      BY ONLY <3>1, SuffixIs
  <2> DEFINE k == (Len(p) - Len(AreaText)) + 2
  <2>4. k \in 1..Len(p) /\ p[k] = 65
    BY <1>1, <2>1, <2>3
  <2> HIDE DEF k
  <2>5. p[k] \in NameChars
    BY <1>1, <2>4
  <2>6. 65 \notin NameChars
    BY DEF NameChars, Lowers, Digits, Underscore
  <2> QED
    BY <2>4, <2>5, <2>6
<1>3. TrimSuffix(p, AreaText) = p
  BY <1>2 DEF TrimSuffix
<1>4. Folded(p) = p
  BY FoldedOfNeat DEF IsPackage
<1>5. TrimRight(p, {Underscore}) = p
  BY TrimmedIsNeat DEF IsPackage
<1>6. ~IsDigit(p[1])
  BY DEF IsPackage, IsDigit, Digits, Lowers
<1> QED
  BY <1>1, <1>3, <1>4, <1>5, <1>6 DEF PackageName

-----------------------------------------------------------------------------
(***************************************************************************)
(* Numbers and their texts.                                                *)
(***************************************************************************)

\* A digit's value is a number.
LEMMA DigitIsNat == \A r \in Nat : DigitValue(r) \in Nat
BY DEF DigitValue, Digits, Lowers, Uppers

\* The number so far, and one more digit.
Counted(x, s, i) == x * 10 + DigitValue(s[i])

Counts(s, f) ==
  /\ f \in [0..Len(s) -> Nat]
  /\ f[0] = 0
  /\ \A i \in 1..Len(s) : f[i] = Counted(f[i - 1], s, i)

\* NumberOf is the end of the counting.
LEMMA NumberCounts ==
  ASSUME NEW s \in Text
  PROVE  \E f : Counts(s, f) /\ NumberOf(s, 10) = f[Len(s)]
<1> DEFINE n     == Len(s)
           Is(f) == f = [k \in 0..n |-> IF k = 0 THEN 0 ELSE Counted(f[k - 1], s, k)]
           d     == [x \in Nat \X (1..n) |-> Counted(x[1], s, x[2])]
<1>0. n \in Nat /\ \A k \in 1..n : s[k] \in Nat
  BY DEF Text
<1>2. \A k \in 1..n, t \in Nat : d[<<t, k>>] = Counted(t, s, k)
  OBVIOUS
<1>3. \A k \in 1..n, t \in Nat : d[<<t, k>>] \in Nat
  <2> SUFFICES ASSUME NEW k \in 1..n, NEW t \in Nat PROVE Counted(t, s, k) \in Nat
    BY <1>2
  <2>1. DigitValue(s[k]) \in Nat
    BY <1>0, DigitIsNat
  <2> QED
    BY <2>1 DEF Counted
<1> HIDE DEF n, d
<1>4. PICK g : Unfolds(g, n, Nat, 0, d)
  BY <1>0, <1>3, Recursion
<1>5. \A k \in 1..n : g[k] = Counted(g[k - 1], s, k)
  <2> SUFFICES ASSUME NEW k \in 1..n PROVE g[k] = Counted(g[k - 1], s, k)
    OBVIOUS
  <2>1. k - 1 \in 0..n
    BY <1>0
  <2>2. g[k - 1] \in Nat
    BY <1>4, <2>1 DEF Unfolds
  <2> QED
    BY <1>2, <1>4, <2>2 DEF Unfolds
<1>6. Is(g)
  <2>1. ASSUME NEW k \in 0..n
        PROVE  g[k] = IF k = 0 THEN 0 ELSE Counted(g[k - 1], s, k)
    <3>1. k # 0 => k \in 1..n
      BY <1>0
    <3> QED
      BY <1>4, <1>5, <3>1 DEF Unfolds
  <2>2. g = [k \in 0..n |-> g[k]]
    BY <1>4 DEF Unfolds
  <2> QED
    BY <2>1, <2>2, Zenon
<1> DEFINE count == CHOOSE f : Is(f)
<1>7. Is(count)
  <2> HIDE DEF Is
  <2> QED
    BY <1>6
<1>8. NumberOf(s, 10) = count[n]
  BY DEF NumberOf, Counted, n
<1> HIDE DEF count
<1>9. count[n] = g[n]
  <2>1. count[0] = g[0]
    BY <1>0, <1>4, <1>7 DEF Unfolds
  <2>2. ASSUME NEW k \in 1..n, count[k - 1] = g[k - 1] PROVE count[k] = g[k]
    BY <1>0, <1>5, <1>7, <2>2
  <2> HIDE DEF Is
  <2> QED
    BY <1>0, <2>1, <2>2, SameEnd
<1> QED
  BY <1>4, <1>5, <1>8, <1>9 DEF Counts, Unfolds, n

\* A number grows by a digit at its end.
LEMMA NumberGrows ==
  /\ NumberOf(<<>>, 10) = 0
  /\ \A s \in Text : NumberOf(s, 10) \in Nat
  /\ \A s \in Text, r \in Nat :
       NumberOf(Append(s, r), 10) = NumberOf(s, 10) * 10 + DigitValue(r)
<1>1. NumberOf(<<>>, 10) = 0
  <2>1. <<>> \in Text /\ Len(<<>>) = 0
    BY DEF Text
  <2>2. PICK f : Counts(<<>>, f) /\ NumberOf(<<>>, 10) = f[Len(<<>>)]
    BY <2>1, NumberCounts
  <2> QED
    BY <2>1, <2>2 DEF Counts
<1>2. ASSUME NEW s \in Text PROVE NumberOf(s, 10) \in Nat
  <2>1. Len(s) \in 0..Len(s)
    BY DEF Text
  <2>2. PICK f : Counts(s, f) /\ NumberOf(s, 10) = f[Len(s)]
    BY NumberCounts
  <2> QED
    BY <2>1, <2>2 DEF Counts
<1>3. ASSUME NEW s \in Text, NEW r \in Nat
      PROVE  NumberOf(Append(s, r), 10) = NumberOf(s, 10) * 10 + DigitValue(r)
  <2> DEFINE t == Append(s, r)
             n == Len(s)
  <2>1. /\ t \in Text /\ n \in Nat /\ Len(t) = n + 1 /\ t[n + 1] = r
        /\ \A k \in 1..n : t[k] = s[k]
    BY DEF Text
  <2> HIDE DEF t
  <2>2. PICK f : Counts(s, f) /\ NumberOf(s, 10) = f[n]
    BY NumberCounts
  <2>3. PICK g : Counts(t, g) /\ NumberOf(t, 10) = g[n + 1]
    BY <2>1, NumberCounts
  <2> HIDE DEF n
  <2>4. f[0] = g[0]
    BY <2>2, <2>3 DEF Counts
  <2>5. ASSUME NEW k \in 1..n, f[k - 1] = g[k - 1] PROVE f[k] = g[k]
    <3>1. f[k] = Counted(f[k - 1], s, k)
      BY <2>2 DEF Counts, n
    <3>2. g[k] = Counted(g[k - 1], t, k)
      BY <2>1, <2>3 DEF Counts
    <3> QED
      BY <2>1, <2>5, <3>1, <3>2 DEF Counted
  <2>6. f[n] = g[n]
    BY <2>1, <2>4, <2>5, SameEnd
  <2>7. g[n + 1] = Counted(g[n], t, n + 1)
    <3>1. n + 1 \in 1..Len(t) /\ (n + 1) - 1 = n
      BY <2>1
    <3> QED
      BY <2>3, <3>1 DEF Counts
  <2> QED
    BY <2>1, <2>2, <2>3, <2>6, <2>7 DEF Counted, t
<1> QED
  BY <1>1, <1>2, <1>3

\* Text without line ends.
Flat(s) == s \in Text /\ \A j \in 1..Len(s) : s[j] # CR /\ s[j] # LF

\* A text of digits that stands for n.
Numeral(s, n) ==
  /\ s \in Text /\ s # <<>>
  /\ \A i \in 1..Len(s) : s[i] \in Digits
  /\ NumberOf(s, 10) = n

\* A number is its last digit and the others.
LEMMA LastDigit ==
  ASSUME NEW n \in Nat
  PROVE  n \div 10 \in Nat /\ n % 10 \in 0..9 /\ n = ((n \div 10) * 10) + (n % 10)
OBVIOUS

\* The text of a number stands for it.
LEMMA ItoaIsNumeral == \A n \in Nat : Numeral(Itoa[n], n)
<1>0. \A k \in 0..9 : 48 + k \in Digits /\ 48 + k \in Nat /\ DigitValue(48 + k) = k
  BY DEF DigitValue, Digits, Lowers, Uppers
<1>1. ASSUME NEW n \in Nat, n < 10 PROVE Numeral(Itoa[n], n)
  <2> DEFINE s == <<48 + n>>
  <2>1. n \in 0..9 /\ 48 + n \in Digits /\ 48 + n \in Nat /\ DigitValue(48 + n) = n
    BY <1>0, <1>1
  <2>2. s = Append(<<>>, 48 + n) /\ s \in Text /\ s # <<>> /\ Len(s) = 1 /\ s[1] = 48 + n /\ <<>> \in Text
    BY <2>1 DEF Text
  <2>3. NumberOf(s, 10) = 0 * 10 + n
    BY <2>1, <2>2, NumberGrows
  <2>4. Itoa[n] = s
    BY <1>1, ItoaIs DEF Decimal
  <2> HIDE DEF s
  <2> QED
    BY <2>1, <2>2, <2>3, <2>4 DEF Numeral
<1>2. ASSUME NEW n \in Nat, n >= 10, Numeral(Itoa[n \div 10], n \div 10)
      PROVE  Numeral(Itoa[n], n)
  <2> DEFINE m == n \div 10
             k == n % 10
             t == Itoa[m]
             s == Append(t, 48 + k)
  <2>1. m \in Nat /\ k \in 0..9 /\ n = m * 10 + k
    BY ONLY n \in Nat, LastDigit
  <2>2. Itoa[n] = s
    <3>1. ~(n < 10)
      BY <1>2
    <3>2. Itoa[n] = Decimal(Itoa, n)
      BY ItoaIs
    <3> QED
      BY ONLY <3>1, <3>2, Zenon DEF Decimal, s, t, k, m
  <2>3. 48 + k \in Digits /\ 48 + k \in Nat /\ DigitValue(48 + k) = k
    BY <1>0, <2>1
  <2> HIDE DEF m, k, t
  <2>4. Numeral(t, m)
    BY <1>2 DEF t, m
  <2>5. /\ s \in Text /\ Len(s) = Len(t) + 1 /\ s[Len(t) + 1] = 48 + k
        /\ \A i \in 1..Len(t) : s[i] = t[i]
        /\ Len(t) \in Nat
    BY <2>3, <2>4 DEF Text, Numeral
  <2>6. NumberOf(s, 10) = m * 10 + k
    BY <2>3, <2>4, NumberGrows DEF Numeral
  <2> HIDE DEF s
  <2>7. s # <<>>
    BY <2>5 DEF Text
  <2>8. \A i \in 1..Len(s) : s[i] \in Digits
    BY <2>3, <2>4, <2>5 DEF Numeral
  <2> QED
    BY <2>1, <2>2, <2>5, <2>6, <2>7, <2>8 DEF Numeral
<1> DEFINE S == {n \in Nat : ~Numeral(Itoa[n], n)}
<1>3. ASSUME S # {} PROVE FALSE
  <2>1. PICK n \in S : \A m \in S : n <= m
    <3>1. S \in SUBSET Nat
      OBVIOUS
    <3> HIDE DEF S
    <3> QED
      BY <1>3, <3>1, NatHasLeast
  <2>2. n >= 10 => Numeral(Itoa[n \div 10], n \div 10)
    <3> SUFFICES ASSUME n >= 10 PROVE Numeral(Itoa[n \div 10], n \div 10)
      OBVIOUS
    <3> DEFINE m == n \div 10
    <3>1. m \in Nat /\ ~(n <= m)
      BY <2>1
    <3> HIDE DEF m
    <3>2. Numeral(Itoa[m], m)
      BY <2>1, <3>1
    <3> QED
      BY <3>2 DEF m
  <2>3. n \in Nat /\ (n < 10 \/ n >= 10)
    BY <2>1
  <2>4. Numeral(Itoa[n], n)
    BY <1>1, <1>2, <2>2, <2>3
  <2> QED
    BY <2>1, <2>4
<1> QED
  BY <1>3

\* A numeral's sign, what comes after it, and what the two stand for.
Signed(s)   == s # <<>> /\ s[1] \in {43, 45}
Unsigned(s) == IF Signed(s) THEN Tail(s) ELSE s
Readable(s) == Unsigned(s) # <<>> /\ \A i \in DOMAIN Unsigned(s) : DigitValue(Unsigned(s)[i]) < 10
Read(s)     == IF Signed(s) /\ s[1] = 45 THEN -NumberOf(Unsigned(s), 10)
               ELSE NumberOf(Unsigned(s), 10)

\* What ParseInt makes of a text in base 10,
LEMMA ParseIs ==
  ASSUME NEW s
  PROVE  ParseInt(s, 10) = IF ~Readable(s) THEN <<>>
                           ELSE IF Read(s) \in Ints THEN <<Read(s)>> ELSE <<>>
<1> DEFINE num == IF 10 = 0 THEN Announced(Unsigned(s)) ELSE [base |-> 10, digits |-> Unsigned(s)]
           n == NumberOf(num.digits, num.base)
           v == IF Signed(s) /\ s[1] = 45 THEN -n ELSE n
<1>1. num.digits = Unsigned(s) /\ num.base = 10
  OBVIOUS
<1>2. ParseInt(s, 10) =
        IF ~(/\ Unsigned(s) # <<>>
             /\ \A i \in DOMAIN num.digits : DigitValue(num.digits[i]) < num.base)
        THEN <<>> ELSE IF v \in Ints THEN <<v>> ELSE <<>>
  <2>1. ParseInt(s, 10) =
          IF ~(/\ Unsigned(s) # <<>>
               /\ 10 = 0 => Separated(Unsigned(s))
               /\ \A i \in DOMAIN num.digits : DigitValue(num.digits[i]) < num.base)
          THEN <<>> ELSE IF v \in Ints THEN <<v>> ELSE <<>>
    BY Zenon DEF ParseInt, Unsigned, Signed
  <2> HIDE DEF num, v
  <2>2. 10 # 0
    OBVIOUS
  <2> QED
    BY <2>1, <2>2
<1> HIDE DEF num
<1>3. v = Read(s)
  BY <1>1 DEF Read
<1> HIDE DEF v
<1> QED
  BY <1>1, <1>2, <1>3 DEF Readable

\* and in the base that it announces.
ReadIn(s, num) == IF Signed(s) /\ s[1] = 45 THEN -NumberOf(num.digits, num.base)
                  ELSE NumberOf(num.digits, num.base)

\* What base 0 makes of a text is what its announced digits stand for.
LEMMA ParseZeroIs ==
  ASSUME NEW s, NEW n \in Range(ParseInt(s, 0))
  PROVE  Unsigned(s) # <<>> /\ n \in Ints /\ n = ReadIn(s, Announced(Unsigned(s)))
<1> DEFINE num == IF 0 = 0 THEN Announced(Unsigned(s)) ELSE [base |-> 0, digits |-> Unsigned(s)]
           fits == /\ Unsigned(s) # <<>>
                   /\ 0 = 0 => Separated(Unsigned(s))
                   /\ \A i \in DOMAIN num.digits : DigitValue(num.digits[i]) < num.base
           v == ReadIn(s, num)
<1>1. ParseInt(s, 0) = IF ~fits THEN <<>> ELSE IF v \in Ints THEN <<v>> ELSE <<>>
  BY Zenon DEF ParseInt, Unsigned, Signed, ReadIn
<1>2. num = Announced(Unsigned(s)) /\ (fits => Unsigned(s) # <<>>)
  OBVIOUS
<1> HIDE DEF num, fits, v
<1>3. Range(<<>>) = {} /\ Range(<<v>>) = {v}
  BY DEF Range
<1>4. fits /\ v \in Ints /\ n = v
  BY <1>1, <1>3
<1> QED
  BY <1>2, <1>4 DEF v

\* A sequence of which everything is kept.
LEMMA KeptWhole ==
  ASSUME NEW S, NEW s \in Seq(S), NEW at, 1..Len(s) \subseteq at
  PROVE  Kept(s, at) = s
<1> DEFINE n == Len(s)
           g == [k \in 0..n |-> SubSeq(s, 1, k)]
<1>1. n \in Nat
  OBVIOUS
<1>2. PICK f : Keeps(S, s, at, f) /\ Kept(s, at) = f[n]
  BY KeptKeeps
<1>3. f[0] = g[0]
  <2>1. SubSeq(s, 1, 0) \in Seq(S) /\ Len(SubSeq(s, 1, 0)) = 0
    OBVIOUS
  <2> QED
    BY <1>1, <1>2, <2>1 DEF Keeps
<1>4. ASSUME NEW k \in 1..n, f[k - 1] = g[k - 1] PROVE f[k] = g[k]
  <2> DEFINE a == SubSeq(s, 1, k - 1)
             b == SubSeq(s, 1, k)
             c == Append(a, s[k])
  <2>1. k - 1 \in 0..n /\ k \in 0..n /\ s[k] \in S /\ (k - 1) + 1 = k
    OBVIOUS
  <2>2. /\ a \in Seq(S) /\ Len(a) = k - 1 /\ \A i \in 1..k - 1 : a[i] = s[i]
        /\ b \in Seq(S) /\ Len(b) = k /\ \A i \in 1..k : b[i] = s[i]
    BY <2>1, Cut
  <2>3. g[k - 1] = a /\ g[k] = b
    BY <2>1
  <2>4. f[k] = c
    BY <1>2, <1>4, <2>3 DEF Keeps, KeptNext
  <2> HIDE DEF a, b, g
  <2>5. c \in Seq(S) /\ Len(c) = k /\ c[k] = s[k] /\ \A i \in 1..k - 1 : c[i] = a[i]
    BY <2>1, <2>2, Appended
  <2> HIDE DEF c
  <2>6. \A i \in 1..Len(c) : b[i] = c[i]
    BY <2>1, <2>2, <2>5
  <2>7. b = c
    BY <2>1, <2>2, <2>5, <2>6, SameSeq
  <2> QED
    BY <2>3, <2>4, <2>7
<1>5. g[n] = s
  <2>1. /\ SubSeq(s, 1, n) \in Seq(S) /\ Len(SubSeq(s, 1, n)) = n
        /\ \A i \in 1..n : SubSeq(s, 1, n)[i] = s[i]
    BY <1>1, Cut
  <2>2. SubSeq(s, 1, n) = s
    BY <2>1, SameSeq
  <2> QED
    BY <1>1, <2>2
<1> HIDE DEF n, g
<1>6. f[n] = g[n]
  BY ONLY <1>1, <1>3, <1>4, SameEnd
<1> QED
  BY <1>2, <1>5, <1>6 DEF n

\* What counts less than ten is a decimal digit.
LEMMA DecimalDigits == \A r \in Nat : DigitValue(r) < 10 => r \in Digits
<1> SUFFICES ASSUME NEW r \in Nat, r \notin Digits PROVE ~(DigitValue(r) < 10)
  OBVIOUS
<1>1. CASE r \in Lowers
  <2>1. r \notin Uppers
    BY <1>1 DEF Lowers, Uppers
  <2>2. DigitValue(r) = r - 97 + 10
    BY <1>1, <2>1 DEF DigitValue
  <2> QED
    BY <1>1, <2>2 DEF Lowers
<1>2. CASE r \in Uppers
  <2>1. r \notin Lowers
    BY <1>2 DEF Lowers, Uppers
  <2>2. DigitValue(r) = r - 65 + 10
    BY <1>2, <2>1 DEF DigitValue
  <2> QED
    BY <1>2, <2>2 DEF Uppers
<1>3. CASE r \notin Lowers /\ r \notin Uppers
  <2>1. DigitValue(r) = 99
    BY <1>3 DEF DigitValue
  <2> QED
    BY <2>1
<1> QED
  BY <1>1, <1>2, <1>3

\* A text of decimal digits has no underscores, and announces base 10 or 8.
LEMMA DigitsAnnounce ==
  ASSUME NEW u \in Text, u # <<>>, \A i \in DOMAIN u : DigitValue(u[i]) < 10
  PROVE  Announced(u) = IF u[1] # 48 THEN [base |-> 10, digits |-> u]
                        ELSE [base |-> 8, digits |-> Tail(u)]
<1> DEFINE from(k, base) == [base |-> base, digits |-> Unseparated(SubSeq(u, k, Len(u)))]
           mark == IF Len(u) >= 3 THEN ToLower(u[2]) ELSE 0
<1>1. u \in Seq(Nat) /\ Len(u) \in Nat \ {0} /\ DOMAIN u = 1..Len(u)
  BY DEF Text
<1>2. ASSUME NEW i \in 1..Len(u) PROVE u[i] \in Digits /\ u[i] # Underscore
  <2>1. u[i] \in Nat /\ DigitValue(u[i]) < 10
    BY <1>1
  <2>2. u[i] \in Digits
    BY <2>1, DecimalDigits
  <2> QED
    BY <2>2 DEF Digits, Underscore
<1>3. ASSUME NEW t \in Seq(Nat), \A i \in 1..Len(t) : t[i] # Underscore
      PROVE  Unseparated(t) = t
  <2>1. 1..Len(t) \subseteq {i \in DOMAIN t : t[i] # Underscore}
    BY <1>3
  <2> QED
    BY <2>1, KeptWhole DEF Unseparated
<1>4. SubSeq(u, 1, Len(u)) = u /\ Unseparated(u) = u
  <2>1. /\ SubSeq(u, 1, Len(u)) \in Seq(Nat) /\ Len(SubSeq(u, 1, Len(u))) = Len(u)
        /\ \A i \in 1..Len(u) : SubSeq(u, 1, Len(u))[i] = u[i]
    BY <1>1, Cut
  <2> QED
    BY <1>1, <1>2, <1>3, <2>1, SameSeq
<1>5. SubSeq(u, 2, Len(u)) = Tail(u) /\ Unseparated(Tail(u)) = Tail(u)
  <2>1. SubSeq(u, 2, Len(u)) = Tail(u)
    BY <1>1
  <2>2. Tail(u) \in Seq(Nat) /\ Len(Tail(u)) = Len(u) - 1
        /\ \A i \in 1..Len(u) - 1 : Tail(u)[i] = u[i + 1] /\ i + 1 \in 1..Len(u)
    BY <1>1
  <2>3. \A i \in 1..Len(Tail(u)) : Tail(u)[i] # Underscore
    BY <1>2, <2>2
  <2> QED
    BY <1>3, <2>1, <2>2, <2>3
<1>6. mark \notin {98, 111, 120}
  <2>1. CASE Len(u) >= 3
    <3>1. u[2] \in Digits
      BY <1>1, <1>2, <2>1
    <3>2. \A d \in Digits : ToLower(d) = d
      BY DEF ToLower, Digits, Uppers
    <3>3. mark = ToLower(u[2])
      BY <2>1
    <3> HIDE DEF mark
    <3>4. mark = u[2]
      BY <3>1, <3>2, <3>3, Zenon
    <3> QED
      BY <3>1, <3>4 DEF Digits
  <2>2. CASE ~(Len(u) >= 3)
    BY <2>2
  <2> QED
    BY <2>1, <2>2
<1>7. Announced(u) = CASE u[1] # 48             -> from(1, 10)
                       [] u[1] = 48 /\ mark = 98  -> from(3, 2)
                       [] u[1] = 48 /\ mark = 111 -> from(3, 8)
                       [] u[1] = 48 /\ mark = 120 -> from(3, 16)
                       [] OTHER                   -> from(2, 8)
  BY DEF Announced
<1> HIDE DEF mark
<1>8. from(1, 10) = [base |-> 10, digits |-> u] /\ from(2, 8) = [base |-> 8, digits |-> Tail(u)]
  BY <1>4, <1>5
<1> HIDE DEF from
<1> QED
  BY <1>6, <1>7, <1>8

\* Two readings of one text are of one number, unless it has a leading zero.
LEMMA ReadingsAgree ==
  ASSUME NEW s, Unsigned(s) \in Text, NEW n \in Range(ParseInt(s, 0)), NEW k \in Range(ParseInt(s, 10))
  PROVE  \/ k = n
         \/ /\ Unsigned(s)[1] = 48
            /\ n \in {NumberOf(Tail(Unsigned(s)), 8), -NumberOf(Tail(Unsigned(s)), 8)}
<1> DEFINE u == Unsigned(s)
<1>1. Range(<<>>) = {} /\ \A x : Range(<<x>>) = {x}
  BY DEF Range
<1>2. k = Read(s) /\ Readable(s)
  BY <1>1, ParseIs
<1>3. n = ReadIn(s, Announced(u))
  BY ParseZeroIs
<1>4. Announced(u) = IF u[1] # 48 THEN [base |-> 10, digits |-> u]
                     ELSE [base |-> 8, digits |-> Tail(u)]
  BY <1>2, DigitsAnnounce DEF Readable
<1> HIDE DEF u
<1>5. CASE u[1] # 48
  <2>1. Announced(u).digits = u /\ Announced(u).base = 10
    BY <1>4, <1>5
  <2> QED
    BY <1>2, <1>3, <2>1 DEF Read, ReadIn, u
<1>6. CASE u[1] = 48
  <2>1. Announced(u).digits = Tail(u) /\ Announced(u).base = 8
    BY <1>4, <1>6
  <2> QED
    BY <1>3, <1>6, <2>1 DEF ReadIn, u
<1> QED
  BY <1>5, <1>6

\* A number is read from its text.
LEMMA FormatIsRead ==
  ASSUME NEW v \in Ints
  PROVE  Flat(FormatInt(v)) /\ ParseInt(FormatInt(v), 10) = <<v>>
<1> DEFINE s == FormatInt(v)
<1>0. v \in Int
  BY DEF Ints
<1>1. \A r \in Digits : r \in Nat /\ r # CR /\ r # LF /\ r \notin {43, 45} /\ DigitValue(r) < 10
  BY DEF Digits, CR, LF, DigitValue
<1>2. ASSUME NEW t, NEW n \in Nat, Numeral(t, n)
      PROVE  /\ t \in Text /\ t # <<>> /\ Len(t) \in Nat \ {0} /\ t[1] \notin {43, 45} /\ Flat(t)
             /\ \A i \in DOMAIN t : DigitValue(t[i]) < 10
  <2>1. t \in Text /\ t # <<>> /\ Len(t) \in Nat \ {0} /\ DOMAIN t = 1..Len(t) /\ 1 \in 1..Len(t)
    BY <1>2 DEF Numeral, Text
  <2> QED
    BY <1>1, <1>2, <2>1 DEF Numeral, Flat
<1>3. CASE v < 0
  <2> DEFINE n == -v
             t == Itoa[n]
  <2>1. n \in Nat /\ -n = v
    BY <1>0, <1>3
  <2> HIDE DEF n
  <2>2. Numeral(t, n)
    BY <2>1, ItoaIsNumeral
  <2>3. s = <<45>> \o t
    BY <1>3 DEF FormatInt, n
  <2> HIDE DEF t, s
  <2>4. /\ s \in Text /\ s # <<>> /\ s[1] = 45 /\ Tail(s) = t /\ Len(s) = Len(t) + 1
        /\ \A i \in 1..Len(t) : s[i + 1] = t[i]
    <3>1. t \in Seq(Nat)
      BY <1>2, <2>1, <2>2 DEF Text
    <3>2. <<45>> \o t \in Seq(Nat) /\ Len(<<45>> \o t) = Len(t) + 1 /\ (<<45>> \o t)[1] = 45
          /\ \A i \in 1..Len(t) : (<<45>> \o t)[i + 1] = t[i]
      BY <3>1
    <3>3. Len(Tail(s)) = Len(t) /\ Tail(s) \in Seq(Nat) /\ \A i \in 1..Len(t) : Tail(s)[i] = t[i]
      BY <2>3, <3>1, <3>2
    <3>4. Tail(s) = t
      BY <3>1, <3>3, SameSeq
    <3> QED
      BY <2>3, <3>1, <3>2, <3>4 DEF Text
  <2>5. Signed(s) /\ Unsigned(s) = t
    BY <2>4 DEF Signed, Unsigned
  <2>6. Readable(s) /\ Read(s) = v
    BY <1>2, <2>1, <2>2, <2>4, <2>5 DEF Readable, Read, Numeral
  <2>7. Flat(s)
    <3> SUFFICES ASSUME NEW j \in 1..Len(s) PROVE s[j] # CR /\ s[j] # LF
      BY <2>4 DEF Flat
    <3>1. CASE j = 1
      BY <2>4, <3>1 DEF CR, LF
    <3>2. CASE j # 1
      <4>1. j - 1 \in 1..Len(t) /\ (j - 1) + 1 = j
        BY <1>2, <2>1, <2>2, <2>4, <3>2
      <4>2. s[j] = t[j - 1]
        BY <2>4, <4>1
      <4> QED
        BY <1>2, <2>1, <2>2, <4>1, <4>2 DEF Flat
    <3> QED
      BY <3>1, <3>2
  <2> QED
    BY <2>6, <2>7, ParseIs DEF s
<1>4. CASE ~(v < 0)
  <2>1. v \in Nat
    BY <1>0, <1>4
  <2>2. s = Itoa[v] /\ Numeral(s, v)
    BY <1>4, <2>1, ItoaIsNumeral DEF FormatInt
  <2> HIDE DEF s
  <2>3. ~Signed(s) /\ Unsigned(s) = s
    BY <1>2, <2>1, <2>2 DEF Signed, Unsigned
  <2>4. Readable(s) /\ Read(s) = v
    BY <1>2, <2>1, <2>2, <2>3 DEF Readable, Read, Numeral
  <2>5. Flat(s)
    BY <1>2, <2>1, <2>2
  <2> QED
    BY <2>4, <2>5, ParseIs DEF s
<1> QED
  BY <1>3, <1>4

-----------------------------------------------------------------------------
(***************************************************************************)
(* Values on their way out and back.                                       *)
(***************************************************************************)

\* Text without line ends comes out of a document as it went in.
LEMMA FlatIsRead ==
  ASSUME NEW w, Flat(w)
  PROVE  ReadText(Escape(w))[1] = w
<1>1. <<>> \in Text /\ w \in Text /\ <<>> \o w = w
  BY DEF Flat, Text
<1>2. LineEnds(<<>> \o w) = LineEnds(<<>>) \o w
  BY <1>1, LineEndsPlain DEF Flat
<1>3. LineEnds(w) = w
  BY <1>1, <1>2, LineEndsGrow
<1> QED
  BY <1>1, <1>3, EscapedIsText

\* What comes after the first element.
LEMMA Tailed ==
  ASSUME NEW S, NEW s \in Seq(S), s # <<>>
  PROVE  Tail(s) \in Seq(S) /\ Len(Tail(s)) = Len(s) - 1
OBVIOUS

\* The spellings of a truth value are told apart.
LEMMA TruthsDiffer ==
  /\ TrueText \in TrueTexts /\ TrueText \notin FalseTexts /\ Flat(TrueText)
  /\ FalseText \in FalseTexts /\ FalseText \notin TrueTexts /\ Flat(FalseText)
<1>1. TrueText \in Seq(Nat) /\ Len(TrueText) = 4 /\ FalseText \in Seq(Nat) /\ Len(FalseText) = 5
  BY DEF TrueText, FalseText
<1>2. Len(<<84>> \o Tail(TrueText)) = 4 /\ Len([i \in 1..4 |-> ToUpper(TrueText[i])]) = 4
  <2>1. Tail(TrueText) \in Seq(Nat) /\ Len(Tail(TrueText)) = 3
    <3>1. TrueText # <<>> /\ 4 - 1 = 3
      BY DEF TrueText
    <3> QED
      BY ONLY <1>1, <3>1, Tailed
  <2> QED
    BY <2>1
<1>3. Len(<<70>> \o Tail(FalseText)) = 5 /\ Len([i \in 1..5 |-> ToUpper(FalseText[i])]) = 5
  <2>1. Tail(FalseText) \in Seq(Nat) /\ Len(Tail(FalseText)) = 4
    <3>1. FalseText # <<>> /\ 5 - 1 = 4
      BY DEF FalseText
    <3> QED
      BY ONLY <1>1, <3>1, Tailed
  <2> QED
    BY <2>1
<1>4. ASSUME NEW t \in TrueTexts PROVE Len(t) # 5
  <2>1. Len(<<49>>) = 1 /\ Len(<<116>>) = 1 /\ Len(<<84>>) = 1
    OBVIOUS
  <2>2. \/ t = <<49>> \/ t = <<116>> \/ t = <<84>> \/ t = TrueText
        \/ t = <<84>> \o Tail(TrueText) \/ t = [i \in 1..4 |-> ToUpper(TrueText[i])]
    BY Zenon DEF TrueTexts
  <2> QED
    <3>1. Len(t) = 1 \/ Len(t) = 4
      BY ONLY <1>1, <1>2, <2>1, <2>2, Zenon
    <3> QED
      BY <3>1
<1>5. ASSUME NEW t \in FalseTexts PROVE Len(t) # 4
  <2>1. Len(<<48>>) = 1 /\ Len(<<102>>) = 1 /\ Len(<<70>>) = 1
    OBVIOUS
  <2>2. \/ t = <<48>> \/ t = <<102>> \/ t = <<70>> \/ t = FalseText
        \/ t = <<70>> \o Tail(FalseText) \/ t = [i \in 1..5 |-> ToUpper(FalseText[i])]
    BY Zenon DEF FalseTexts
  <2> QED
    <3>1. Len(t) = 1 \/ Len(t) = 5
      BY ONLY <1>1, <1>3, <2>1, <2>2, Zenon
    <3> QED
      BY <3>1
<1>6. Flat(TrueText) /\ Flat(FalseText)
  BY DEF Flat, Text, TrueText, FalseText, CR, LF
<1> QED
  BY <1>1, <1>4, <1>5, <1>6 DEF TrueTexts, FalseTexts

\* A Get that the transport answered.
Got(f, text) == Getter(f, [err |-> "nil", value |-> [format |-> f, data |-> text]])

\* What the getter of each kind makes of it.
LEMMA GotIs ==
  ASSUME NEW f, NEW text
  PROVE  LET read == Accessor(f, [format |-> f, data |-> text])
         IN  Got(f, text) = [err |-> IF read = <<>> THEN "decode" ELSE "nil", result |-> read]
BY DEF Got, Getter

\* What goes out again for a result v, and comes out of a document.
Resent(f, v) == ReadText(Escape(ValueExpr(f, v).data))[1]

\* Numbers come back,
LEMMA IntsComeBack ==
  ASSUME NEW f, GoType(f) = "int64", NEW text, Got(f, text).err = "nil"
  PROVE  Got(f, Resent(f, Got(f, text).result[1])) = Got(f, text)
<1> DEFINE read(t) == Accessor(f, [format |-> f, data |-> t])
<1>1. \A t : read(t) = ParseInt(t, 10)
  BY DEF Accessor, DecodeInt
<1>2. \A t : Got(f, t) = [err |-> IF read(t) = <<>> THEN "decode" ELSE "nil", result |-> read(t)]
  BY GotIs
<1> HIDE DEF read
<1>3. ParseInt(text, 10) # <<>>
  BY <1>1, <1>2
<1>4. PICK v \in Ints : ParseInt(text, 10) = <<v>>
  BY <1>3, ParseIs
<1>5. Got(f, text).result[1] = v
  BY <1>1, <1>2, <1>4
<1>6. ValueExpr(f, v).data = FormatInt(v)
  BY DEF ValueExpr, IntValue
<1>7. Resent(f, v) = FormatInt(v)
  BY <1>6, FormatIsRead, FlatIsRead DEF Resent
<1>8. read(Resent(f, v)) = read(text)
  BY <1>1, <1>4, <1>7, FormatIsRead
<1> QED
  BY <1>2, <1>5, <1>8

\* truth values come back,
LEMMA BoolsComeBack ==
  ASSUME NEW f, GoType(f) = "bool", NEW text, Got(f, text).err = "nil"
  PROVE  Got(f, Resent(f, Got(f, text).result[1])) = Got(f, text)
<1> DEFINE read(t) == Accessor(f, [format |-> f, data |-> t])
           yes == <<TRUE>>
           no  == <<FALSE>>
<1>1. \A t : read(t) = CASE t \in TrueTexts -> yes [] t \in FalseTexts -> no [] OTHER -> <<>>
  BY DEF Accessor, DecodeBool
<1>2. \A t : Got(f, t) = [err |-> IF read(t) = <<>> THEN "decode" ELSE "nil", result |-> read(t)]
  BY GotIs
<1>3. yes[1] = TRUE /\ no[1] = FALSE
  OBVIOUS
<1>4. ValueExpr(f, TRUE).data = TrueText /\ ValueExpr(f, FALSE).data = FalseText
  BY DEF ValueExpr, BoolValue
<1> HIDE DEF read, yes, no
<1>5. read(text) # <<>>
  BY <1>2
<1>6. read(text) = yes \/ read(text) = no
  BY <1>1, <1>5
<1>7. Resent(f, TRUE) = TrueText /\ Resent(f, FALSE) = FalseText
  BY <1>4, TruthsDiffer, FlatIsRead DEF Resent
<1>8. read(TrueText) = yes /\ read(FalseText) = no
  BY <1>1, TruthsDiffer
<1>9. CASE read(text) = yes
  <2>1. Got(f, text).result[1] = TRUE
    BY <1>2, <1>3, <1>9
  <2>2. read(Resent(f, TRUE)) = read(text)
    BY <1>7, <1>8, <1>9
  <2> QED
    BY <1>2, <2>1, <2>2
<1>10. CASE read(text) = no
  <2>1. Got(f, text).result[1] = FALSE
    BY <1>2, <1>3, <1>10
  <2>2. read(Resent(f, FALSE)) = read(text)
    BY <1>7, <1>8, <1>10
  <2> QED
    BY <1>2, <2>1, <2>2
<1> QED
  BY <1>6, <1>9, <1>10

\* and so do strings, which are never refused.
LEMMA StringsComeBack ==
  ASSUME NEW f, GoType(f) = "string", NEW text, Flat(text)
  PROVE  /\ Got(f, text).err = "nil"
         /\ Got(f, Resent(f, Got(f, text).result[1])) = Got(f, text)
<1> DEFINE read(t) == Accessor(f, [format |-> f, data |-> t])
<1>1. \A t : read(t) = <<t>>
  BY DEF Accessor, Str
<1>2. \A t : Got(f, t) = [err |-> IF read(t) = <<>> THEN "decode" ELSE "nil", result |-> read(t)]
  BY GotIs
<1> HIDE DEF read
<1>3. Got(f, text).result[1] = text /\ Got(f, text).err = "nil"
  BY <1>1, <1>2
<1>4. ValueExpr(f, text).data = text
  BY DEF ValueExpr
<1>5. Resent(f, text) = text
  BY <1>4, FlatIsRead DEF Resent
<1> QED
  BY <1>3, <1>5

-----------------------------------------------------------------------------
(***************************************************************************)
(* The words of a text.                                                    *)
(***************************************************************************)

\* The elements from k to e.
LEMMA Piece ==
  ASSUME NEW S, NEW s \in Seq(S), NEW k \in 1..Len(s), NEW e \in k..Len(s)
  PROVE  /\ SubSeq(s, k, e) \in Seq(S) /\ Len(SubSeq(s, k, e)) = (e - k) + 1
         /\ \A i \in 1..(e - k) + 1 : SubSeq(s, k, e)[i] = s[(k + i) - 1]
<1>1. Len(s) \in Nat /\ k \in Nat /\ e \in Nat /\ 1 <= k /\ k <= e /\ e <= Len(s)
  OBVIOUS
<1>2. SubSeq(s, k, e) \in Seq(S)
  BY <1>1
<1>3. Len(SubSeq(s, k, e)) = (e - k) + 1
  BY <1>1
<1>4. ASSUME NEW i \in 1..(e - k) + 1 PROVE SubSeq(s, k, e)[i] = s[(k + i) - 1]
  BY <1>1
<1> QED
  BY <1>2, <1>3, <1>4

\* Only what stands at the positions that are kept matters.
LEMMA KeptSame ==
  ASSUME NEW S, NEW s \in Seq(S), NEW t \in Seq(S), Len(t) = Len(s), NEW at,
         \A k \in 1..Len(s) : k \in at => s[k] = t[k]
  PROVE  Kept(s, at) = Kept(t, at)
<1> DEFINE n == Len(s)
<1>1. n \in Nat
  OBVIOUS
<1>2. PICK f : Keeps(S, s, at, f) /\ Kept(s, at) = f[n]
  BY KeptKeeps
<1>3. PICK g : Keeps(S, t, at, g) /\ Kept(t, at) = g[n]
  BY KeptKeeps
<1>4. f[0] = g[0]
  BY <1>2, <1>3 DEF Keeps
<1>5. ASSUME NEW k \in 1..n, f[k - 1] = g[k - 1] PROVE f[k] = g[k]
  BY <1>2, <1>3, <1>5 DEF Keeps, KeptNext
<1> HIDE DEF n
<1>6. f[n] = g[n]
  BY ONLY <1>1, <1>4, <1>5, SameEnd
<1> QED
  BY <1>2, <1>3, <1>6

\* The last position of a set gives what is kept last.
LEMMA KeptLast ==
  ASSUME NEW S, NEW s \in Seq(S), NEW at, NEW k \in 1..Len(s), k \in at,
         at \cap (k + 1..Len(s)) = {}
  PROVE  /\ SubSeq(s, 1, k - 1) \in Seq(S) /\ Len(SubSeq(s, 1, k - 1)) = k - 1
         /\ \A i \in 1..k - 1 : SubSeq(s, 1, k - 1)[i] = s[i]
         /\ s[k] \in S
         /\ Kept(s, at) = Append(Kept(SubSeq(s, 1, k - 1), at), s[k])
<1> DEFINE a == SubSeq(s, 1, k - 1)
           b == SubSeq(s, 1, k)
<1>1. k \in 0..Len(s) /\ k - 1 \in 0..Len(s) /\ s[k] \in S /\ k \in Nat /\ (k - 1) + 1 = k
  OBVIOUS
<1>2. /\ a \in Seq(S) /\ Len(a) = k - 1 /\ \A i \in 1..k - 1 : a[i] = s[i]
      /\ b \in Seq(S) /\ Len(b) = k /\ \A i \in 1..k : b[i] = s[i]
  BY <1>1, Cut
<1> HIDE DEF a, b
<1>3. b = Append(a, s[k])
  <2> DEFINE c == Append(a, s[k])
  <2>1. c \in Seq(S) /\ Len(c) = k /\ c[k] = s[k] /\ \A i \in 1..k - 1 : c[i] = a[i]
    BY <1>1, <1>2, Appended
  <2> HIDE DEF c
  <2>2. \A i \in 1..Len(c) : b[i] = c[i]
    BY <1>1, <1>2, <2>1
  <2>3. b = c
    BY <1>2, <2>1, <2>2, SameSeq
  <2> QED
    BY <2>3 DEF c
<1>4. Kept(s, at) = Kept(b, at)
  BY <1>1, KeptEnds DEF b
<1>5. Kept(Append(a, s[k]), at) = Append(Kept(a, at), s[k])
  <2>1. Len(a) + 1 \in at /\ \A i \in 1..Len(a) : i \in at <=> i \in at
    BY <1>1, <1>2
  <2> QED
    BY ONLY <1>1, <1>2, <2>1, KeptGrows
<1> QED
  BY <1>1, <1>2, <1>3, <1>4, <1>5 DEF a

\* Where runs start, and where one ends.
Starts(s, cut)   == {i \in 1..Len(s) : s[i] \notin cut /\ (i = 1 \/ s[i - 1] \in cut)}
EndOf(s, cut, i) == Min({Len(s)} \cup {j \in i..Len(s) - 1 : s[j + 1] \in cut})
RunsAt(s, cut)   == [i \in 1..Len(s) |-> SubSeq(s, i, EndOf(s, cut, i))]

\* The run of s from i on is up to e.
EndsWith(s, cut, i, e) ==
  /\ e \in i..Len(s)
  /\ e # Len(s) => s[e + 1] \in cut
  /\ \A j \in i..e - 1 : s[j + 1] \notin cut

\* A run goes up to the next boundary, and no further.
LEMMA EndIs ==
  ASSUME NEW s \in Text, NEW cut, NEW i \in 1..Len(s)
  PROVE  /\ EndsWith(s, cut, i, EndOf(s, cut, i))
         /\ \A e : EndsWith(s, cut, i, e) => EndOf(s, cut, i) = e
<1> DEFINE n == Len(s)
           S == {n} \cup {j \in i..n - 1 : s[j + 1] \in cut}
           m == EndOf(s, cut, i)
<1>1. n \in Nat /\ i \in Nat /\ 1 <= i /\ i <= n
  BY DEF Text
<1>2. S \in SUBSET Nat /\ S # {} /\ m = Min(S)
  BY <1>1 DEF EndOf
<1> HIDE DEF S, m
<1>3. m \in S /\ \A j \in S : m <= j
  <2>1. PICK k \in S : \A j \in S : k <= j
    BY <1>2, NatHasLeast
  <2> QED
    BY <1>2, <2>1 DEF Min
<1>4. m \in i..n
  BY <1>1, <1>3 DEF S
<1>5. m # n => s[m + 1] \in cut
  BY <1>3 DEF S
<1>6. ASSUME NEW j \in i..m - 1 PROVE s[j + 1] \notin cut
  <2>1. j \in i..n - 1 /\ ~(m <= j)
    BY <1>1, <1>4
  <2>2. j \notin S
    BY <1>3, <2>1
  <2> QED
    BY <2>1, <2>2 DEF S
<1>7. EndsWith(s, cut, i, m)
  BY <1>4, <1>5, <1>6 DEF EndsWith
<1>8. ASSUME NEW e, EndsWith(s, cut, i, e) PROVE m = e
  <2>1. e \in i..n /\ e \in Int /\ m \in Int
    BY <1>1, <1>4, <1>8 DEF EndsWith
  <2>2. CASE e < m
    <3>1. e # n /\ e \in i..m - 1
      BY <1>1, <1>4, <2>1, <2>2
    <3> QED
      BY <1>6, <1>8, <3>1 DEF EndsWith
  <2>3. CASE m < e
    <3>1. m # n /\ m \in i..e - 1
      BY <1>1, <1>4, <2>1, <2>3
    <3> QED
      BY <1>5, <1>8, <3>1 DEF EndsWith
  <2> QED
    BY <2>1, <2>2, <2>3
<1> QED
  BY <1>7, <1>8 DEF m

\* Runs are kept from where they start.
LEMMA RunsAre ==
  ASSUME NEW s \in Text, NEW cut
  PROVE  /\ Runs(s, cut) = Kept(RunsAt(s, cut), Starts(s, cut))
         /\ RunsAt(s, cut) \in Seq(Text) /\ Len(RunsAt(s, cut)) = Len(s)
         /\ \A i \in 1..Len(s) : RunsAt(s, cut)[i] = SubSeq(s, i, EndOf(s, cut, i))
<1>1. s \in Seq(Nat) /\ Len(s) \in Nat
  BY DEF Text
<1>2. ASSUME NEW i \in 1..Len(s) PROVE SubSeq(s, i, EndOf(s, cut, i)) \in Text
  <2>1. EndOf(s, cut, i) \in i..Len(s)
    BY EndIs DEF EndsWith
  <2> QED
    BY <1>1, <2>1 DEF Text
<1>3. Runs(s, cut) = Kept(RunsAt(s, cut), Starts(s, cut))
  BY DEF Runs, RunsAt, Starts, EndOf
<1>4. RunsAt(s, cut) \in Seq(Text) /\ Len(RunsAt(s, cut)) = Len(s)
  BY <1>1, <1>2 DEF RunsAt
<1>5. \A i \in 1..Len(s) : RunsAt(s, cut)[i] = SubSeq(s, i, EndOf(s, cut, i))
  BY DEF RunsAt
<1> QED
  BY <1>3, <1>4, <1>5

\* A run that a boundary ends stays when the text goes on.
LEMMA RunStays ==
  ASSUME NEW u \in Text, NEW r \in Nat, NEW cut, NEW k \in 1..Len(u),
         EndOf(u, cut, k) # Len(u) \/ r \in cut
  PROVE  RunsAt(Append(u, r), cut)[k] = RunsAt(u, cut)[k]
<1> DEFINE t == Append(u, r)
           n == Len(u)
           e == EndOf(u, cut, k)
<1>1. /\ u \in Seq(Nat) /\ t \in Seq(Nat) /\ t \in Text /\ n \in Nat /\ Len(t) = n + 1 /\ t[n + 1] = r
      /\ \A i \in 1..n : t[i] = u[i]
  BY DEF Text
<1> HIDE DEF t
<1>2. EndsWith(u, cut, k, e)
  BY EndIs
<1>3. e \in k..n
  BY <1>2 DEF EndsWith
<1> HIDE DEF e
<1>4. EndsWith(t, cut, k, e)
  <2>1. e \in k..Len(t)
    BY <1>1, <1>3
  <2>2. t[e + 1] \in cut
    <3>1. CASE e = n
      BY <1>1, <3>1 DEF e
    <3>2. CASE e # n
      <4>1. e + 1 \in 1..n
        BY <1>1, <1>3, <3>2
      <4> QED
        BY <1>1, <1>2, <3>2, <4>1 DEF EndsWith
    <3> QED
      BY <3>1, <3>2
  <2>3. ASSUME NEW j \in k..e - 1 PROVE t[j + 1] \notin cut
    <3>1. j + 1 \in 1..n
      BY <1>1, <1>3
    <3> QED
      BY <1>1, <1>2, <3>1 DEF EndsWith
  <2> QED
    BY <2>1, <2>2, <2>3 DEF EndsWith
<1>5. k \in 1..Len(t)
  BY <1>1
<1>6. EndOf(t, cut, k) = e
  BY <1>1, <1>4, <1>5, EndIs
<1>7. SubSeq(t, k, e) = SubSeq(u, k, e)
  <2> DEFINE a == SubSeq(t, k, e)
             b == SubSeq(u, k, e)
  <2>0. k \in 1..Len(t) /\ k \in 1..Len(u) /\ e \in k..Len(t) /\ e \in k..Len(u)
    BY <1>1, <1>3
  <2>1. a \in Seq(Nat) /\ Len(a) = (e - k) + 1 /\ \A i \in 1..(e - k) + 1 : a[i] = t[(k + i) - 1]
    BY <1>1, <2>0, Piece
  <2>2. b \in Seq(Nat) /\ Len(b) = (e - k) + 1 /\ \A i \in 1..(e - k) + 1 : b[i] = u[(k + i) - 1]
    BY <1>1, <2>0, Piece
  <2>3. \A i \in 1..(e - k) + 1 : (k + i) - 1 \in 1..n
    BY <1>1, <1>3
  <2> HIDE DEF a, b
  <2>4. \A i \in 1..Len(b) : a[i] = b[i]
    BY <1>1, <2>1, <2>2, <2>3
  <2>5. a = b
    BY <2>1, <2>2, <2>4, SameSeq
  <2> QED
    BY <2>5 DEF a, b
<1> QED
  BY <1>1, <1>5, <1>6, <1>7, RunsAre DEF t, e

\* The starts do not change behind a new character.
LEMMA StartsStay ==
  ASSUME NEW u \in Text, NEW r \in Nat, NEW cut
  PROVE  /\ \A k \in 1..Len(u) : k \in Starts(Append(u, r), cut) <=> k \in Starts(u, cut)
         /\ Len(u) + 1 \in Starts(Append(u, r), cut) <=>
              r \notin cut /\ (u = <<>> \/ u[Len(u)] \in cut)
<1> DEFINE t == Append(u, r)
           n == Len(u)
<1>1. /\ t \in Text /\ n \in Nat /\ Len(t) = n + 1 /\ t[n + 1] = r
      /\ \A i \in 1..n : t[i] = u[i]
      /\ u = <<>> <=> n = 0
  BY DEF Text
<1> HIDE DEF t
<1>2. ASSUME NEW k \in 1..n PROVE k \in Starts(t, cut) <=> k \in Starts(u, cut)
  <2>1. k \in 1..Len(t) /\ t[k] = u[k] /\ (k # 1 => t[k - 1] = u[k - 1])
    BY <1>1
  <2> QED
    BY <2>1 DEF Starts
<1>3. n + 1 \in Starts(t, cut) <=> r \notin cut /\ (u = <<>> \/ u[n] \in cut)
  <2>1. n + 1 \in 1..Len(t) /\ (n + 1) - 1 = n /\ (n # 0 => t[n] = u[n]) /\ (n + 1 = 1 <=> n = 0)
    BY <1>1
  <2> QED
    BY <1>1, <2>1 DEF Starts
<1> QED
  BY <1>2, <1>3 DEF t

\* A boundary changes no word, and behind one a word begins.
LEMMA WordBegins ==
  ASSUME NEW u \in Text, NEW r \in Nat, NEW cut, r \in cut \/ u = <<>> \/ u[Len(u)] \in cut
  PROVE  Runs(Append(u, r), cut) =
           IF r \in cut THEN Runs(u, cut) ELSE Append(Runs(u, cut), <<r>>)
<1> DEFINE t == Append(u, r)
           n == Len(u)
           a == RunsAt(t, cut)
           b == RunsAt(u, cut)
           A == Starts(t, cut)
           B == Starts(u, cut)
           c == Append(b, a[n + 1])
<1>1. /\ t \in Seq(Nat) /\ t \in Text /\ n \in Nat /\ Len(t) = n + 1 /\ t[n + 1] = r
      /\ \A i \in 1..n : t[i] = u[i]
  BY DEF Text
<1>2. /\ a \in Seq(Text) /\ Len(a) = n + 1 /\ Runs(t, cut) = Kept(a, A)
      /\ a[n + 1] = SubSeq(t, n + 1, EndOf(t, cut, n + 1))
      /\ b \in Seq(Text) /\ Len(b) = n /\ Runs(u, cut) = Kept(b, B)
  <2>1. n + 1 \in 1..Len(t)
    BY <1>1
  <2> QED
    BY <1>1, <2>1, RunsAre
<1>3. /\ \A k \in 1..n : k \in A <=> k \in B
      /\ n + 1 \in A <=> r \notin cut
  BY StartsStay
<1>4. ASSUME NEW k \in 1..n, k \in B PROVE a[k] = b[k]
  <2>1. EndOf(u, cut, k) # n \/ r \in cut
    <3> SUFFICES ASSUME EndOf(u, cut, k) = n, r \notin cut PROVE FALSE
      OBVIOUS
    <3>1. u[n] \in cut /\ u[k] \notin cut /\ k # n
      BY <1>1, <1>4 DEF Starts
    <3>2. n - 1 \in k..n - 1 /\ (n - 1) + 1 = n
      BY <1>1, <3>1
    <3>3. EndsWith(u, cut, k, n)
      BY EndIs
    <3> QED
      BY <3>1, <3>2, <3>3 DEF EndsWith
  <2> QED
    BY <2>1, RunStays
<1>5. a[n + 1] = <<r>>
  <2>1. EndsWith(t, cut, n + 1, n + 1)
    BY <1>1 DEF EndsWith
  <2>2. n + 1 \in 1..Len(t)
    BY <1>1
  <2>3. EndOf(t, cut, n + 1) = n + 1
    BY <1>1, <2>1, <2>2, EndIs
  <2>4. SubSeq(t, n + 1, n + 1) = <<r>>
    <3> DEFINE w == SubSeq(t, n + 1, n + 1)
    <3>1. n + 1 \in n + 1..Len(t) /\ ((n + 1) - (n + 1)) + 1 = 1 /\ ((n + 1) + 1) - 1 = n + 1
          /\ 1 \in 1..1
      BY <1>1
    <3>2. w \in Seq(Nat) /\ Len(w) = 1 /\ w[1] = t[n + 1]
      BY <1>1, <2>2, <3>1, Piece
    <3> HIDE DEF w
    <3>3. w = <<r>>
      BY <1>1, <3>2
    <3> QED
      BY <3>3 DEF w
  <2> QED
    BY <1>2, <2>3, <2>4
<1> HIDE DEF t, a, b, A, B
<1>6. a[n + 1] \in Text
  <2>1. n + 1 \in 1..Len(a)
    BY <1>1, <1>2
  <2>2. a \in Seq(Text)
    BY <1>2
  <2> HIDE DEF n
  <2> QED
    BY ONLY <2>1, <2>2
<1>7. c \in Seq(Text) /\ Len(c) = n + 1 /\ c[n + 1] = a[n + 1] /\ \A k \in 1..n : c[k] = b[k]
  <2>1. b \in Seq(Text) /\ Len(b) = n
    BY <1>2
  <2> DEFINE x == a[n + 1]
  <2>2. x \in Text
    BY <1>6
  <2> HIDE DEF x, n
  <2> QED
    BY ONLY <2>1, <2>2, Appended DEF x
<1>8. Kept(a, A) = Kept(c, A)
  <2>1. \A k \in 1..Len(a) : k \in A => a[k] = c[k]
    <3> SUFFICES ASSUME NEW k \in 1..Len(a), k \in A PROVE a[k] = c[k]
      OBVIOUS
    <3>1. CASE k = n + 1
      BY <1>7, <3>1
    <3>2. CASE k # n + 1
      <4>1. k \in 1..n
        BY <1>1, <1>2, <3>2
      <4> QED
        BY <1>3, <1>4, <1>7, <4>1
    <3> QED
      BY <3>1, <3>2
  <2> HIDE DEF c
  <2> QED
    BY ONLY <1>2, <1>7, <2>1, KeptSame
<1>9. /\ n + 1 \in A => Kept(c, A) = Append(Kept(b, B), a[n + 1])
      /\ n + 1 \notin A => Kept(c, A) = Kept(b, B)
  <2>1. \A k \in 1..Len(b) : k \in A <=> k \in B
    BY <1>2, <1>3
  <2>2. /\ Len(b) + 1 \in A => Kept(Append(b, a[n + 1]), A) = Append(Kept(b, B), a[n + 1])
        /\ Len(b) + 1 \notin A => Kept(Append(b, a[n + 1]), A) = Kept(b, B)
    <3> DEFINE x == a[n + 1]
    <3>1. x \in Text /\ b \in Seq(Text)
      BY <1>2, <1>6
    <3> HIDE DEF x
    <3>2. /\ Len(b) + 1 \in A => Kept(Append(b, x), A) = Append(Kept(b, B), x)
          /\ Len(b) + 1 \notin A => Kept(Append(b, x), A) = Kept(b, B)
      BY ONLY <3>1, <2>1, KeptGrows
    <3> QED
      BY <3>2 DEF x
  <2> QED
    BY <1>2, <2>2
<1> QED
  BY <1>2, <1>3, <1>5, <1>8, <1>9 DEF t

\* Any other character makes the last word longer.
LEMMA WordGrows ==
  ASSUME NEW u \in Text, NEW r \in Nat, NEW cut, r \notin cut, u # <<>>, u[Len(u)] \notin cut
  PROVE  \E ws \in Seq(Text), w \in Text :
           /\ w # <<>>
           /\ Runs(u, cut) = Append(ws, w)
           /\ Runs(Append(u, r), cut) = Append(ws, Append(w, r))
<1> DEFINE t == Append(u, r)
           n == Len(u)
           a == RunsAt(t, cut)
           b == RunsAt(u, cut)
           A == Starts(t, cut)
           B == Starts(u, cut)
           K == {k \in Nat : k \in 1..n /\ \A i \in k..n : u[i] \notin cut}
<1>1. /\ t \in Seq(Nat) /\ t \in Text /\ n \in Nat \ {0} /\ Len(t) = n + 1 /\ t[n + 1] = r
      /\ \A i \in 1..n : t[i] = u[i]
      /\ u \in Seq(Nat)
  BY DEF Text
<1>2. /\ a \in Seq(Text) /\ Len(a) = n + 1 /\ Runs(t, cut) = Kept(a, A)
      /\ \A i \in 1..n + 1 : a[i] = SubSeq(t, i, EndOf(t, cut, i))
      /\ b \in Seq(Text) /\ Len(b) = n /\ Runs(u, cut) = Kept(b, B)
      /\ \A i \in 1..n : b[i] = SubSeq(u, i, EndOf(u, cut, i))
  BY <1>1, RunsAre
<1>3. (\A k \in 1..n : k \in A <=> k \in B) /\ n + 1 \notin A
  BY StartsStay
<1>4. PICK k \in K : \A i \in K : k <= i
  <2>1. n \in K /\ K \in SUBSET Nat
    BY <1>1
  <2> HIDE DEF K
  <2> QED
    BY <2>1, NatHasLeast
<1>5. k \in 1..n /\ (\A i \in k..n : u[i] \notin cut) /\ (k # 1 => u[k - 1] \in cut)
  <2>1. k \in 1..n /\ \A i \in k..n : u[i] \notin cut
    BY <1>4
  <2>2. ASSUME k # 1, u[k - 1] \notin cut PROVE FALSE
    <3>1. k - 1 \in Nat /\ k - 1 \in 1..n /\ ~(k <= k - 1)
      BY <1>1, <2>1, <2>2
    <3>2. \A i \in k - 1..n : i = k - 1 \/ i \in k..n
      BY <1>1, <2>1
    <3>3. k - 1 \in K
      BY <2>1, <2>2, <3>1, <3>2
    <3> QED
      BY <1>4, <3>1, <3>3
  <2> QED
    BY <2>1, <2>2
<1>6. k \in B /\ k \in A
  <2>1. u[k] \notin cut
    BY <1>1, <1>5
  <2> QED
    BY <1>3, <1>5, <2>1 DEF Starts
<1>7. B \cap (k + 1..n) = {} /\ A \cap (k + 1..n + 1) = {}
  <2>1. ASSUME NEW i \in k + 1..n PROVE i \notin B
    <3>1. i - 1 \in k..n /\ i # 1
      BY <1>1, <1>5
    <3> QED
      BY <1>5, <3>1 DEF Starts
  <2>2. ASSUME NEW i \in k + 1..n + 1 PROVE i \notin A
    <3>1. CASE i = n + 1
      BY <1>3, <3>1
    <3>2. CASE i # n + 1
      <4>1. i \in k + 1..n /\ i \in 1..n
        BY <1>1, <1>5, <3>2
      <4> QED
        BY <1>3, <2>1, <4>1
    <3> QED
      BY <3>1, <3>2
  <2> QED
    BY <2>1, <2>2
<1>8. ASSUME NEW i \in 1..k - 1, i \in B PROVE a[i] = b[i]
  <2>1. i \in 1..n /\ k # 1 /\ i \in Nat /\ k \in Nat
    BY <1>1, <1>5
  <2>2. i # k - 1
    BY <1>5, <1>8, <2>1 DEF Starts
  <2>3. EndOf(u, cut, i) # n
    <3> SUFFICES ASSUME EndOf(u, cut, i) = n PROVE FALSE
      OBVIOUS
    <3>1. EndsWith(u, cut, i, n)
      BY <2>1, EndIs
    <3>2. k - 2 \in i..n - 1 /\ (k - 2) + 1 = k - 1
      BY <1>1, <1>5, <2>1, <2>2
    <3> QED
      BY <1>5, <2>1, <3>1, <3>2 DEF EndsWith
  <2> QED
    BY <2>1, <2>3, RunStays
<1>9. EndOf(u, cut, k) = n /\ EndOf(t, cut, k) = n + 1
  <2>1. EndsWith(u, cut, k, n)
    <3>1. \A j \in k..n - 1 : j + 1 \in k..n
      BY <1>1, <1>5
    <3> QED
      BY <1>1, <1>5, <3>1 DEF EndsWith
  <2>2. EndsWith(t, cut, k, n + 1)
    <3>1. \A j \in k..(n + 1) - 1 : (j + 1 \in k..n /\ j + 1 \in 1..n) \/ j + 1 = n + 1
      BY <1>1, <1>5
    <3>2. n + 1 \in k..Len(t) /\ n + 1 = Len(t)
      BY <1>1, <1>5
    <3> QED
      BY <1>1, <1>5, <3>1, <3>2 DEF EndsWith
  <2>3. k \in 1..Len(t)
    BY <1>1, <1>5
  <2> QED
    BY <1>1, <1>5, <2>1, <2>2, <2>3, EndIs
<1> DEFINE w  == SubSeq(u, k, n)
           ws == Kept(SubSeq(b, 1, k - 1), B)
<1>10. w \in Seq(Nat) /\ w # <<>> /\ SubSeq(t, k, n + 1) = Append(w, r)
  <2> DEFINE v == SubSeq(t, k, n + 1)
             x == Append(w, r)
             m == (n - k) + 1
  <2>0. /\ k \in 1..Len(u) /\ n \in k..Len(u) /\ k \in 1..Len(t) /\ n + 1 \in k..Len(t)
        /\ ((n + 1) - k) + 1 = m + 1
    BY <1>1, <1>5
  <2>1. w \in Seq(Nat) /\ Len(w) = m /\ \A i \in 1..m : w[i] = u[(k + i) - 1]
    BY <1>1, <2>0, Piece
  <2>2. v \in Seq(Nat) /\ Len(v) = m + 1 /\ \A i \in 1..m + 1 : v[i] = t[(k + i) - 1]
    <3>1. v \in Seq(Nat) /\ Len(v) = ((n + 1) - k) + 1
          /\ \A i \in 1..((n + 1) - k) + 1 : v[i] = t[(k + i) - 1]
      BY <1>1, <2>0, Piece
    <3> QED
      BY <2>0, <3>1
  <2>3. m \in Nat \ {0} /\ (k + (m + 1)) - 1 = n + 1 /\ \A i \in 1..m : (k + i) - 1 \in 1..n
    BY <1>1, <1>5
  <2> HIDE DEF w, v, m
  <2>4. x \in Seq(Nat) /\ Len(x) = m + 1 /\ x[m + 1] = r /\ \A i \in 1..m : x[i] = w[i]
    BY <2>1, <2>3, Appended
  <2>5. ASSUME NEW i \in 1..m PROVE v[i] = x[i]
    <3>1. i \in 1..m + 1 /\ (k + i) - 1 \in 1..n
      BY <2>3
    <3> QED
      BY <1>1, <2>1, <2>2, <2>4, <3>1
  <2>6. v[m + 1] = x[m + 1]
    <3>1. m + 1 \in 1..m + 1
      BY <2>3
    <3> QED
      BY <1>1, <2>2, <2>3, <2>4, <3>1
  <2> HIDE DEF x
  <2>7. \A i \in 1..Len(x) : v[i] = x[i]
    BY <2>3, <2>4, <2>5, <2>6
  <2>8. v = x
    BY <2>2, <2>4, <2>7, SameSeq
  <2>9. w # <<>>
    BY <2>1, <2>3
  <2> QED
    BY <2>1, <2>8, <2>9 DEF v, x
<1>11. b[k] = w /\ a[k] = Append(w, r)
  <2>1. k \in 1..n + 1
    BY <1>1, <1>5
  <2> QED
    BY <1>2, <1>5, <1>9, <1>10, <2>1
<1> HIDE DEF a, b, A, B, t, n, K
<1>12. /\ Kept(b, B) = Append(ws, b[k])
       /\ SubSeq(b, 1, k - 1) \in Seq(Text) /\ Len(SubSeq(b, 1, k - 1)) = k - 1
       /\ \A i \in 1..k - 1 : SubSeq(b, 1, k - 1)[i] = b[i]
  <2>1. k \in 1..Len(b) /\ B \cap (k + 1..Len(b)) = {}
    BY <1>2, <1>5, <1>7
  <2> QED
    BY ONLY <1>2, <1>6, <2>1, KeptLast
<1>13. /\ Kept(a, A) = Append(Kept(SubSeq(a, 1, k - 1), A), a[k])
       /\ SubSeq(a, 1, k - 1) \in Seq(Text) /\ Len(SubSeq(a, 1, k - 1)) = k - 1
       /\ \A i \in 1..k - 1 : SubSeq(a, 1, k - 1)[i] = a[i]
  <2>1. k \in 1..Len(a)
    BY <1>1, <1>2, <1>5
  <2>2. A \cap (k + 1..Len(a)) = {}
    BY <1>2, <1>7
  <2>3. a \in Seq(Text) /\ k \in A
    BY <1>2, <1>6
  <2> QED
    BY ONLY <2>1, <2>2, <2>3, KeptLast
<1>14. Kept(SubSeq(a, 1, k - 1), A) = ws
  <2> DEFINE p == SubSeq(a, 1, k - 1)
             q == SubSeq(b, 1, k - 1)
  <2>1. p \in Seq(Text) /\ q \in Seq(Text) /\ Len(p) = Len(q) /\ Len(q) = k - 1
    BY <1>12, <1>13
  <2>2. \A i \in 1..Len(q) : i \in B => q[i] = p[i]
    BY <1>8, <1>12, <1>13, <2>1
  <2>3. \A i \in 1..Len(p) : i \in A <=> i \in B
    <3>1. \A i \in 1..k - 1 : i \in 1..n
      BY <1>1, <1>5
    <3> QED
      BY <1>3, <2>1, <3>1
  <2> HIDE DEF p, q
  <2>4. Kept(q, B) = Kept(p, B)
    BY ONLY <2>1, <2>2, KeptSame
  <2>5. Kept(p, A) = Kept(p, B)
    BY ONLY <2>1, <2>3, KeptIsSeq
  <2> QED
    BY <2>4, <2>5 DEF p, q
<1>15. ws \in Seq(Text)
  <2> HIDE DEF ws
  <2>1. Kept(SubSeq(b, 1, k - 1), B) \in Seq(Text)
    BY ONLY <1>12, KeptIsSeq
  <2> QED
    BY <2>1 DEF ws
<1>16. /\ w \in Text /\ w # <<>>
       /\ Runs(u, cut) = Append(ws, w) /\ Runs(t, cut) = Append(ws, Append(w, r))
  BY <1>2, <1>10, <1>11, <1>12, <1>13, <1>14 DEF Text
<1> HIDE DEF w, ws
<1> QED
  BY <1>15, <1>16 DEF t

-----------------------------------------------------------------------------
(***************************************************************************)
(* What words make up.                                                     *)
(***************************************************************************)

\* The texts that Runs takes apart, the words it finds, and what names are made of.
Cuts      == {Underscore, Sep}
WordChars == Alnum \cup Cuts
WordSet   == Seq(Alnum) \ {<<>>}
Filled    == Text \ {<<>>}

Each(f, s)     == [k \in DOMAIN s |-> f[s[k]]]
SmallWord(w)   == [i \in DOMAIN w |-> ToLower(w[i])]
CapitalWord(w) == <<ToUpper(w[1])>> \o Tail(w)
SmallOf(ws)    == [k \in DOMAIN ws |-> SmallWord(ws[k])]
CapitalOf(ws)  == [k \in DOMAIN ws |-> CapitalWord(ws[k])]
LettersEach(s) == [k \in DOMAIN s |-> Letters(s[k])]

\* What is made of each element grows with the sequence.
LEMMA EachGrows ==
  ASSUME NEW S, NEW R, NEW f \in [S -> R]
  PROVE  /\ Each(f, <<>>) = <<>>
         /\ \A s \in Seq(S) : Each(f, s) \in Seq(R)
         /\ \A s \in Seq(S) : Len(Each(f, s)) = Len(s)
         /\ \A s \in Seq(S), x \in S : Each(f, Append(s, x)) = Append(Each(f, s), f[x])
<1>1. Each(f, <<>>) = <<>>
  BY DEF Each
<1>2. ASSUME NEW s \in Seq(S) PROVE Each(f, s) \in Seq(R) /\ Len(Each(f, s)) = Len(s)
  <2>1. DOMAIN s = 1..Len(s) /\ Len(s) \in Nat /\ \A k \in 1..Len(s) : f[s[k]] \in R
    OBVIOUS
  <2> QED
    BY <2>1 DEF Each
<1>3. ASSUME NEW s \in Seq(S), NEW x \in S
      PROVE  Each(f, Append(s, x)) = Append(Each(f, s), f[x])
  <2> DEFINE t == Append(s, x)
             a == Each(f, t)
             b == Each(f, s)
             y == f[x]
             c == Append(b, y)
             n == Len(s)
  <2>1. /\ t \in Seq(S) /\ n \in Nat /\ Len(t) = n + 1 /\ t[n + 1] = x
        /\ \A i \in 1..n : t[i] = s[i]
        /\ DOMAIN t = 1..n + 1 /\ DOMAIN s = 1..n
    OBVIOUS
  <2>2. y \in R
    OBVIOUS
  <2>3. a \in Seq(R) /\ Len(a) = n + 1 /\ b \in Seq(R) /\ Len(b) = n
    BY <1>2, <2>1
  <2> HIDE DEF t, y, n
  <2>4. a[n + 1] = y
    BY <2>1 DEF Each, y
  <2>5. ASSUME NEW i \in 1..n PROVE a[i] = b[i]
    BY <2>1 DEF Each
  <2> HIDE DEF a, b
  <2>6. c \in Seq(R) /\ Len(c) = n + 1 /\ c[n + 1] = y /\ \A i \in 1..n : c[i] = b[i]
    BY <2>2, <2>3, Appended
  <2> HIDE DEF c
  <2>7. ASSUME NEW i \in 1..Len(c) PROVE a[i] = c[i]
    <3>1. i = n + 1 \/ i \in 1..n
      BY <2>1, <2>6
    <3> QED
      BY <2>4, <2>5, <2>6, <3>1
  <2>8. a = c
    BY <2>3, <2>6, <2>7, SameSeq
  <2> QED
    BY <2>8 DEF a, b, c, t, y
<1> QED
  BY <1>1, <1>2, <1>3

\* A word in small letters, character by character.
LEMMA SmallWordGrows ==
  /\ \A w \in Text : SmallWord(w) \in Text
  /\ \A r \in Nat : SmallWord(<<r>>) = <<ToLower(r)>>
  /\ \A w \in Text, r \in Nat : SmallWord(Append(w, r)) = Append(SmallWord(w), ToLower(r))
<1> DEFINE f == [r \in Nat |-> ToLower(r)]
<1>1. f \in [Nat -> Nat]
  BY CaseIs
<1>2. ASSUME NEW w \in Text PROVE SmallWord(w) = Each(f, w)
  <2>1. \A i \in DOMAIN w : w[i] \in Nat
    BY DEF Text
  <2> QED
    BY <2>1 DEF SmallWord, Each
<1>3. \A r \in Nat : f[r] = ToLower(r)
  OBVIOUS
<1> HIDE DEF f
<1>4. /\ Each(f, <<>>) = <<>>
      /\ \A s \in Text : Each(f, s) \in Text
      /\ \A s \in Text, x \in Nat : Each(f, Append(s, x)) = Append(Each(f, s), f[x])
  BY <1>1, EachGrows DEF Text
<1>5. \A w \in Text, r \in Nat : Append(w, r) \in Text
  BY DEF Text
<1>6. ASSUME NEW r \in Nat PROVE SmallWord(<<r>>) = <<ToLower(r)>>
  <2>1. <<>> \in Text /\ Append(<<>>, r) = <<r>> /\ Append(<<>>, ToLower(r)) = <<ToLower(r)>>
    BY DEF Text
  <2>2. SmallWord(<<r>>) = Each(f, <<r>>)
    BY <1>2, <1>5, <2>1
  <2> QED
    BY <1>3, <1>4, <2>1, <2>2
<1> QED
  BY <1>2, <1>3, <1>4, <1>5, <1>6

\* A word with a capital, character by character.
LEMMA CapitalWordGrows ==
  /\ \A w \in Filled : CapitalWord(w) \in Text
  /\ \A r \in Nat : CapitalWord(<<r>>) = <<ToUpper(r)>>
  /\ \A w \in Filled, r \in Nat : CapitalWord(Append(w, r)) = Append(CapitalWord(w), r)
<1>1. ASSUME NEW w \in Filled
      PROVE  /\ w \in Seq(Nat) /\ w # <<>> /\ Tail(w) \in Seq(Nat) /\ Len(Tail(w)) = Len(w) - 1
             /\ w[1] \in Nat /\ <<ToUpper(w[1])>> \in Seq(Nat)
  <2>1. w \in Seq(Nat) /\ w # <<>>
    BY DEF Filled, Text
  <2>2. w[1] \in Nat
    BY <2>1
  <2>3. ToUpper(w[1]) \in Nat
    BY <2>2, CaseIs
  <2> QED
    BY <2>1, <2>2, <2>3, Tailed
<1>2. ASSUME NEW w \in Filled PROVE CapitalWord(w) \in Text
  <2> DEFINE c == ToUpper(w[1])
             d == Tail(w)
  <2>1. <<c>> \in Seq(Nat) /\ d \in Seq(Nat)
    BY <1>1
  <2> HIDE DEF c, d
  <2>2. <<c>> \o d \in Seq(Nat)
    BY <2>1, Concatenated
  <2> QED
    BY <2>2 DEF CapitalWord, Text, c, d
<1>3. ASSUME NEW r \in Nat PROVE CapitalWord(<<r>>) = <<ToUpper(r)>>
  <2>1. <<r>>[1] = r /\ Tail(<<r>>) = <<>> /\ ToUpper(r) \in Nat
    BY CaseIs
  <2>2. <<ToUpper(r)>> \o <<>> = <<ToUpper(r)>>
    BY <2>1
  <2> QED
    BY <2>1, <2>2 DEF CapitalWord
<1>4. ASSUME NEW w \in Filled, NEW r \in Nat
      PROVE  CapitalWord(Append(w, r)) = Append(CapitalWord(w), r)
  <2> DEFINE t == Append(w, r)
             a == Tail(t)
             b == Tail(w)
             c == Append(b, r)
             x == ToUpper(w[1])
             n == Len(w)
  <2>1. /\ w \in Seq(Nat) /\ n \in Nat \ {0} /\ t \in Seq(Nat) /\ t # <<>> /\ Len(t) = n + 1
        /\ t[n + 1] = r /\ \A i \in 1..n : t[i] = w[i]
    BY <1>1
  <2> HIDE DEF t
  <2>2. a \in Seq(Nat) /\ Len(a) = n /\ \A i \in 1..n : a[i] = t[i + 1]
    BY <2>1
  <2>3. b \in Seq(Nat) /\ Len(b) = n - 1 /\ \A i \in 1..n - 1 : b[i] = w[i + 1]
    BY <1>1, <2>1
  <2> HIDE DEF a, b
  <2>4. c \in Seq(Nat) /\ Len(c) = (n - 1) + 1 /\ c[(n - 1) + 1] = r /\ \A i \in 1..n - 1 : c[i] = b[i]
    BY <2>3, Appended
  <2> HIDE DEF c, n
  <2>5. ASSUME NEW i \in 1..Len(c) PROVE a[i] = c[i]
    <3>0. n \in Nat \ {0} /\ (n - 1) + 1 = n /\ i \in 1..n
      BY <2>1, <2>4
    <3>1. CASE i = n
      <4>1. a[n] = t[n + 1] /\ c[n] = r
        BY <2>2, <2>4, <3>0
      <4> QED
        BY <2>1, <3>1, <4>1
    <3>2. CASE i # n
      <4>1. i \in 1..n - 1 /\ i + 1 \in 1..n
        BY <3>0, <3>2
      <4> QED
        BY <2>1, <2>2, <2>3, <2>4, <3>0, <4>1
    <3> QED
      BY <3>1, <3>2
  <2>6. Len(a) = Len(c)
    BY <2>1, <2>2, <2>4
  <2>7. a = c
    BY ONLY <2>2, <2>4, <2>5, <2>6, SameSeq
  <2>8. t[1] = w[1]
    BY <2>1
  <2>9. x \in Nat
    BY <1>1, CaseIs
  <2> HIDE DEF x
  <2>10. <<x>> \o Append(b, r) = Append(<<x>> \o b, r)
    BY <2>3, <2>9, Concat
  <2> QED
    BY <2>7, <2>8, <2>10 DEF CapitalWord, a, b, c, t, x
<1> QED
  BY <1>2, <1>3, <1>4

\* The words in small letters, with capitals, and the letters of segments, one by one.
LEMMA WordsGrow ==
  /\ SmallOf(<<>>) = <<>> /\ CapitalOf(<<>>) = <<>> /\ LettersEach(<<>>) = <<>>
  /\ \A ws \in Seq(Filled) :
       /\ SmallOf(ws) \in Seq(Text) /\ Len(SmallOf(ws)) = Len(ws)
       /\ CapitalOf(ws) \in Seq(Text) /\ Len(CapitalOf(ws)) = Len(ws)
  /\ \A ws \in Seq(Filled), w \in Filled :
       /\ SmallOf(Append(ws, w)) = Append(SmallOf(ws), SmallWord(w))
       /\ CapitalOf(Append(ws, w)) = Append(CapitalOf(ws), CapitalWord(w))
  /\ \A s \in Seq(Text) : LettersEach(s) \in Seq(Text) /\ Len(LettersEach(s)) = Len(s)
  /\ \A s \in Seq(Text), w \in Text : LettersEach(Append(s, w)) = Append(LettersEach(s), Letters(w))
<1> DEFINE f == [w \in Filled |-> SmallWord(w)]
           g == [w \in Filled |-> CapitalWord(w)]
           h == [w \in Text |-> Letters(w)]
<1>1. f \in [Filled -> Text] /\ g \in [Filled -> Text] /\ h \in [Text -> Text]
  <2>1. \A w \in Filled : SmallWord(w) \in Text
    BY SmallWordGrows DEF Filled
  <2>2. \A w \in Filled : CapitalWord(w) \in Text
    BY CapitalWordGrows
  <2>3. \A w \in Text : Letters(w) \in Text
    BY LettersAre, AlnumIsText
  <2> QED
    BY <2>1, <2>2, <2>3
<1>2. ASSUME NEW ws \in Seq(Filled) PROVE SmallOf(ws) = Each(f, ws) /\ CapitalOf(ws) = Each(g, ws)
  <2>1. \A k \in DOMAIN ws : ws[k] \in Filled
    OBVIOUS
  <2>2. \A k \in DOMAIN ws : f[ws[k]] = SmallWord(ws[k]) /\ g[ws[k]] = CapitalWord(ws[k])
    BY <2>1
  <2> HIDE DEF f, g
  <2> QED
    BY <2>2 DEF SmallOf, CapitalOf, Each
<1>3. ASSUME NEW s \in Seq(Text) PROVE LettersEach(s) = Each(h, s)
  <2>1. \A k \in DOMAIN s : s[k] \in Text
    OBVIOUS
  <2>2. \A k \in DOMAIN s : h[s[k]] = Letters(s[k])
    BY <2>1
  <2> HIDE DEF h
  <2> QED
    BY <2>2 DEF LettersEach, Each
<1>4. /\ \A w \in Filled : f[w] = SmallWord(w) /\ g[w] = CapitalWord(w)
      /\ \A w \in Text : h[w] = Letters(w)
  OBVIOUS
<1> HIDE DEF f, g, h
<1>10. f \in [Filled -> Text]
  BY <1>1
<1>11. g \in [Filled -> Text]
  BY <1>1
<1>12. h \in [Text -> Text]
  BY <1>1
<1>13. /\ \A s \in Seq(Filled) : Each(f, s) \in Seq(Text) /\ Len(Each(f, s)) = Len(s)
       /\ \A s \in Seq(Filled), x \in Filled : Each(f, Append(s, x)) = Append(Each(f, s), f[x])
  <2> DEFINE S == Filled
             R == Text
  <2>1. f \in [S -> R]
    BY <1>10
  <2> HIDE DEF S, R
  <2>2. ASSUME NEW s \in Seq(S) PROVE Each(f, s) \in Seq(R)
    BY ONLY <2>1, EachGrows
  <2>4. ASSUME NEW s \in Seq(S) PROVE Len(Each(f, s)) = Len(s)
    BY ONLY <2>1, EachGrows
  <2>3. \A s \in Seq(S), x \in S : Each(f, Append(s, x)) = Append(Each(f, s), f[x])
    BY ONLY <2>1, EachGrows
  <2> QED
    BY ONLY <2>2, <2>3, <2>4 DEF S, R
<1>14. /\ \A s \in Seq(Filled) : Each(g, s) \in Seq(Text) /\ Len(Each(g, s)) = Len(s)
       /\ \A s \in Seq(Filled), x \in Filled : Each(g, Append(s, x)) = Append(Each(g, s), g[x])
  <2> DEFINE S == Filled
             R == Text
  <2>1. g \in [S -> R]
    BY <1>11
  <2> HIDE DEF S, R
  <2>2. ASSUME NEW s \in Seq(S) PROVE Each(g, s) \in Seq(R)
    BY ONLY <2>1, EachGrows
  <2>4. ASSUME NEW s \in Seq(S) PROVE Len(Each(g, s)) = Len(s)
    BY ONLY <2>1, EachGrows
  <2>3. \A s \in Seq(S), x \in S : Each(g, Append(s, x)) = Append(Each(g, s), g[x])
    BY ONLY <2>1, EachGrows
  <2> QED
    BY ONLY <2>2, <2>3, <2>4 DEF S, R
<1>15. /\ \A s \in Seq(Text) : Each(h, s) \in Seq(Text) /\ Len(Each(h, s)) = Len(s)
       /\ \A s \in Seq(Text), x \in Text : Each(h, Append(s, x)) = Append(Each(h, s), h[x])
  BY ONLY <1>12, EachGrows
<1>5. SmallOf(<<>>) = <<>> /\ CapitalOf(<<>>) = <<>> /\ LettersEach(<<>>) = <<>>
  BY DEF SmallOf, CapitalOf, LettersEach
<1>6. ASSUME NEW ws \in Seq(Filled)
      PROVE  /\ SmallOf(ws) \in Seq(Text) /\ Len(SmallOf(ws)) = Len(ws)
             /\ CapitalOf(ws) \in Seq(Text) /\ Len(CapitalOf(ws)) = Len(ws)
  BY <1>2, <1>13, <1>14
<1>7. ASSUME NEW ws \in Seq(Filled), NEW w \in Filled
      PROVE  /\ SmallOf(Append(ws, w)) = Append(SmallOf(ws), SmallWord(w))
             /\ CapitalOf(Append(ws, w)) = Append(CapitalOf(ws), CapitalWord(w))
  <2>1. Append(ws, w) \in Seq(Filled)
    OBVIOUS
  <2>2. Each(f, Append(ws, w)) = Append(Each(f, ws), f[w])
    BY <1>13
  <2>3. Each(g, Append(ws, w)) = Append(Each(g, ws), g[w])
    BY <1>14
  <2> QED
    BY <1>2, <1>4, <2>1, <2>2, <2>3
<1>8. ASSUME NEW s \in Seq(Text) PROVE LettersEach(s) \in Seq(Text) /\ Len(LettersEach(s)) = Len(s)
  BY <1>3, <1>15
<1>9. ASSUME NEW s \in Seq(Text), NEW w \in Text
      PROVE  LettersEach(Append(s, w)) = Append(LettersEach(s), Letters(w))
  <2>1. Append(s, w) \in Seq(Text)
    OBVIOUS
  <2>2. Each(h, Append(s, w)) = Append(Each(h, s), h[w])
    BY <1>15
  <2> QED
    BY <1>3, <1>4, <2>1, <2>2
<1> QED
  BY <1>5, <1>6, <1>7, <1>8, <1>9

\* What is joined grows with its last part,
LEMMA JoinLast ==
  ASSUME NEW sep \in Text, NEW ws \in Seq(Text), NEW w \in Text, NEW r \in Nat
  PROVE  Join(Append(ws, Append(w, r)), sep) = Append(Join(Append(ws, w), sep), r)
<1>0. Append(w, r) \in Text /\ w \in Seq(Nat) /\ sep \in Seq(Nat)
  BY DEF Text
<1>1. CASE ws = <<>>
  <2>1. Append(<<>>, w) = <<w>> /\ Append(<<>>, Append(w, r)) = <<Append(w, r)>>
    OBVIOUS
  <2>2. Join(<<w>>, sep) = w /\ Join(<<Append(w, r)>>, sep) = Append(w, r)
    BY <1>0, JoinGrows
  <2> QED
    BY <1>1, <2>1, <2>2
<1>2. CASE ws # <<>>
  <2> DEFINE j == Join(ws, sep)
  <2>1. ws \in Splittings /\ j \in Text
    BY <1>2, JoinGrows DEF Splittings
  <2>2. /\ Join(Append(ws, w), sep) = j \o sep \o w
        /\ Join(Append(ws, Append(w, r)), sep) = j \o sep \o Append(w, r)
    BY <1>0, <2>1, JoinGrows
  <2> HIDE DEF j
  <2>3. j \o sep \in Seq(Nat)
    BY <1>0, <2>1, Concatenated DEF Text
  <2>4. (j \o sep) \o Append(w, r) = Append((j \o sep) \o w, r)
    BY <1>0, <2>3, Concat
  <2> QED
    BY <2>2, <2>4
<1> QED
  BY <1>1, <1>2

\* begins as its first part does,
LEMMA JoinFirst ==
  ASSUME NEW sep \in Text, NEW ws \in Seq(Filled), ws # <<>>
  PROVE  Join(ws, sep) # <<>> /\ Join(ws, sep)[1] = ws[1][1]
<1> DEFINE T == {s \in Seq(Filled) : s # <<>> => Join(s, sep) # <<>> /\ Join(s, sep)[1] = s[1][1]}
<1>1. <<>> \in T
  OBVIOUS
<1>2. ASSUME NEW s \in Seq(Filled), NEW w \in Filled, s \in T PROVE Append(s, w) \in T
  <2>0. w \in Text /\ w # <<>> /\ Filled \subseteq Text
    BY DEF Filled
  <2>1. Append(s, w) \in Seq(Filled) /\ Append(s, w)[1] = IF s = <<>> THEN w ELSE s[1]
    BY Appended
  <2>2. CASE s = <<>>
    <3>1. Append(<<>>, w) = <<w>>
      OBVIOUS
    <3>2. Join(<<w>>, sep) = w
      BY <2>0, JoinGrows
    <3> QED
      BY <2>0, <2>1, <2>2, <3>1, <3>2
  <2>3. CASE s # <<>>
    <3> DEFINE j == Join(s, sep)
               e == sep \o w
    <3>1. s \in Seq(Text)
      BY <2>0, SeqsWithin
    <3>2. s \in Splittings /\ j \in Text
      BY <2>3, <3>1, JoinGrows DEF Splittings
    <3>3. Join(Append(s, w), sep) = j \o sep \o w
      BY <2>0, <3>2, JoinGrows
    <3>4. j # <<>> /\ j[1] = s[1][1]
      BY <1>2, <2>3
    <3> HIDE DEF j
    <3>5. (j \o sep) \o w = j \o e
      <4>1. j \in Seq(Nat) /\ sep \in Seq(Nat) /\ w \in Seq(Nat) /\ 0 \in Nat
        BY <2>0, <3>2 DEF Text
      <4> QED
        BY ONLY <4>1, Concat DEF e
    <3>6. e \in Seq(Nat) /\ j \in Seq(Nat)
      BY <2>0, <3>2, Concatenated DEF Text
    <3> HIDE DEF e
    <3>7. 1 \in 1..Len(j) /\ Len(j) \in Nat
      BY <3>4, <3>6
    <3>8. Len(j \o e) = Len(j) + Len(e) /\ (j \o e)[1] = j[1] /\ j \o e \in Seq(Nat) /\ Len(e) \in Nat
      BY <3>6, <3>7, Concatenated
    <3>9. j \o e # <<>>
      BY <3>7, <3>8
    <3> QED
      BY <2>1, <2>3, <3>3, <3>4, <3>5, <3>8, <3>9
  <2> QED
    BY <2>2, <2>3
<1>3. ws \in T
  <2> HIDE DEF T
  <2> QED
    BY <1>1, <1>2, SeqInduction
<1> QED
  BY <1>3

\* and with nothing between is one after the other.
LEMMA JoinFlattens ==
  ASSUME NEW parts \in Seq(Text)
  PROVE  FlattenSeq(parts) = Join(parts, <<>>)
<1> DEFINE T == {s \in Seq(Text) : FlattenSeq(s) = Join(s, <<>>)}
<1>0. <<>> \in Text
  BY DEF Text
<1>1. <<>> \in T
  BY <1>0, JoinGrows, FlattenGrows
<1>2. ASSUME NEW s \in Seq(Text), NEW w \in Text, s \in T PROVE Append(s, w) \in T
  <2> DEFINE j == Join(s, <<>>)
  <2>1. FlattenSeq(Append(s, w)) = FlattenSeq(s) \o w
    BY FlattenGrows DEF Text
  <2>2. FlattenSeq(s) = j /\ j \in Seq(Nat) /\ w \in Seq(Nat)
    BY <1>0, <1>2, JoinGrows DEF Text
  <2>5. Append(s, w) \in Seq(Text)
    OBVIOUS
  <2> HIDE DEF j
  <2>3. CASE s = <<>>
    <3>1. Append(<<>>, w) = <<w>> /\ <<>> \o w = w
      BY <2>2
    <3>2. Join(<<w>>, <<>>) = w /\ Join(<<>>, <<>>) = <<>>
      BY <1>0, JoinGrows
    <3>3. FlattenSeq(Append(s, w)) = Join(Append(s, w), <<>>)
      BY <2>1, <2>2, <2>3, <3>1, <3>2 DEF j
    <3> QED
      BY <2>5, <3>3
  <2>4. CASE s # <<>>
    <3>1. Join(Append(s, w), <<>>) = j \o <<>> \o w
      BY <1>0, <2>4, JoinGrows DEF Splittings, j
    <3>2. j \o <<>> = j
      BY <2>2
    <3>3. FlattenSeq(Append(s, w)) = Join(Append(s, w), <<>>)
      BY <2>1, <2>2, <3>1, <3>2
    <3> QED
      BY <2>5, <3>3
  <2> QED
    BY <2>3, <2>4
<1>3. parts \in T
  <2> HIDE DEF T
  <2> QED
    BY <1>1, <1>2, SeqInduction
<1> QED
  BY <1>3

\* What is appended to, and what is appended, are of the same kind as the whole.
LEMMA PartsOf ==
  ASSUME NEW S, NEW R, NEW s \in Seq(R), NEW x \in R, Append(s, x) \in Seq(S)
  PROVE  s \in Seq(S) /\ x \in S
<1> DEFINE t == Append(s, x)
           n == Len(s)
<1>1. n \in Nat /\ Len(t) = n + 1 /\ t[n + 1] = x /\ \A i \in 1..n : t[i] = s[i]
  OBVIOUS
<1>2. t \in Seq(S) /\ DOMAIN s = 1..n /\ s \in [1..n -> R]
  OBVIOUS
<1> HIDE DEF t, n
<1>3. \A i \in 1..n + 1 : t[i] \in S
  BY <1>1, <1>2
<1>4. n + 1 \in 1..n + 1 /\ \A i \in 1..n : i \in 1..n + 1
  BY <1>1
<1>5. x \in S
  BY <1>1, <1>3, <1>4
<1>6. \A i \in 1..n : s[i] \in S
  BY <1>1, <1>3, <1>4
<1>7. s \in [1..n -> S]
  BY <1>2, <1>6
<1>8. s \in Seq(S)
  BY <1>1, <1>7
<1> QED
  BY <1>5, <1>8

\* Words are texts, and boundaries are neither letters nor digits.
LEMMA WordsAreTexts ==
  /\ WordSet \subseteq Filled /\ Filled \subseteq Text
  /\ WordChars \subseteq Nat /\ Seq(WordChars) \subseteq Text
  /\ \A r \in WordChars : IsAlnum(r) <=> r \notin Cuts
<1>1. WordSet \subseteq Filled /\ Filled \subseteq Text
  BY AlnumIsText DEF WordSet, Filled
<1>2. WordChars \subseteq Nat
  BY AlnumIsText DEF WordChars, Cuts, Underscore, Sep
<1>3. Seq(WordChars) \subseteq Text
  BY <1>2, SeqsWithin DEF Text
<1>4. \A r \in WordChars : IsAlnum(r) <=> r \notin Cuts
  BY DEF WordChars, Cuts, IsAlnum, Alnum, Digits, Uppers, Lowers, Underscore, Sep
<1> QED
  BY <1>1, <1>2, <1>3, <1>4

\* A text is made up of its words: its letters and its folded name are.
Gap == <<Underscore>>
Worded(u) ==
  LET ws == Runs(u, Cuts)
  IN  /\ ws \in Seq(WordSet)
      /\ EndsAlnum(u) => ws # <<>>
      /\ Letters(u) = Join(CapitalOf(ws), <<>>)
      /\ Folded(u) = IF ws = <<>> \/ EndsAlnum(u) THEN Join(SmallOf(ws), Gap)
                     ELSE Append(Join(SmallOf(ws), Gap), Underscore)

\* No text, no words.
LEMMA WordedEmpty == Worded(<<>>)
<1>1. <<>> \in Text /\ Gap \in Text
  BY DEF Text, Gap, Underscore
<1>2. Runs(<<>>, Cuts) = <<>>
  <2>1. Runs(<<>>, Cuts) = Kept(RunsAt(<<>>, Cuts), Starts(<<>>, Cuts))
    BY <1>1, RunsAre
  <2>2. RunsAt(<<>>, Cuts) = <<>>
    BY DEF RunsAt
  <2>3. <<>> \in Seq(Text)
    OBVIOUS
  <2> QED
    BY <2>1, <2>2, <2>3, KeptIsSeq
<1>3. Letters(<<>>) = <<>> /\ Folded(<<>>) = <<>>
  BY LettersGrow, FoldedGrows
<1>4. CapitalOf(<<>>) = <<>> /\ SmallOf(<<>>) = <<>>
  BY WordsGrow
<1>5. Join(<<>>, <<>>) = <<>> /\ Join(<<>>, Gap) = <<>>
  BY <1>1, JoinGrows
<1>6. ~EndsAlnum(<<>>)
  BY DEF EndsAlnum
<1>7. <<>> \in Seq(WordSet)
  OBVIOUS
<1> QED
  BY <1>2, <1>3, <1>4, <1>5, <1>6, <1>7 DEF Worded

\* A boundary adds no word.
LEMMA WordedBoundary ==
  ASSUME NEW u \in Text, NEW r \in Cuts, ~IsAlnum(r), r \in Nat, Worded(u)
  PROVE  Worded(Append(u, r))
<1> DEFINE t  == Append(u, r)
           ws == Runs(u, Cuts)
           j  == Join(SmallOf(ws), Gap)
<1>1. Runs(t, Cuts) = ws
  BY WordBegins
<1>2. Letters(t) = Letters(u)
  BY LettersGrow
<1>3. Folded(t) = IF EndsAlnum(u) THEN Append(Folded(u), Underscore) ELSE Folded(u)
  BY FoldedGrows
<1>4. ~EndsAlnum(t)
  <2>1. t[Len(t)] = r
    BY DEF Text
  <2> QED
    BY <2>1 DEF EndsAlnum
<1>5. /\ ws \in Seq(WordSet) /\ (EndsAlnum(u) => ws # <<>>)
      /\ Letters(u) = Join(CapitalOf(ws), <<>>)
      /\ Folded(u) = IF ws = <<>> \/ EndsAlnum(u) THEN j ELSE Append(j, Underscore)
  BY DEF Worded
<1> HIDE DEF t, ws, j
<1>6. Folded(t) = IF ws = <<>> THEN j ELSE Append(j, Underscore)
  BY <1>3, <1>5
<1> QED
  BY <1>1, <1>2, <1>4, <1>5, <1>6 DEF Worded, t, ws, j

\* A letter behind a boundary begins a word.
LEMMA WordedBegins ==
  ASSUME NEW u \in Text, NEW r \in Alnum, r \notin Cuts, u = <<>> \/ u[Len(u)] \in Cuts,
         ~EndsAlnum(u), Worded(u)
  PROVE  Worded(Append(u, r))
<1> DEFINE t  == Append(u, r)
           ws == Runs(u, Cuts)
           w  == <<r>>
           j  == Join(SmallOf(ws), Gap)
           c  == Join(CapitalOf(ws), <<>>)
           x  == ToUpper(r)
           y  == ToLower(r)
<1>0. r \in Nat /\ IsAlnum(r) /\ x \in Nat /\ y \in Nat /\ Gap \in Text /\ <<>> \in Text
      /\ <<x>> \in Text /\ <<y>> \in Text
  <2>1. r \in Nat /\ IsAlnum(r)
    BY AlnumIsText DEF IsAlnum
  <2>2. x \in Nat /\ y \in Nat
    BY <2>1, CaseIs
  <2> HIDE DEF x, y
  <2> QED
    BY <2>1, <2>2 DEF Gap, Text, Underscore
<1>1. Runs(t, Cuts) = Append(ws, w)
  BY <1>0, WordBegins
<1>2. Letters(t) = Append(Letters(u), x)
  BY <1>0, LettersGrow
<1>3. Folded(t) = Append(Folded(u), y)
  BY <1>0, FoldedGrows
<1>4. EndsAlnum(t)
  <2>1. t[Len(t)] = r /\ t # <<>>
    BY <1>0 DEF Text
  <2> QED
    BY <1>0, <2>1 DEF EndsAlnum
<1>5. /\ ws \in Seq(WordSet) /\ Letters(u) = c
      /\ Folded(u) = IF ws = <<>> THEN j ELSE Append(j, Underscore)
  BY DEF Worded
<1>6. ws \in Seq(Filled) /\ w \in Filled /\ w \in WordSet
  <2>1. w \in WordSet
    BY DEF WordSet
  <2>2. ws \in Seq(Filled)
    BY <1>5, WordsAreTexts, SeqsWithin
  <2> QED
    BY <2>1, <2>2, WordsAreTexts
<1>7. CapitalWord(w) = <<x>> /\ SmallWord(w) = <<y>>
  BY <1>0, CapitalWordGrows, SmallWordGrows
<1>8. /\ CapitalOf(Append(ws, w)) = Append(CapitalOf(ws), <<x>>)
      /\ SmallOf(Append(ws, w)) = Append(SmallOf(ws), <<y>>)
      /\ CapitalOf(ws) \in Seq(Text) /\ Len(CapitalOf(ws)) = Len(ws)
      /\ SmallOf(ws) \in Seq(Text) /\ Len(SmallOf(ws)) = Len(ws)
  BY <1>6, <1>7, WordsGrow
<1>9. Append(ws, w) \in Seq(WordSet) /\ Append(ws, w) # <<>>
  BY <1>5, <1>6, Appended
<1> HIDE DEF t, ws, w, x, y
<1>10. CASE ws = <<>>
  <2>1. CapitalOf(ws) = <<>> /\ SmallOf(ws) = <<>>
    BY <1>10, WordsGrow
  <2>2. c = <<>> /\ j = <<>>
    BY <1>0, <2>1, JoinGrows
  <2>3. Append(<<>>, <<x>>) = << <<x>> >> /\ Append(<<>>, <<y>>) = << <<y>> >>
        /\ Append(<<>>, x) = <<x>> /\ Append(<<>>, y) = <<y>>
    OBVIOUS
  <2>4. Join(<< <<x>> >>, <<>>) = <<x>> /\ Join(<< <<y>> >>, Gap) = <<y>>
    BY <1>0, JoinGrows
  <2>5. Letters(t) = Join(CapitalOf(Append(ws, w)), <<>>)
    BY <1>2, <1>5, <1>8, <2>1, <2>2, <2>3, <2>4
  <2>6. Folded(t) = Join(SmallOf(Append(ws, w)), Gap)
    BY <1>3, <1>5, <1>8, <1>10, <2>1, <2>2, <2>3, <2>4
  <2> HIDE DEF c, j
  <2> QED
    BY <1>1, <1>4, <1>9, <2>5, <2>6 DEF Worded, t
<1>11. CASE ws # <<>>
  <2>1. CapitalOf(ws) \in Splittings /\ SmallOf(ws) \in Splittings
    <3>1. Len(ws) # 0 /\ Len(<<>>) = 0
      BY <1>5, <1>11
    <3> QED
      BY <1>8, <3>1 DEF Splittings
  <2>2. /\ Join(Append(CapitalOf(ws), <<x>>), <<>>) = c \o <<>> \o <<x>>
        /\ Join(Append(SmallOf(ws), <<y>>), Gap) = j \o Gap \o <<y>>
        /\ c \in Text /\ j \in Text
    <3> DEFINE p == CapitalOf(ws)
               q == SmallOf(ws)
               a == <<x>>
               b == <<y>>
               e == <<>>
    <3>1. p \in Splittings /\ p \in Seq(Text) /\ q \in Splittings /\ q \in Seq(Text)
      BY <1>8, <2>1
    <3>2. a \in Text /\ b \in Text /\ e \in Text /\ Gap \in Text
      BY <1>0
    <3> HIDE DEF p, q, a, b, e
    <3>3. Join(Append(p, a), e) = Join(p, e) \o e \o a /\ Join(p, e) \in Text
      BY ONLY <3>1, <3>2, JoinGrows
    <3>4. Join(Append(q, b), Gap) = Join(q, Gap) \o Gap \o b /\ Join(q, Gap) \in Text
      BY ONLY <3>1, <3>2, JoinGrows
    <3> QED
      BY <3>3, <3>4 DEF p, q, a, b, e
  <2> HIDE DEF c, j
  <2>3. c \o <<>> \o <<x>> = Append(c, x)
    BY <1>0, <2>2, Concat DEF Text
  <2>4. j \o Gap \o <<y>> = Append(Append(j, Underscore), y)
    <3>1. j \in Seq(Nat) /\ Underscore \in Nat /\ y \in Nat
      BY <1>0, <2>2 DEF Underscore, Text
    <3>2. Append(j, Underscore) = j \o <<Underscore>> /\ j \o <<Underscore>> \in Seq(Nat)
      BY <3>1, Concat
    <3>3. Append(j \o <<Underscore>>, y) = (j \o <<Underscore>>) \o <<y>>
      BY ONLY <3>1, <3>2, Concat
    <3> QED
      BY <3>2, <3>3 DEF Gap
  <2>5. Letters(t) = Join(CapitalOf(Append(ws, w)), <<>>)
    BY <1>2, <1>5, <1>8, <2>2, <2>3
  <2>6. Folded(t) = Join(SmallOf(Append(ws, w)), Gap)
    BY <1>3, <1>5, <1>8, <1>11, <2>2, <2>4
  <2> QED
    BY <1>1, <1>4, <1>9, <2>5, <2>6 DEF Worded, t
<1> QED
  BY <1>10, <1>11

\* A letter behind another makes the last word longer.
LEMMA WordedGrows ==
  ASSUME NEW u \in Text, NEW r \in Alnum, r \notin Cuts, u # <<>>, u[Len(u)] \notin Cuts,
         EndsAlnum(u), Worded(u)
  PROVE  Worded(Append(u, r))
<1> DEFINE t == Append(u, r)
           y == ToLower(r)
<1>0. r \in Nat /\ IsAlnum(r) /\ y \in Nat /\ Gap \in Text /\ <<>> \in Text
  <2>1. r \in Nat /\ IsAlnum(r)
    BY AlnumIsText DEF IsAlnum
  <2>2. y \in Nat
    BY <2>1, CaseIs
  <2> QED
    BY <2>1, <2>2 DEF Gap, Text, Underscore
<1>1. PICK ws \in Seq(Text), w \in Text :
        /\ w # <<>>
        /\ Runs(u, Cuts) = Append(ws, w)
        /\ Runs(t, Cuts) = Append(ws, Append(w, r))
  BY <1>0, WordGrows
<1>2. Letters(t) = Append(Letters(u), r)
  BY <1>0, LettersGrow
<1>3. Folded(t) = Append(Folded(u), y)
  BY <1>0, FoldedGrows
<1>4. EndsAlnum(t)
  <2>1. t[Len(t)] = r /\ t # <<>>
    BY <1>0 DEF Text
  <2> QED
    BY <1>0, <2>1 DEF EndsAlnum
<1>5. /\ Append(ws, w) \in Seq(WordSet)
      /\ Letters(u) = Join(CapitalOf(Append(ws, w)), <<>>)
      /\ Folded(u) = Join(SmallOf(Append(ws, w)), Gap)
  BY <1>1 DEF Worded
<1>6. ws \in Seq(WordSet) /\ w \in WordSet
  BY <1>5, PartsOf
<1>7. Append(w, r) \in WordSet
  <2>1. Append(w, r) \in Seq(Alnum) /\ Append(w, r) # <<>>
    BY <1>6, Appended DEF WordSet
  <2> QED
    BY <2>1 DEF WordSet
<1>8. ws \in Seq(Filled) /\ w \in Filled /\ Append(w, r) \in Filled
  <2>1. ws \in Seq(Filled)
    BY <1>6, WordsAreTexts, SeqsWithin
  <2> QED
    BY <1>6, <1>7, <2>1, WordsAreTexts
<1> HIDE DEF t, y
<1> DEFINE a == CapitalOf(ws)
           b == SmallOf(ws)
           c == CapitalWord(w)
           d == SmallWord(w)
<1>9. a \in Seq(Text) /\ b \in Seq(Text) /\ c \in Text /\ d \in Text
  <2>1. w \in Text
    OBVIOUS
  <2> QED
    BY <1>8, <2>1, WordsGrow, CapitalWordGrows, SmallWordGrows
<1>10. CapitalWord(Append(w, r)) = Append(c, r) /\ SmallWord(Append(w, r)) = Append(d, y)
  BY <1>0, <1>8, CapitalWordGrows, SmallWordGrows DEF y
<1>11. /\ CapitalOf(Append(ws, w)) = Append(a, c)
       /\ SmallOf(Append(ws, w)) = Append(b, d)
       /\ CapitalOf(Append(ws, Append(w, r))) = Append(a, Append(c, r))
       /\ SmallOf(Append(ws, Append(w, r))) = Append(b, Append(d, y))
  <2>1. /\ CapitalOf(Append(ws, w)) = Append(a, c)
        /\ SmallOf(Append(ws, w)) = Append(b, d)
    BY <1>8, WordsGrow
  <2> DEFINE v == Append(w, r)
  <2>2. v \in Filled
    BY <1>8
  <2> HIDE DEF v
  <2>3. /\ CapitalOf(Append(ws, v)) = Append(a, CapitalWord(v))
        /\ SmallOf(Append(ws, v)) = Append(b, SmallWord(v))
    BY <1>8, <2>2, WordsGrow
  <2> HIDE DEF a, b, c, d
  <2> QED
    BY <1>10, <2>1, <2>3 DEF v
<1> HIDE DEF a, b, c, d
<1>12. Join(Append(a, Append(c, r)), <<>>) = Append(Join(Append(a, c), <<>>), r)
  <2> DEFINE e == <<>>
  <2>1. e \in Text /\ a \in Seq(Text) /\ c \in Text /\ r \in Nat
    BY <1>0, <1>9
  <2> HIDE DEF e
  <2>2. Join(Append(a, Append(c, r)), e) = Append(Join(Append(a, c), e), r)
    BY ONLY <2>1, JoinLast
  <2> QED
    BY <2>2 DEF e
<1>13. Join(Append(b, Append(d, y)), Gap) = Append(Join(Append(b, d), Gap), y)
  <2>1. Gap \in Text /\ b \in Seq(Text) /\ d \in Text /\ y \in Nat
    BY <1>0, <1>9
  <2> QED
    BY ONLY <2>1, JoinLast
<1>14. Letters(t) = Join(CapitalOf(Append(ws, Append(w, r))), <<>>)
  BY <1>2, <1>5, <1>11, <1>12
<1>15. Folded(t) = Join(SmallOf(Append(ws, Append(w, r))), Gap)
  BY <1>3, <1>5, <1>11, <1>13
<1>16. Append(ws, Append(w, r)) \in Seq(WordSet) /\ Append(ws, Append(w, r)) # <<>>
  BY <1>6, <1>7, Appended
<1> QED
  BY <1>1, <1>4, <1>14, <1>15, <1>16 DEF Worded, t

\* So every text of letters, digits and boundaries is made up of its words.
LEMMA TextIsWorded ==
  ASSUME NEW v \in Seq(WordChars)
  PROVE  Worded(v)
<1> DEFINE T == {u \in Seq(WordChars) : Worded(u)}
<1>1. <<>> \in T
  BY WordedEmpty
<1>2. ASSUME NEW u \in Seq(WordChars), NEW r \in WordChars, u \in T PROVE Append(u, r) \in T
  <2>1. Append(u, r) \in Seq(WordChars) /\ u \in Text /\ r \in Nat
    BY WordsAreTexts
  <2>2. u # <<>> => u[Len(u)] \in WordChars
    <3>1. u # <<>> => Len(u) \in 1..Len(u)
      OBVIOUS
    <3> QED
      BY <3>1
  <2>3. EndsAlnum(u) <=> ~(u = <<>> \/ u[Len(u)] \in Cuts)
    BY <2>2, WordsAreTexts DEF EndsAlnum
  <2>4. r \in Alnum \/ r \in Cuts
    BY DEF WordChars
  <2>5. IsAlnum(r) <=> r \notin Cuts
    BY WordsAreTexts
  <2>6. Worded(u)
    BY <1>2
  <2>7. Worded(Append(u, r))
    <3>1. CASE r \in Cuts
      BY <2>1, <2>5, <2>6, <3>1, WordedBoundary
    <3>2. CASE r \notin Cuts /\ EndsAlnum(u)
      BY <2>1, <2>3, <2>4, <2>6, <3>2, WordedGrows
    <3>3. CASE r \notin Cuts /\ ~EndsAlnum(u)
      BY <2>1, <2>3, <2>4, <2>6, <3>3, WordedBegins
    <3> QED
      BY <3>1, <3>2, <3>3
  <2> QED
    BY <2>1, <2>7
<1>3. v \in T
  <2> HIDE DEF T
  <2> QED
    BY <1>1, <1>2, SeqInduction
<1> QED
  BY <1>3

-----------------------------------------------------------------------------
(***************************************************************************)
(* Names by their words.                                                   *)
(***************************************************************************)

\* Behind a trimmed name an underscore is trimmed too.
LEMMA TrimmedAgain ==
  ASSUME NEW j \in Text, Neat(Append(j, Underscore))
  PROVE  TrimRight(Append(j, Underscore), {Underscore}) = j
<1> DEFINE f == Append(j, Underscore)
           n == Len(j)
<1>1. /\ j \in Seq(Nat) /\ f \in Seq(Nat) /\ f \in Text /\ n \in Nat /\ Len(f) = n + 1
      /\ f[n + 1] = Underscore /\ \A i \in 1..n : f[i] = j[i]
  BY DEF Text, Underscore
<1>2. j \in Seq(NameChars)
  <2>1. Append(j, Underscore) \in Seq(NameChars) /\ Underscore \in Nat
    BY DEF Neat, Underscore
  <2> QED
    BY <1>1, <2>1, PartsOf
<1>3. j # <<>> /\ j[n] # Underscore
  <2>1. Underscore \in NameChars
    BY DEF NameChars
  <2> QED
    BY <1>2, <2>1, NeatGrows DEF Ended
<1> HIDE DEF f, n
<1>4. PICK m \in 0..Len(f) :
        /\ TrimRight(f, {Underscore}) = SubSeq(f, 1, m)
        /\ m = 0 \/ f[m] \notin {Underscore}
        /\ \A i \in m + 1..Len(f) : f[i] \in {Underscore}
  BY <1>1, TrimRightEnds
<1>5. n # 0
  BY <1>1, <1>3 DEF n
<1>6. m = n
  <2>1. m # n + 1
    BY <1>1, <1>4
  <2>2. ~(m < n)
    <3> SUFFICES ASSUME m < n PROVE FALSE
      OBVIOUS
    <3>1. n \in m + 1..Len(f) /\ n \in 1..n
      BY <1>1, <1>4, <1>5
    <3> QED
      BY <1>1, <1>3, <1>4, <3>1
  <2> QED
    BY <1>1, <1>4, <2>1, <2>2
<1>7. SubSeq(f, 1, n) = j
  <2> DEFINE a == SubSeq(f, 1, n)
  <2>1. n \in 0..Len(f)
    BY <1>1
  <2>2. a \in Seq(Nat) /\ Len(a) = n /\ \A i \in 1..n : a[i] = f[i]
    BY <1>1, <2>1, Cut
  <2> HIDE DEF a
  <2>3. Len(a) = Len(j) /\ \A i \in 1..Len(j) : a[i] = j[i]
    BY <1>1, <2>2 DEF n
  <2>4. a = j
    BY ONLY <1>1, <2>2, <2>3, SameSeq
  <2> QED
    BY <2>4 DEF a
<1> QED
  BY <1>4, <1>6, <1>7 DEF f

\* What is left of a folded name are its words.
LEMMA FoldedWords ==
  ASSUME NEW v \in Seq(WordChars), Runs(v, Cuts) # <<>>
  PROVE  TrimRight(Folded(v), {Underscore}) = Join(SmallOf(Runs(v, Cuts)), Gap)
<1> DEFINE j == Join(SmallOf(Runs(v, Cuts)), Gap)
<1>1. Folded(v) = IF EndsAlnum(v) THEN j ELSE Append(j, Underscore)
  BY TextIsWorded DEF Worded
<1>2. v \in Text
  BY WordsAreTexts
<1>3. Neat(Folded(v)) /\ (EndsAlnum(v) <=> Ended(Folded(v)))
  BY <1>2, FoldedIsNeat
<1>4. j \in Text
  <2>1. Runs(v, Cuts) \in Seq(WordSet)
    BY TextIsWorded DEF Worded
  <2>2. Runs(v, Cuts) \in Seq(Filled)
    BY <2>1, WordsAreTexts, SeqsWithin
  <2>3. SmallOf(Runs(v, Cuts)) \in Seq(Text) /\ Gap \in Text
    BY <2>2, WordsGrow DEF Gap, Text, Underscore
  <2> QED
    BY <2>3, JoinGrows
<1> HIDE DEF j
<1>5. CASE EndsAlnum(v)
  <2>1. TrimRight(Folded(v), {Underscore}) = Folded(v)
    BY <1>3, <1>5, TrimmedIsNeat
  <2> QED
    BY <1>1, <1>5, <2>1 DEF j
<1>6. CASE ~EndsAlnum(v)
  <2>1. Neat(Append(j, Underscore)) /\ Folded(v) = Append(j, Underscore)
    BY <1>1, <1>3, <1>6
  <2> QED
    BY <1>4, <2>1, TrimmedAgain DEF j
<1> QED
  BY <1>5, <1>6

\* The words of a name, with capitals and in small letters, begin as its first word
\* does, and stay digits or letters.
LEMMA WordsBegin ==
  ASSUME NEW ws \in Seq(WordSet), ws # <<>>, NEW sep \in Text
  PROVE  /\ Join(SmallOf(ws), sep) # <<>> /\ Join(CapitalOf(ws), sep) # <<>>
         /\ IsDigit(Join(SmallOf(ws), sep)[1]) <=> IsDigit(ws[1][1])
         /\ IsDigit(Join(CapitalOf(ws), sep)[1]) <=> IsDigit(ws[1][1])
<1> DEFINE w == ws[1]
           x == w[1]
           a == SmallOf(ws)
           b == CapitalOf(ws)
<1>1. Len(ws) \in Nat \ {0} /\ 1 \in 1..Len(ws) /\ 1 \in DOMAIN ws /\ DOMAIN ws = 1..Len(ws)
  OBVIOUS
<1>2. \A k \in 1..Len(ws) : ws[k] \in Filled /\ ws[k] \in Seq(Alnum) /\ ws[k] # <<>>
  <2>1. \A k \in 1..Len(ws) : ws[k] \in WordSet
    OBVIOUS
  <2> QED
    BY <2>1, WordsAreTexts DEF WordSet
<1>3. x \in Alnum /\ x \in Nat /\ Len(w) \in Nat \ {0} /\ 1 \in DOMAIN w
  <2>1. w \in Seq(Alnum) /\ w # <<>>
    BY <1>1, <1>2
  <2> HIDE DEF w
  <2>2. Len(w) \in Nat \ {0} /\ 1 \in DOMAIN w /\ w[1] \in Alnum
    BY <2>1
  <2> QED
    BY <2>2, AlnumIsText
<1>4. ws \in Seq(Filled)
  BY WordsAreTexts, SeqsWithin
<1>5. a \in Seq(Text) /\ Len(a) = Len(ws) /\ b \in Seq(Text) /\ Len(b) = Len(ws)
  BY <1>4, WordsGrow
<1>6. ASSUME NEW k \in 1..Len(ws) PROVE a[k] # <<>> /\ b[k] # <<>> /\ a[k] \in Text /\ b[k] \in Text
  <2>1. a[k] = SmallWord(ws[k]) /\ b[k] = CapitalWord(ws[k])
    BY <1>1 DEF SmallOf, CapitalOf
  <2> DEFINE u == ws[k]
  <2>2. u \in Seq(Nat) /\ u # <<>> /\ u \in Filled
    BY <1>2 DEF Filled, Text
  <2> HIDE DEF u
  <2>3. 1 \in DOMAIN u /\ u[1] \in Nat /\ Tail(u) \in Seq(Nat)
    BY <2>2, Tailed
  <2>4. SmallWord(u) # <<>>
    <3>1. 1 \in DOMAIN SmallWord(u)
      BY <2>3 DEF SmallWord
    <3>2. 1 \notin DOMAIN <<>>
      OBVIOUS
    <3> QED
      BY <3>1, <3>2
  <2>5. CapitalWord(u) # <<>>
    <3> DEFINE h == <<ToUpper(u[1])>>
               d == Tail(u)
    <3>1. ToUpper(u[1]) \in Nat
      BY <2>3, CaseIs
    <3>2. h \in Seq(Nat) /\ Len(h) = 1 /\ d \in Seq(Nat) /\ Len(d) \in Nat
      BY <2>3, <3>1
    <3> HIDE DEF h, d
    <3>3. h \o d \in Seq(Nat) /\ Len(h \o d) = Len(h) + Len(d)
      BY ONLY <3>2, Concatenated
    <3>4. Len(h \o d) # 0
      BY <3>2, <3>3
    <3>5. h \o d # <<>>
      BY <3>4
    <3> QED
      BY <3>5 DEF CapitalWord, h, d
  <2>6. a[k] \in Text /\ b[k] \in Text
    BY <1>5
  <2> QED
    BY <2>1, <2>4, <2>5, <2>6 DEF u
<1>7. a[1] = SmallWord(w) /\ b[1] = CapitalWord(w)
  BY <1>1 DEF SmallOf, CapitalOf
<1>8. SmallWord(w)[1] = ToLower(x) /\ CapitalWord(w)[1] = ToUpper(x)
  <2>1. SmallWord(w)[1] = ToLower(x)
    BY <1>3 DEF SmallWord
  <2>2. Tail(w) \in Seq(Nat) /\ ToUpper(x) \in Nat
    <3>1. w \in Seq(Nat) /\ w # <<>>
      BY <1>1, <1>2 DEF Filled, Text
    <3> QED
      BY <1>3, <3>1, Tailed, CaseIs
  <2>3. (<<ToUpper(x)>> \o Tail(w))[1] = ToUpper(x)
    BY <2>2
  <2> QED
    BY <2>1, <2>3 DEF CapitalWord
<1> HIDE DEF a, b
<1>9. a \in Seq(Filled) /\ b \in Seq(Filled) /\ a # <<>> /\ b # <<>>
  <2>1. \A k \in 1..Len(ws) : a[k] \in Filled /\ b[k] \in Filled
    BY <1>6 DEF Filled
  <2>2. a \in Seq(Filled) /\ b \in Seq(Filled)
    BY <1>5, <2>1
  <2> QED
    BY <1>1, <1>5, <2>2
<1>10. /\ Join(a, sep) # <<>> /\ Join(a, sep)[1] = a[1][1]
       /\ Join(b, sep) # <<>> /\ Join(b, sep)[1] = b[1][1]
  BY <1>9, JoinFirst
<1> HIDE DEF w, x
<1>11. (IsDigit(ToLower(x)) <=> IsDigit(x)) /\ (IsDigit(ToUpper(x)) <=> IsDigit(x))
  BY <1>3 DEF IsDigit, ToLower, ToUpper, Alnum, Digits, Uppers, Lowers
<1> QED
  BY <1>7, <1>8, <1>10, <1>11 DEF a, b, w, x

\* Brackets do not matter.
LEMMA Regrouped ==
  ASSUME NEW S, NEW a, a \in Seq(S), NEW b, b \in Seq(S), NEW c, c \in Seq(S)
  PROVE  (a \o b) \o c = a \o (b \o c)
OBVIOUS

\* Nor do they in texts.
LEMMA RegroupedTexts == \A f, g, h \in Seq(Nat) : (f \o g) \o h = f \o (g \o h)
BY ONLY Regrouped

\* A text without its underscores.
NoUnder(s) == Kept(s, {i \in DOMAIN s : s[i] # Underscore})
Clean(s)   == s \in Text /\ \A i \in 1..Len(s) : s[i] # Underscore

\* NoUnder from left to right: a character stays unless it is an underscore.
LEMMA NoUnderGrows ==
  /\ NoUnder(<<>>) = <<>>
  /\ \A s \in Text : NoUnder(s) \in Text
  /\ \A s \in Text, r \in Nat :
       NoUnder(Append(s, r)) = IF r # Underscore THEN Append(NoUnder(s), r) ELSE NoUnder(s)
<1> DEFINE keep(s) == {i \in DOMAIN s : s[i] # Underscore}
<1>1. \A s : NoUnder(s) = Kept(s, keep(s))
  BY DEF NoUnder
<1>2. <<>> \in Seq(Nat)
  OBVIOUS
<1>3. ASSUME NEW s \in Text PROVE NoUnder(s) \in Text
  <2> HIDE DEF keep
  <2>1. s \in Seq(Nat)
    BY DEF Text
  <2>2. Kept(s, keep(s)) \in Seq(Nat)
    BY <2>1, KeptIsSeq
  <2> QED
    BY <1>1, <2>2 DEF Text
<1>4. ASSUME NEW s \in Text, NEW r \in Nat
      PROVE  NoUnder(Append(s, r)) = IF r # Underscore THEN Append(NoUnder(s), r) ELSE NoUnder(s)
  <2> DEFINE t == Append(s, r)
             n == Len(s)
             A == keep(s)
             B == keep(t)
  <2>1. /\ s \in Seq(Nat) /\ n \in Nat /\ DOMAIN t = 1..n + 1 /\ t[n + 1] = r
        /\ DOMAIN s = 1..n /\ \A i \in 1..n : t[i] = s[i]
    BY DEF Text
  <2> HIDE DEF t
  <2>2. (\A k \in 1..Len(s) : k \in B <=> k \in A) /\ (Len(s) + 1 \in B <=> r # Underscore)
    BY <2>1
  <2> HIDE DEF A, B, n
  <2>3. /\ Len(s) + 1 \in B => Kept(Append(s, r), B) = Append(Kept(s, A), r)
        /\ Len(s) + 1 \notin B => Kept(Append(s, r), B) = Kept(s, A)
    <3>1. s \in Seq(Nat) /\ r \in Nat
      BY <2>1
    <3> QED
      BY ONLY <3>1, <2>2, KeptGrows
  <2> HIDE DEF keep
  <2> QED
    BY <1>1, <2>2, <2>3 DEF A, B, t
<1>5. NoUnder(<<>>) = <<>>
  <2> HIDE DEF keep
  <2> QED
    BY <1>1, <1>2, KeptIsSeq
<1> QED
  BY <1>3, <1>4, <1>5

\* Clean texts stay,
LEMMA NoUnderClean ==
  ASSUME NEW a \in Text, NEW s, Clean(s)
  PROVE  NoUnder(a \o s) = NoUnder(a) \o s
<1> DEFINE C == Nat \ {Underscore}
           na == NoUnder(a)
           T == {x \in Seq(C) : NoUnder(a \o x) = na \o x}
<1>0. a \in Seq(Nat) /\ na \in Seq(Nat) /\ C \subseteq Nat
  BY NoUnderGrows DEF Text
<1> HIDE DEF na
<1>1. <<>> \in T
  BY <1>0 DEF na
<1>2. ASSUME NEW x \in Seq(C), NEW r \in C, x \in T PROVE Append(x, r) \in T
  <2>1. Append(x, r) \in Seq(C) /\ r \in Nat /\ r # Underscore
    OBVIOUS
  <2>2. x \in Seq(Nat)
    BY <1>0, SeqsWithin
  <2>3. a \o x \in Text
    BY <1>0, <2>2, Concatenated DEF Text
  <2>4. a \o Append(x, r) = Append(a \o x, r)
    BY <1>0, <2>1, <2>2, Concat
  <2>5. na \o Append(x, r) = Append(na \o x, r)
    BY <1>0, <2>1, <2>2, Concat
  <2>6. NoUnder(Append(a \o x, r)) = Append(NoUnder(a \o x), r)
    BY <2>1, <2>3, NoUnderGrows
  <2>7. NoUnder(a \o x) = na \o x
    BY <1>2
  <2> QED
    BY <2>1, <2>4, <2>5, <2>6, <2>7
<1>3. s \in Seq(C)
  <2>1. s \in Seq(Nat) /\ \A i \in 1..Len(s) : s[i] # Underscore
    BY DEF Clean, Text
  <2> QED
    BY <2>1
<1>4. s \in T
  <2> HIDE DEF T, C
  <2> QED
    BY <1>1, <1>2, <1>3, SeqInduction
<1> QED
  BY <1>4 DEF na

\* so words with underscores between become words with nothing between.
LEMMA NoUnderJoin ==
  ASSUME NEW a \in Text, NEW ws, ws \in Seq({s \in Text : Clean(s)})
  PROVE  NoUnder(a \o Join(ws, Gap)) = NoUnder(a) \o Join(ws, <<>>)
<1> DEFINE W == {s \in Text : Clean(s)}
           na == NoUnder(a)
           T == {x \in Seq(W) : NoUnder(a \o Join(x, Gap)) = na \o Join(x, <<>>)}
<1>0. /\ a \in Seq(Nat) /\ na \in Seq(Nat) /\ na \in Text /\ W \subseteq Text
      /\ Gap \in Text /\ Gap \in Seq(Nat) /\ <<>> \in Text /\ 0 \in Nat /\ Underscore \in Nat
  BY NoUnderGrows DEF Text, Gap, Underscore
<1>1. <<>> \in T
  <2>1. Join(<<>>, Gap) = <<>> /\ Join(<<>>, <<>>) = <<>>
    BY <1>0, JoinGrows
  <2>2. a \o <<>> = a /\ na \o <<>> = na
    BY <1>0
  <2>3. NoUnder(a \o Join(<<>>, Gap)) = na \o Join(<<>>, <<>>)
    BY <2>1, <2>2
  <2> HIDE DEF na, W
  <2>4. <<>> \in Seq(W)
    OBVIOUS
  <2> QED
    BY <2>3, <2>4
<1>2. ASSUME NEW x \in Seq(W), NEW w \in W, x \in T PROVE Append(x, w) \in T
  <2> DEFINE p == Join(x, Gap)
             q == Join(x, <<>>)
             t == Append(x, w)
  <2>0. t \in Seq(W) /\ w \in Text /\ w \in Seq(Nat) /\ Clean(w) /\ x \in Seq(Text)
    <3>1. x \in Seq(Text)
      <4> HIDE DEF W
      <4> QED
        BY <1>0, SeqsWithin
    <3> QED
      BY <3>1 DEF Text
  <2>1. NoUnder(a \o p) = na \o q
    BY <1>2
  <2>2. p \in Text /\ p \in Seq(Nat) /\ q \in Text /\ q \in Seq(Nat)
    BY <1>0, <2>0, JoinGrows DEF Text
  <2>3. CASE x = <<>>
    <3>1. Append(<<>>, w) = <<w>> /\ Join(<<w>>, Gap) = w /\ Join(<<w>>, <<>>) = w
      BY <1>0, <2>0, JoinGrows
    <3>2. NoUnder(a \o w) = na \o w
      BY <2>0, NoUnderClean DEF na
    <3>3. NoUnder(a \o Join(t, Gap)) = na \o Join(t, <<>>)
      BY <2>3, <3>1, <3>2
    <3> QED
      BY <2>0, <3>3
  <2>4. CASE x # <<>>
    <3>1. x \in Splittings
      BY <2>0, <2>4 DEF Splittings
    <3>2. Join(t, Gap) = p \o Gap \o w /\ Join(t, <<>>) = q \o <<>> \o w
      <4> DEFINE e == <<>>
      <4>1. Gap \in Text /\ e \in Text /\ x \in Splittings /\ w \in Text
        BY <1>0, <2>0, <3>1
      <4> HIDE DEF e
      <4>2. Join(Append(x, w), Gap) = Join(x, Gap) \o Gap \o w
        BY ONLY <4>1, JoinGrows
      <4>3. Join(Append(x, w), e) = Join(x, e) \o e \o w
        BY ONLY <4>1, JoinGrows
      <4> QED
        BY <4>2, <4>3 DEF e
    <3> HIDE DEF p, q, W, t, na
    <3>3. q \o <<>> = q
      BY <2>2
    <3> DEFINE b == a \o p
               c == b \o Gap
    <3>4. b \in Seq(Nat) /\ c \in Seq(Nat)
      BY <1>0, <2>2, Concatenated
    <3>5. a \o (p \o Gap \o w) = c \o w
      <4> DEFINE d == p \o Gap
      <4>1. d \in Seq(Nat)
        BY <1>0, <2>2, Concatenated
      <4> HIDE DEF d, b, c
      <4>2. b \o Gap = a \o d
        <5>1. (a \o p) \o Gap = a \o (p \o Gap)
          <6>1. a \in Seq(Nat) /\ p \in Seq(Nat) /\ Gap \in Seq(Nat)
            BY <1>0, <2>2
          <6> QED
            BY ONLY <6>1, RegroupedTexts, Zenon
        <5> QED
          BY ONLY <5>1 DEF b, d
      <4>3. (a \o d) \o w = a \o (d \o w)
        <5>1. a \in Seq(Nat) /\ d \in Seq(Nat) /\ w \in Seq(Nat)
          BY <1>0, <2>0, <4>1
        <5> QED
          BY ONLY <5>1, RegroupedTexts, Zenon
      <4> QED
        BY <4>2, <4>3 DEF c, d
    <3>6. c = Append(b, Underscore)
      BY <1>0, <3>4, Concat DEF Gap
    <3>7. NoUnder(c) = NoUnder(b)
      <4>1. b \in Text
        BY <3>4 DEF Text
      <4> HIDE DEF b, c
      <4> QED
        BY <1>0, <3>6, <4>1, NoUnderGrows
    <3>8. NoUnder(c \o w) = NoUnder(c) \o w
      <4>1. c \in Text
        BY <3>4 DEF Text
      <4> HIDE DEF c
      <4> QED
        BY <2>0, <4>1, NoUnderClean
    <3>9. (na \o q) \o w = na \o (q \o w)
      <4>1. na \in Seq(Nat) /\ q \in Seq(Nat) /\ w \in Seq(Nat)
        BY <1>0, <2>0, <2>2
      <4> QED
        BY ONLY <4>1, RegroupedTexts, Zenon
    <3>10. NoUnder(a \o Join(t, Gap)) = na \o Join(t, <<>>)
      BY <2>1, <3>2, <3>3, <3>5, <3>7, <3>8, <3>9 DEF b
    <3> QED
      BY <2>0, <3>10 DEF t
  <2> QED
    BY <2>3, <2>4
<1>3. ws \in T
  <2>1. ws \in Seq(W)
    OBVIOUS
  <2> HIDE DEF T, W
  <2> QED
    BY <1>1, <1>2, <2>1, SeqInduction
<1> QED
  BY <1>3 DEF na

\* Any other character than a separator makes the last segment longer.
LEMMA GrownLast ==
  ASSUME NEW init \in Seq(Text), NEW last \in Text, NEW ch \in Nat, ch # Sep
  PROVE  Grown(Append(init, last), ch) = Append(init, Append(last, ch))
<1> DEFINE segs == Append(init, last)
           n == Len(init)
           w == Append(last, ch)
           a == [segs EXCEPT ![n + 1] = w]
           b == Append(init, w)
<1>1. n \in Nat /\ segs \in Seq(Text) /\ Len(segs) = n + 1 /\ segs[n + 1] = last
      /\ \A i \in 1..n : segs[i] = init[i]
  OBVIOUS
<1>2. w \in Text
  BY DEF Text
<1> HIDE DEF segs, n
<1>3. Grown(segs, ch) = a
  BY <1>1 DEF Grown
<1> HIDE DEF w
<1>4. a \in Seq(Text) /\ Len(a) = n + 1 /\ a[n + 1] = w /\ \A i \in 1..n : a[i] = segs[i]
  BY <1>1, <1>2
<1>5. b \in Seq(Text) /\ Len(b) = n + 1 /\ b[n + 1] = w /\ \A i \in 1..n : b[i] = init[i]
  BY <1>2, Appended DEF n
<1> HIDE DEF a, b
<1>6. ASSUME NEW i \in 1..Len(b) PROVE a[i] = b[i]
  <2>1. i = n + 1 \/ i \in 1..n
    BY <1>1, <1>5
  <2> QED
    BY <1>1, <1>4, <1>5, <2>1
<1>7. a = b
  BY <1>4, <1>5, <1>6, SameSeq
<1> QED
  BY <1>3, <1>7 DEF segs, w, b

\* The letters of a text are those of its segments.
LEMMA LettersOfSegments ==
  ASSUME NEW v \in Text
  PROVE  Join(LettersEach(Segments(v)), <<>>) = Letters(v)
<1> DEFINE Same(u) == \E init \in Seq(Text), last \in Text :
                        /\ Segments(u) = Append(init, last)
                        /\ EndsAlnum(last) <=> EndsAlnum(u)
                        /\ Join(LettersEach(Segments(u)), <<>>) = Letters(u)
           T == {u \in Seq(Nat) : Same(u)}
<1>0. <<>> \in Text /\ <<>> \in Seq(Text) /\ Sep \in Nat /\ ~IsAlnum(Sep)
  BY DEF Text, Sep, IsAlnum, Alnum, Digits, Uppers, Lowers
<1>1. <<>> \in T
  <2>1. Segments(<<>>) = Append(<<>>, <<>>)
    BY SegmentsGrow
  <2>2. LettersEach(Append(<<>>, <<>>)) = Append(LettersEach(<<>>), Letters(<<>>))
    BY <1>0, WordsGrow
  <2>3. LettersEach(<<>>) = <<>> /\ Letters(<<>>) = <<>>
    BY WordsGrow, LettersGrow
  <2>4. Append(<<>>, <<>>) = << <<>> >>
    OBVIOUS
  <2>5. Join(<< <<>> >>, <<>>) = <<>>
    BY <1>0, JoinGrows
  <2>6. Join(LettersEach(Segments(<<>>)), <<>>) = Letters(<<>>)
    BY <2>1, <2>2, <2>3, <2>4, <2>5
  <2>7. Same(<<>>)
    BY <1>0, <2>1, <2>6
  <2> HIDE DEF Same
  <2> QED
    BY <2>7
<1>2. ASSUME NEW u \in Seq(Nat), NEW r \in Nat, u \in T PROVE Append(u, r) \in T
  <2> DEFINE t == Append(u, r)
  <2>1. PICK init \in Seq(Text), last \in Text :
          /\ Segments(u) = Append(init, last)
          /\ EndsAlnum(last) <=> EndsAlnum(u)
          /\ Join(LettersEach(Segments(u)), <<>>) = Letters(u)
    BY <1>2
  <2>2. u \in Text /\ t \in Seq(Nat) /\ t[Len(t)] = r /\ t # <<>>
    <3>1. u \in Text
      BY DEF Text
    <3>2. t \in Seq(Nat) /\ t # <<>> /\ Len(t) = Len(u) + 1 /\ t[Len(u) + 1] = r
      BY Appended
    <3> QED
      BY <3>1, <3>2
  <2>3. EndsAlnum(t) <=> IsAlnum(r)
    BY <2>2 DEF EndsAlnum
  <2> HIDE DEF t
  <2>4. Segments(t) = Grown(Segments(u), r)
    BY <2>2, SegmentsGrow DEF t
  <2> DEFINE segs == Append(init, last)
             e == LettersEach(init)
  <2>5. segs \in Seq(Text) /\ segs # <<>> /\ e \in Seq(Text)
    <3>1. segs \in Seq(Text) /\ segs # <<>>
      BY Appended
    <3>2. e \in Seq(Text)
      BY WordsGrow
    <3> QED
      BY <3>1, <3>2
  <2>6. LettersEach(segs) = Append(e, Letters(last)) /\ Letters(last) \in Text /\ Letters(u) \in Text
    BY <2>2, WordsGrow, LettersAre, AlnumIsText
  <2>7. CASE r = Sep
    <3>1. Segments(t) = Append(segs, <<>>)
      BY <2>1, <2>4, <2>7 DEF Grown
    <3>2. LettersEach(Append(segs, <<>>)) = Append(LettersEach(segs), <<>>)
      <4>1. LettersEach(Append(segs, <<>>)) = Append(LettersEach(segs), Letters(<<>>))
        BY <1>0, <2>5, WordsGrow
      <4>2. Letters(<<>>) = <<>>
        BY LettersGrow
      <4> QED
        BY <4>1, <4>2
    <3> DEFINE b == LettersEach(segs)
    <3>3. b \in Splittings /\ b \in Seq(Text)
      <4>1. b \in Seq(Text) /\ b # <<>>
        BY <2>5, <2>6, Appended
      <4> QED
        BY <4>1 DEF Splittings
    <3>4. Join(b, <<>>) = Letters(u)
      BY <2>1
    <3> HIDE DEF b, segs
    <3>5. Join(Append(b, <<>>), <<>>) = Join(b, <<>>) \o <<>> \o <<>>
      BY <1>0, <3>3, JoinGrows
    <3>6. Letters(u) \o <<>> \o <<>> = Letters(u)
      <4>1. Letters(u) \in Seq(Nat)
        BY <2>6 DEF Text
      <4> QED
        BY <4>1
    <3>7. Letters(t) = Letters(u)
      BY <1>0, <2>2, <2>7, LettersGrow DEF t
    <3>8. Join(LettersEach(Segments(t)), <<>>) = Letters(t)
      BY <3>1, <3>2, <3>4, <3>5, <3>6, <3>7 DEF b
    <3>9. ~EndsAlnum(<<>>) /\ ~EndsAlnum(t)
      BY <1>0, <2>3, <2>7 DEF EndsAlnum
    <3>10. Same(t)
      BY <1>0, <2>5, <3>1, <3>8, <3>9
    <3> HIDE DEF Same
    <3> QED
      BY <2>2, <3>10 DEF t
  <2>8. CASE r # Sep
    <3> DEFINE w == Append(last, r)
               y == IF EndsAlnum(u) THEN r ELSE ToUpper(r)
               a == Letters(last)
    <3>0. w \in Text /\ y \in Nat /\ w[Len(w)] = r /\ w # <<>>
      <4>1. y \in Nat
        BY CaseIs
      <4>2. last \in Seq(Nat)
        BY DEF Text
      <4>3. w \in Seq(Nat) /\ w # <<>> /\ Len(w) = Len(last) + 1 /\ w[Len(last) + 1] = r
        <5>1. r \in Nat
          OBVIOUS
        <5>2. w \in Seq(Nat)
          BY ONLY <4>2, <5>1
        <5>3. Len(w) = Len(last) + 1 /\ w[Len(last) + 1] = r
          BY ONLY <4>2, <5>1
        <5>4. w # <<>>
          <6>1. Len(last) \in Nat
            BY ONLY <4>2
          <6>2. Len(w) # 0
            BY ONLY <5>3, <6>1
          <6> HIDE DEF w
          <6> QED
            BY <6>2
        <5> QED
          BY <5>2, <5>3, <5>4
      <4> QED
        BY <4>1, <4>3 DEF Text
    <3>1. Segments(t) = Append(init, w)
      <4>1. init \in Seq(Text) /\ last \in Text /\ r \in Nat /\ r # Sep
        BY <2>8
      <4>2. Grown(segs, r) = Append(init, w)
        BY ONLY <4>1, GrownLast DEF segs, w
      <4> QED
        BY <2>1, <2>4, <4>2
    <3>2. LettersEach(Append(init, w)) = Append(e, Letters(w))
      BY <3>0, WordsGrow
    <3>3. Letters(w) = IF IsAlnum(r) THEN Append(a, y) ELSE a
      BY <2>1, LettersGrow
    <3>4. Letters(t) = IF IsAlnum(r) THEN Append(Letters(u), y) ELSE Letters(u)
      BY <2>2, LettersGrow DEF t
    <3>5. Join(Append(e, a), <<>>) = Letters(u)
      BY <2>1, <2>6
    <3>6. EndsAlnum(w) <=> EndsAlnum(t)
      BY <2>3, <3>0 DEF EndsAlnum
    <3> HIDE DEF w, y, a, e, segs
    <3>7. Join(Append(e, Append(a, y)), <<>>) = Append(Join(Append(e, a), <<>>), y)
      <4> DEFINE sep == <<>>
      <4>1. sep \in Text /\ e \in Seq(Text) /\ a \in Text /\ y \in Nat
        BY <1>0, <2>5, <2>6, <3>0 DEF a
      <4> HIDE DEF sep
      <4>2. Join(Append(e, Append(a, y)), sep) = Append(Join(Append(e, a), sep), y)
        BY ONLY <4>1, JoinLast
      <4> QED
        BY <4>2 DEF sep
    <3>8. Join(LettersEach(Segments(t)), <<>>) = Letters(t)
      BY <3>1, <3>2, <3>3, <3>4, <3>5, <3>7
    <3>9. Same(t)
      BY <3>0, <3>1, <3>6, <3>8
    <3> HIDE DEF Same
    <3> QED
      BY <2>2, <3>9 DEF t
  <2> QED
    BY <2>7, <2>8
<1>3. v \in T
  <2>1. v \in Seq(Nat)
    BY DEF Text
  <2> HIDE DEF T
  <2> QED
    BY <1>1, <1>2, <2>1, SeqInduction
<1> QED
  BY <1>3

\* A text that begins with a letter or digit is named after it.
LEMMA LettersFirst ==
  ASSUME NEW v \in Text, v # <<>>, IsAlnum(v[1])
  PROVE  Letters(v) # <<>> /\ Letters(v)[1] = ToUpper(v[1])
<1> DEFINE Begins(u) == u # <<>> /\ IsAlnum(u[1]) =>
                          Letters(u) # <<>> /\ Letters(u)[1] = ToUpper(u[1])
           T == {u \in Seq(Nat) : Begins(u)}
<1>1. <<>> \in T
  OBVIOUS
<1>2. ASSUME NEW u \in Seq(Nat), NEW r \in Nat, u \in T PROVE Append(u, r) \in T
  <2> DEFINE t == Append(u, r)
             l == Letters(u)
             y == IF EndsAlnum(u) THEN r ELSE ToUpper(r)
  <2>1. t \in Seq(Nat) /\ u \in Text /\ t[1] = IF u = <<>> THEN r ELSE u[1]
    BY DEF Text
  <2>2. Letters(t) = IF IsAlnum(r) THEN Append(l, y) ELSE l
    BY <2>1, LettersGrow
  <2>3. l \in Seq(Nat) /\ y \in Nat
    BY <2>1, LettersAre, AlnumIsText, CaseIs DEF Text
  <2>4. u = <<>> => l = <<>> /\ ~EndsAlnum(u)
    BY LettersGrow DEF EndsAlnum
  <2>5. u # <<>> /\ IsAlnum(u[1]) => l # <<>> /\ l[1] = ToUpper(u[1])
    BY <1>2
  <2>6. u = <<>> => y = ToUpper(r)
    BY <2>4
  <2> HIDE DEF t, l, y
  <2>7. Append(l, y) # <<>> /\ Append(l, y)[1] = IF l = <<>> THEN y ELSE l[1]
    BY <2>3, Appended
  <2>8. Begins(t)
    BY <2>1, <2>2, <2>4, <2>5, <2>6, <2>7
  <2> HIDE DEF Begins
  <2> QED
    BY <2>1, <2>8 DEF t
<1>3. v \in T
  <2>1. v \in Seq(Nat)
    BY DEF Text
  <2> HIDE DEF T
  <2> QED
    BY <1>1, <1>2, <2>1, SeqInduction
<1> QED
  BY <1>3

\* Where every segment begins with a letter, the name of a path is that of its text.
LEMMA PathIsText ==
  ASSUME NEW v \in Text,
         \A s \in Range(Segments(v)) : s # <<>> /\ s[1] \in Uppers \cup Lowers
  PROVE  JoinExport(Segments(v)) = ExportName[v]
<1> DEFINE segs == Segments(v)
           e == LettersEach(segs)
           n == Len(segs)
<1>1. segs \in Seq(Text) /\ segs # <<>>
  BY SegmentsGrow DEF Splittings
<1>2. ASSUME NEW s \in Text, s # <<>>, s[1] \in Uppers \cup Lowers
      PROVE  Letters(s) # <<>> /\ Letters(s)[1] \in Uppers /\ ~IsDigit(Letters(s)[1])
             /\ ExportName[s] = Letters(s)
  <2>1. s[1] \in Nat /\ IsAlnum(s[1])
    BY <1>2, AlnumIsText DEF IsAlnum, Alnum
  <2>2. Letters(s) # <<>> /\ Letters(s)[1] = ToUpper(s[1])
    BY <1>2, <2>1, LettersFirst
  <2>3. ToUpper(s[1]) \in Uppers
    BY <1>2, <2>1, CaseIs
  <2>4. ~IsDigit(Letters(s)[1])
    <3>1. \A r \in Uppers : r \notin Digits
      BY DEF Digits, Uppers
    <3> QED
      BY <2>2, <2>3, <3>1 DEF IsDigit
  <2> QED
    BY <2>2, <2>3, <2>4, ExportIs
<1>3. n \in Nat \ {0} /\ DOMAIN segs = 1..n /\ 1 \in 1..n
  BY <1>1
<1>4. \A k \in 1..n : segs[k] \in Text /\ segs[k] # <<>> /\ segs[k][1] \in Uppers \cup Lowers
  <2> SUFFICES ASSUME NEW k \in 1..n
               PROVE  segs[k] \in Text /\ segs[k] # <<>> /\ segs[k][1] \in Uppers \cup Lowers
    OBVIOUS
  <2>1. segs[k] \in Range(segs)
    BY <1>3 DEF Range
  <2> QED
    BY <1>1, <2>1
<1> HIDE DEF segs, n
<1>5. e = [k \in 1..n |-> ExportName[segs[k]]]
  <2>1. \A k \in 1..n : Letters(segs[k]) = ExportName[segs[k]]
    BY <1>2, <1>4
  <2> QED
    BY <1>3, <2>1 DEF LettersEach
<1>6. e \in Seq(Text) /\ Len(e) = n /\ \A k \in 1..n : e[k] = Letters(segs[k])
  <2>1. e \in Seq(Text) /\ Len(e) = n
    BY <1>1, WordsGrow DEF n
  <2> QED
    BY <1>3, <2>1 DEF LettersEach
<1>7. JoinExport(segs) = FlattenSeq(e)
  BY <1>1, <1>5 DEF JoinExport, n
<1> HIDE DEF e
<1>8. FlattenSeq(e) = Letters(v)
  BY <1>6, JoinFlattens, LettersOfSegments DEF e, segs
<1>9. Letters(v) # <<>> /\ ~IsDigit(Letters(v)[1])
  <2>1. e \in Seq(Filled) /\ e # <<>>
    <3>1. \A k \in 1..n : e[k] \in Filled
      BY <1>2, <1>4, <1>6 DEF Filled
    <3> QED
      BY <1>3, <1>6, <3>1
  <2>2. <<>> \in Text
    BY DEF Text
  <2>3. Join(e, <<>>) # <<>> /\ Join(e, <<>>)[1] = e[1][1]
    BY <2>1, <2>2, JoinFirst
  <2>4. Join(e, <<>>) = Letters(v)
    BY LettersOfSegments DEF e, segs
  <2>5. ~IsDigit(e[1][1])
    BY <1>2, <1>3, <1>4, <1>6
  <2> QED
    BY <2>3, <2>4, <2>5
<1>10. ExportName[v] = Letters(v)
  BY <1>9, ExportIs
<1> QED
  BY <1>7, <1>8, <1>10 DEF segs

\* A text that does not hold a D has no suffix to lose.
LEMMA NoSuffix ==
  ASSUME NEW v \in Text, \A i \in 1..Len(v) : v[i] # 68
  PROVE  TrimSuffix(v, AreaText) = v
<1>1. ~IsSuffix(AreaText, v)
  <2> SUFFICES ASSUME IsSuffix(AreaText, v) PROVE FALSE
    OBVIOUS
  <2>1. AreaText \in Seq(Nat) /\ v \in Seq(Nat) /\ Len(AreaText) = 8 /\ AreaText[6] = 68
    BY DEF AreaText, Text
  <2>2. Len(AreaText) <= Len(v) /\ \A i \in 1..Len(AreaText) :
          v[(Len(v) - Len(AreaText)) + i] = AreaText[i]
    <3>1. AreaText \in Seq(Nat) /\ v \in Seq(Nat) /\ IsSuffix(AreaText, v)
      BY <2>1
    <3> QED
      BY ONLY <3>1, SuffixIs
  <2> DEFINE k == (Len(v) - Len(AreaText)) + 6
  <2>3. k \in 1..Len(v) /\ v[k] = 68
    BY <2>1, <2>2
  <2> QED
    BY <2>3
<1> QED
  BY <1>1 DEF TrimSuffix

-----------------------------------------------------------------------------
(***************************************************************************)
(* The theorems.                                                           *)
(***************************************************************************)

\* The texts that are built are texts, and none is longer than its bound.
Built ==
  /\ kind \in DOMAIN Chars
  /\ path \in Text /\ Len(path) <= MaxLen[kind]
  /\ target \in Text /\ Len(target) <= MaxLen[kind]

\* Each character is one.
LEMMA CharsAreCodes == \A k \in DOMAIN Chars : Chars[k] \subseteq Nat
BY DEF Chars, Sep, Underscore, Amp, Lt, CR, LF

\* Whatever characters are added.
LEMMA BuiltAlways == Spec => []Built
<1>1. Init => Built
  <2>1. <<>> \in Text /\ Len(<<>>) = 0
    BY DEF Text
  <2> QED
    BY <2>1, MaxLenAssumption DEF Init, Built
<1>2. Built /\ [Next]_vars => Built'
  <2> SUFFICES ASSUME Built, [Next]_vars PROVE Built'
    OBVIOUS
  <2>1. MaxLen[kind] \in Nat /\ Chars[kind] \subseteq Nat
    BY MaxLenAssumption, CharsAreCodes DEF Built
  <2>2. ASSUME NEW u \in Text, NEW ch \in Chars[kind], Len(u) < MaxLen[kind]
        PROVE  Append(u, ch) \in Text /\ Len(Append(u, ch)) <= MaxLen[kind]
    BY <2>1, <2>2 DEF Text
  <2>3. CASE ExtendPath
    BY <2>2, <2>3 DEF ExtendPath, Built
  <2>4. CASE ExtendTarget
    BY <2>2, <2>4 DEF ExtendTarget, Built
  <2>5. CASE UNCHANGED vars
    BY <2>5 DEF vars, Built
  <2> QED
    BY <2>3, <2>4, <2>5 DEF Next
<1> QED
  BY <1>1, <1>2, PTL DEF Spec

\* The tests of List and Delete speak of whole segments, for URIs of any length: the
\* tree's prefix tests on strings never take a sibling with a longer name for a child,
\* nor miss a descendant (clienttest.go:60, 100).
THEOREM TestsAreBySegments == Spec => []BeneathIsSegmentPrefix
<1>1. Built => BeneathIsSegmentPrefix
  BY TestsBySegments DEF Built, BeneathIsSegmentPrefix
<1> QED
  BY <1>1, BuiltAlways, PTL

\* List cuts the next segment out of a path, whole and alone (clienttest.go:63-66).
THEOREM ChildrenAreSegments == Spec => []ChildIsNextSegment
<1>1. ASSUME NEW p \in Text, NEW t \in Text, Beneath(p, t)
      PROVE  ChildName(p, t) = Segments(p)[Len(Segments(t)) + 1]
  <2>1. PICK r \in Text : p = t \o Slash \o r
    BY <1>1, BeneathIsConcat
  <2>2. Segments(p) = Segments(t) \o Segments(r)
    BY <2>1, SegmentsConcat DEF Slash
  <2>3. Segments(t) \in Splittings /\ Segments(r) \in Splittings
    BY SegmentsGrow
  <2>4. (Segments(t) \o Segments(r))[Len(Segments(t)) + 1] = Segments(r)[1]
    BY <2>3 DEF Splittings
  <2> QED
    BY <2>1, <2>2, <2>4, FirstSegment
<1>2. Built => ChildIsNextSegment
  BY <1>1 DEF Built, ChildIsNextSegment
<1> QED
  BY <1>2, BuiltAlways, PTL

\* Two spellings of a URI name one node exactly when they differ in trailing separators
\* only (norm, clienttest.go:119).
THEOREM KeysAreCanonical == Spec => []NormIsCanonical
<1>1. ASSUME Built PROVE NormIsCanonical
  <2> DEFINE Differ(n) ==
               \E short \in {path, target}, long \in {path, target}, k \in 0..n :
                 /\ {short, long} = {path, target}
                 /\ long = short \o Seps(k)
  <2>1. path \in Text /\ target \in Text /\ Len(path) \in Nat /\ Len(target) \in Nat
    BY <1>1 DEF Built, Text
  <2>2. MaxLen[kind] \in Nat /\ Len(path) <= MaxLen[kind] /\ Len(target) <= MaxLen[kind]
    BY <1>1, MaxLenAssumption DEF Built
  <2>3. ASSUME Norm(path) = Norm(target) PROVE Differ(MaxLen[kind])
    <3>1. ASSUME NEW u \in {path, target}, NEW v \in {path, target}, {u, v} = {path, target},
                 Len(u) <= Len(v)
          PROVE  Differ(MaxLen[kind])
      <4>1. v = u \o Seps(Len(v) - Len(u))
        BY <2>1, <2>3, <3>1, NormTells
      <4>2. Len(v) - Len(u) \in 0..MaxLen[kind]
        BY <2>1, <2>2, <3>1
      <4> QED
        BY <3>1, <4>1, <4>2
    <3>2. Len(path) <= Len(target) \/ Len(target) <= Len(path)
      BY <2>1
    <3> QED
      BY <3>1, <3>2
  <2>4. ASSUME Differ(MaxLen[kind]) PROVE Norm(path) = Norm(target)
    <3>1. PICK short \in {path, target}, long \in {path, target}, k \in 0..MaxLen[kind] :
            {short, long} = {path, target} /\ long = short \o Seps(k)
      BY <2>4
    <3>2. Norm(long) = Norm(short)
      BY <2>1, <2>2, <3>1, NormIgnoresSeps
    <3> QED
      BY <3>1, <3>2
  <2> QED
    BY <2>1, <2>3, <2>4, NormTwice DEF NormIsCanonical, Seps
<1> QED
  BY <1>1, BuiltAlways, PTL

\* Text that is escaped into a document (syncml.go:96) is read as the same text, with
\* XML's line ends, whatever its characters are and however many.
THEOREM EscapedIsRead == Spec => []EscapedTextReadsBack
<1>1. Built => EscapedTextReadsBack
  BY EscapedIsText DEF Built, EscapedTextReadsBack
<1> QED
  BY <1>1, BuiltAlways, PTL

\* Whatever a DDF file calls a node, its parameter is a Go identifier that is not taken
\* (naming.go:105), and naming a name again changes nothing, be it a parameter's, an
\* exported one (naming.go:53) or a package's (naming.go:14).
THEOREM NamesStay == Spec => []NamesAreStable
<1>1. ASSUME NEW s \in Text PROVE ExportName[ExportName[s]] = ExportName[s]
  <2>1. Plainly(ExportName[s]) /\ ExportName[s][1] \in Uppers
    BY ExportNameIs
  <2> QED
    BY <2>1, ExportOfName
<1>2. ASSUME NEW s \in Text PROVE PackageName(PackageName(s)) = PackageName(s)
  BY PackageNameIs, PackageOfPackage
<1>3. ASSUME NEW p, Param(p) PROVE p[1] \in Lowers /\ Range(p) \subseteq Alnum
  BY <1>3 DEF Param, Plainly, Range
<1>4. Built => NamesAreStable
  BY <1>1, <1>2, <1>3, ParamNameIs DEF Built, NamesAreStable
<1> QED
  BY <1>4, BuiltAlways, PTL


\* The characters of a text are those of its kind.
LEMMA OfItsKind == Spec => [](kind \in DOMAIN Chars /\ path \in Seq(Chars[kind]))
<1>1. Init => kind \in DOMAIN Chars /\ path \in Seq(Chars[kind])
  BY DEF Init
<1>2. /\ kind \in DOMAIN Chars /\ path \in Seq(Chars[kind])
      /\ [Next]_vars
      => (kind \in DOMAIN Chars /\ path \in Seq(Chars[kind]))'
  <2> SUFFICES ASSUME kind \in DOMAIN Chars, path \in Seq(Chars[kind]), [Next]_vars
               PROVE  kind' \in DOMAIN Chars /\ path' \in Seq(Chars[kind'])
    OBVIOUS
  <2> DEFINE C == Chars[kind]
  <2>1. CASE ExtendPath
    <3>1. kind' = kind /\ \E ch \in C : path' = Append(path, ch)
      BY <2>1 DEF ExtendPath
    <3> HIDE DEF C
    <3>2. \A ch \in C : Append(path, ch) \in Seq(C)
      BY DEF C
    <3> QED
      BY <3>1, <3>2 DEF C
  <2>2. CASE ExtendTarget
    BY <2>2 DEF ExtendTarget
  <2>3. CASE UNCHANGED vars
    BY <2>3 DEF vars
  <2> QED
    BY <2>1, <2>2, <2>3 DEF Next
<1> QED
  BY <1>1, <1>2, PTL DEF Spec

\* What a getter returns goes out again and comes back as the same value
\* (functions.tmpl:5-19, build.go:329-352), for texts of any length and integers of any
\* width; a text that is no value is an error and gives none.  The constant of an allowed
\* value (build.go:540) is sent and comes back as itself, and the allowed value's text
\* is understood as the same number, as an error, or, with a leading zero, as octal by
\* the generator alone.
THEOREM ValuesComeBack == Spec => []TypedValuesRoundTrip
<1>1. ASSUME kind = "value", kind \in DOMAIN Chars, path \in Seq(Chars[kind])
      PROVE  TypedValuesRoundTrip
  <2>1. Flat(path)
    <3>1. path \in Seq(Chars["value"]) /\ Chars["value"] = {45, 43, 48, 49, 56, 120, 116, 95}
      BY <1>1 DEF Chars, Underscore
    <3>2. \A i \in 1..Len(path) : path[i] \in Chars["value"]
      BY <3>1
    <3>3. path \in Seq(Nat)
      <4> DEFINE C == Chars["value"]
      <4>1. C \subseteq Nat
        BY CharsAreCodes DEF Chars
      <4> HIDE DEF C
      <4> QED
        BY <3>1, <4>1, SeqsWithin DEF C
    <3>4. \A i \in 1..Len(path) : path[i] # 13 /\ path[i] # 10
      BY <3>1, <3>2
    <3> QED
      BY <3>3, <3>4 DEF Flat, Text, CR, LF
  <2>2. ASSUME NEW f \in Formats
        PROVE  IF Got(f, path).err = "nil"
               THEN Got(f, Resent(f, Got(f, path).result[1])) = Got(f, path)
               ELSE Got(f, path).result = <<>> /\ GoType(f) # "string"
    <3>1. GoType(f) \in {"int64", "bool", "string"}
      BY DEF Formats, GoType
    <3>2. Got(f, path).err # "nil" => Got(f, path).result = <<>>
      BY GotIs
    <3>3. GoType(f) = "string" => Got(f, path).err = "nil"
      BY <2>1, StringsComeBack
    <3>4. Got(f, path).err = "nil" => Got(f, Resent(f, Got(f, path).result[1])) = Got(f, path)
      BY <2>1, <3>1, IntsComeBack, BoolsComeBack, StringsComeBack
    <3> QED
      BY <3>2, <3>3, <3>4
  <2>3. ASSUME NEW n \in Range(DecodeInt([data |-> path]))
        PROVE  NumberOf(Unsigned(path), 10) \in {n, -n}
    <3>1. n \in Range(ParseInt(path, 10))
      BY <2>3 DEF DecodeInt
    <3>2. n = Read(path)
      BY <3>1, ParseIs DEF Range
    <3>3. Unsigned(path) \in Text
      BY <2>1 DEF Flat, Unsigned, Signed, Text
    <3>4. NumberOf(Unsigned(path), 10) \in Nat
      BY <3>3, NumberGrows
    <3> QED
      BY <3>2, <3>4 DEF Read
  <2>4. ASSUME NEW n \in Range(ParseInt(path, 0))
        PROVE  /\ DecodeInt(IntValue(n)) = <<n>>
               /\ \A k \in Range(DecodeInt([data |-> path])) :
                    \/ k = n
                    \/ /\ Unsigned(path)[1] = 48
                       /\ n \in {NumberOf(Tail(Unsigned(path)), 8), -NumberOf(Tail(Unsigned(path)), 8)}
    <3>1. n \in Ints
      BY <2>4, ParseZeroIs
    <3>2. DecodeInt(IntValue(n)) = <<n>>
      BY <3>1, FormatIsRead DEF DecodeInt, IntValue
    <3>3. DecodeInt([data |-> path]) = ParseInt(path, 10)
      BY DEF DecodeInt
    <3>4. Unsigned(path) \in Text
      BY <2>1 DEF Flat, Unsigned, Signed, Text
    <3> QED
      BY <2>4, <3>2, <3>3, <3>4, ReadingsAgree
  <2> QED
    BY <2>2, <2>3, <2>4 DEF TypedValuesRoundTrip, Got, Resent, Unsigned, Signed
<1>2. kind \in DOMAIN Chars /\ path \in Seq(Chars[kind]) => TypedValuesRoundTrip
  <2>1. kind # "value" => TypedValuesRoundTrip
    BY DEF TypedValuesRoundTrip
  <2> QED
    BY <1>1, <2>1
<1> QED
  BY <1>2, OfItsKind, PTL

\* A text of letters, digits and boundaries is named by its words and by nothing else:
\* as a package, an import alias, an exported name (naming.go:14, 46, 53), and as a path
\* of segments that begin with a letter (naming.go:79), whatever its length.
THEOREM NamesByWords == Spec => []NamesAreTheirWords
<1>1. ASSUME kind = "name", path \in Seq(Chars["name"])
      PROVE  NamesAreTheirWords
  <2> SUFFICES ASSUME Words # <<>>
               PROVE  LET plain == \A s \in Range(Segments(path)) :
                                     s # <<>> /\ s[1] \in Uppers \cup Lowers
                          csp == IF IsDigit(Words[1][1]) THEN CspText ELSE <<>>
                          nn  == IF IsDigit(Words[1][1]) THEN <<78>> ELSE <<>>
                      IN  /\ PackageName(path) = csp \o Join(Small, Gap)
                          /\ ImportAlias(<<>>, PackageName(path)) = csp \o Join(Small, <<>>)
                          /\ ExportName[path] = nn \o Join(Capital, <<>>)
                          /\ plain => JoinExport(Segments(path)) = ExportName[path]
    BY DEF NamesAreTheirWords, Gap
  <2> DEFINE ws    == Words
             digit == IsDigit(ws[1][1])
             j     == Join(Small, Gap)
             a     == Join(Small, <<>>)
             c     == Join(Capital, <<>>)
             csp   == IF digit THEN CspText ELSE <<>>
             pkg   == PackageName(path)
  <2>1. path \in Seq(WordChars) /\ path \in Text /\ \A i \in 1..Len(path) : path[i] # 68
    <3>1. Chars["name"] = {97, 98, 65, 49, Underscore, Sep}
      BY DEF Chars
    <3>2. Chars["name"] \subseteq WordChars /\ 68 \notin Chars["name"]
      BY <3>1 DEF WordChars, Cuts, Alnum, Digits, Uppers, Lowers, Underscore, Sep
    <3>3. path \in Seq(WordChars)
      BY <1>1, <3>2, SeqsWithin
    <3>4. \A i \in 1..Len(path) : path[i] \in Chars["name"]
      BY <1>1
    <3> QED
      BY <3>2, <3>3, <3>4, WordsAreTexts
  <2>2. ws = Runs(path, Cuts) /\ ws # <<>>
    BY DEF Words, Cuts
  <2>3. ws \in Seq(WordSet) /\ Letters(path) = Join(CapitalOf(ws), <<>>)
    BY <2>1, <2>2, TextIsWorded DEF Worded
  <2>4. Small = SmallOf(ws) /\ Capital = CapitalOf(ws)
    BY DEF Small, Capital, SmallOf, CapitalOf, SmallWord, CapitalWord
  <2>5. Gap \in Text /\ <<>> \in Text
    BY DEF Gap, Text, Underscore
  <2>6. j # <<>> /\ (IsDigit(j[1]) <=> digit)
    BY <2>2, <2>3, <2>4, <2>5, WordsBegin
  <2>7. c # <<>> /\ (IsDigit(c[1]) <=> digit) /\ Letters(path) = c
    BY <2>2, <2>3, <2>4, <2>5, WordsBegin
  <2>8. TrimRight(Folded(TrimSuffix(path, AreaText)), {Underscore}) = j
    <3>1. TrimSuffix(path, AreaText) = path
      BY <2>1, NoSuffix
    <3>2. TrimRight(Folded(path), {Underscore}) = Join(SmallOf(Runs(path, Cuts)), Gap)
      BY <2>1, <2>2, FoldedWords
    <3> QED
      BY <2>2, <2>4, <3>1, <3>2
  <2>9. SmallOf(ws) \in Seq({s \in Text : Clean(s)}) /\ j \in Text /\ c \in Text
    <3>1. ws \in Seq(Filled)
      BY <2>3, WordsAreTexts, SeqsWithin
    <3>2. /\ SmallOf(ws) \in Seq(Text) /\ Len(SmallOf(ws)) = Len(ws)
          /\ CapitalOf(ws) \in Seq(Text)
      BY <3>1, WordsGrow
    <3>3. ASSUME NEW k \in 1..Len(ws) PROVE Clean(SmallOf(ws)[k])
      <4> DEFINE w == ws[k]
      <4>1. w \in Seq(Alnum)
        BY <2>3 DEF WordSet
      <4>2. SmallOf(ws)[k] = SmallWord(w)
        BY <2>3 DEF SmallOf
      <4>3. SmallOf(ws)[k] \in Text
        BY <3>2
      <4> HIDE DEF w
      <4>4. ASSUME NEW i \in 1..Len(w) PROVE ToLower(w[i]) # Underscore
        <5> DEFINE x == w[i]
        <5>1. x \in Alnum
          BY ONLY <4>1, i \in 1..Len(w)
        <5> HIDE DEF x
        <5>2. x \in Nat /\ IsAlnum(x)
          BY <5>1, AlnumIsText DEF IsAlnum
        <5>3. ToLower(x) \in Lowers \cup Digits
          BY <5>2, CaseIs
        <5>4. Underscore \notin Lowers \cup Digits
          BY DEF Lowers, Digits, Underscore
        <5> QED
          BY <5>3, <5>4 DEF x
      <4>5. Len(SmallWord(w)) = Len(w) /\ \A i \in 1..Len(w) : SmallWord(w)[i] = ToLower(w[i])
        BY <4>1 DEF SmallWord
      <4> QED
        BY <4>2, <4>3, <4>4, <4>5 DEF Clean
    <3> DEFINE b == SmallOf(ws)
               C == {s \in Text : Clean(s)}
    <3>4. b \in Seq(C)
      <4>1. b \in Seq(Text) /\ Len(b) = Len(ws)
        BY <3>2
      <4>2. \A k \in 1..Len(b) : b[k] \in Text /\ Clean(b[k])
        BY <3>3, <4>1
      <4> HIDE DEF b
      <4>3. \A k \in 1..Len(b) : b[k] \in C
        BY <4>2
      <4> HIDE DEF C
      <4> QED
        BY <4>1, <4>3
    <3> QED
      BY <2>4, <2>5, <3>2, <3>4, JoinGrows
  <2>10. csp \in Text /\ csp \in Seq(Nat) /\ Clean(csp)
    BY DEF CspText, Text, Clean, Underscore
  <2>11. pkg = csp \o j
    <3>1. pkg = CASE j = <<>> -> CspText
                  [] j # <<>> /\ IsDigit(j[1]) -> CspText \o j
                  [] OTHER -> j
      BY <2>8 DEF PackageName
    <3>2. j \in Seq(Nat) /\ <<>> \o j = j
      BY <2>9 DEF Text
    <3> QED
      BY <2>6, <3>1, <3>2
  <2>12. ImportAlias(<<>>, pkg) = csp \o a
    <3> HIDE DEF csp, j, a, pkg, ws
    <3>1. ImportAlias(<<>>, pkg) = <<>> \o NoUnder(pkg)
      BY DEF ImportAlias, NoUnder
    <3>2. NoUnder(csp \o j) = NoUnder(csp) \o a
      BY <2>4, <2>9, <2>10, NoUnderJoin DEF j, a
    <3>3. NoUnder(csp) = csp
      <4>1. NoUnder(<<>> \o csp) = NoUnder(<<>>) \o csp
        BY <2>5, <2>10, NoUnderClean
      <4>2. <<>> \o csp = csp /\ NoUnder(<<>>) = <<>>
        BY <2>10, NoUnderGrows
      <4> QED
        BY <4>1, <4>2
    <3>4. pkg \in Text
      BY <2>9, <2>10, <2>11, Concatenated DEF Text
    <3>5. <<>> \o NoUnder(pkg) = NoUnder(pkg)
      <4>1. NoUnder(pkg) \in Seq(Nat)
        BY <3>4, NoUnderGrows DEF Text
      <4> QED
        BY <4>1
    <3> QED
      BY <2>11, <3>1, <3>2, <3>3, <3>5
  <2>13. ExportName[path] = (IF digit THEN <<78>> ELSE <<>>) \o c
    <3>1. c \in Seq(Nat) /\ <<>> \o c = c
      BY <2>9 DEF Text
    <3> QED
      BY <2>1, <2>7, <3>1, ExportIs
  <2>14. (\A s \in Range(Segments(path)) : s # <<>> /\ s[1] \in Uppers \cup Lowers)
           => JoinExport(Segments(path)) = ExportName[path]
    BY <2>1, PathIsText
  <2> QED
    BY <2>11, <2>12, <2>13, <2>14
<1>2. kind \in DOMAIN Chars /\ path \in Seq(Chars[kind]) => NamesAreTheirWords
  <2>1. kind # "name" => NamesAreTheirWords
    BY DEF NamesAreTheirWords
  <2> QED
    BY <1>1, <2>1
<1> QED
  BY <1>2, OfItsKind, PTL
=============================================================================
