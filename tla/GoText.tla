------------------------------- MODULE GoText -------------------------------
(***************************************************************************)
(* Text as Go's strings: a sequence of character codes.  Below 128 a code  *)
(* is the character's ASCII byte, so that the order of codes is the order  *)
(* of strings.  The operators are those of strings, strconv and unicode    *)
(* that the repository's code calls.  What other definitions build on is a *)
(* function on texts where TLC would evaluate an operator's argument over  *)
(* and over.                                                               *)
(***************************************************************************)
EXTENDS Naturals, Sequences, SequencesExt, FiniteSetsExt

Text == Seq(Nat)

Digits     == 48..57
Uppers     == 65..90
Lowers     == 97..122
Alnum      == Digits \cup Uppers \cup Lowers
Spaces     == (9..13) \cup {32}
Space      == 32
Sep        == 47        \* the path separator "/"
Underscore == 95

\* unicode.ToLower and ToUpper, on ASCII.
ToLower(r) == IF r \in Uppers THEN r + 32 ELSE r
ToUpper(r) == IF r \in Lowers THEN r - 32 ELSE r

\* strings.TrimRight: every trailing character of the set is cut.
TrimRight(s, cut) == SubSeq(s, 1, Max({0} \cup {i \in 1..Len(s) : s[i] \notin cut}))

\* strings.TrimSpace.
TrimSpace(s) ==
  LET t == TrimRight(s, Spaces)
  IN  SubSeq(t, Min({Len(t) + 1} \cup {i \in 1..Len(t) : t[i] \notin Spaces}), Len(t))

\* strings.TrimSuffix: the suffix is cut once.
TrimSuffix(s, suffix) ==
  IF IsSuffix(suffix, s) THEN SubSeq(s, 1, Len(s) - Len(suffix)) ELSE s

\* strconv.Itoa, on naturals.
Itoa[n \in Nat] ==
  IF n < 10 THEN <<48 + n>> ELSE Append(Itoa[n \div 10], 48 + (n % 10))

\* Go's order on strings, which sort.Strings sorts by.
StringLess(a, b) ==
  \E k \in 0..Len(a) :
    /\ k < Len(b)
    /\ SubSeq(a, 1, k) = SubSeq(b, 1, k)
    /\ k < Len(a) => a[k + 1] < b[k + 1]

\* The elements of s at the positions of a set, in order.
Kept(s, at) ==
  LET upto[k \in 0..Len(s)] ==
        IF k = 0 THEN <<>>
        ELSE IF k \in at THEN Append(upto[k - 1], s[k]) ELSE upto[k - 1]
  IN  upto[Len(s)]

\* The maximal runs of characters of s that are none of the set, in order:
\* strings.FieldsFunc.
Runs(s, cut) ==
  LET Run(i) == SubSeq(s, i, Min({Len(s)} \cup {j \in i..Len(s) - 1 : s[j + 1] \in cut}))
      starts == {i \in 1..Len(s) : s[i] \notin cut /\ (i = 1 \/ s[i - 1] \in cut)}
  IN  Kept([i \in 1..Len(s) |-> Run(i)], starts)

\* strings.Join.
Join(words, sep) ==
  LET text[k \in 0..Len(words)] ==
        IF k = 0 THEN <<>>
        ELSE IF k = 1 THEN words[1]
        ELSE text[k - 1] \o sep \o words[k]
  IN  text[Len(words)]

=============================================================================
