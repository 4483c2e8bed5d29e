------------------------------- MODULE OmaUri -------------------------------
(***************************************************************************)
(* OMA-URIs as the in-memory CSP tree treats them: plain strings, compared *)
(* by prefix.                                                              *)
(***************************************************************************)
EXTENDS GoText

\* Only one trailing separator cut, as strings.TrimSuffix does.
NormOne(uri) ==
  IF uri # <<>> /\ uri[Len(uri)] = Sep THEN SubSeq(uri, 1, Len(uri) - 1) ELSE uri

\* strings.TrimRight(uri, "/"): every trailing separator is cut.
Norm(uri) == SubSeq(uri, 1, Max({0} \cup {i \in 1..Len(uri) : uri[i] # Sep}))

\* A string prefix test without the separator, which "ab" passes for "a".
BeneathPlainPrefix(path, target) == IsStrictPrefix(target, path)

\* strings.HasPrefix(path, target + "/"): path lies strictly below target.
Beneath(path, target) == IsPrefix(target \o <<Sep>>, path)

\* The test of Delete's loop: the target itself or a path below it.
Inside(path, target) == path = target \/ Beneath(path, target)

\* The name after the prefix, without the cut at the next separator.
ChildNameUncut(path, target) == SubSeq(path, Len(target) + 2, Len(path))

\* List's body for one path below target: the prefix is trimmed and the rest
\* is cut at its first separator.
ChildName(path, target) ==
  LET rest == SubSeq(path, Len(target) + 2, Len(path))
      cuts == {i \in 1..Len(rest) : rest[i] = Sep}
  IN  IF cuts = {} THEN rest ELSE SubSeq(rest, 1, Min(cuts) - 1)

\* sort.Strings of the keys of a set-like map: the only increasing sequence of
\* all the names.
SortStrings(names) ==
  CHOOSE s \in [1..Cardinality(names) -> names] :
    \A i, j \in 1..Cardinality(names) : i < j => StringLess(s[i], s[j])

-----------------------------------------------------------------------------
(***************************************************************************)
(* The reference reading of a URI: the sequence of its segments.           *)
(***************************************************************************)

\* strings.Split(uri, "/"): a separator ends a segment, any other character extends
\* the last one.
Segments(uri) ==
  LET split[i \in 0..Len(uri)] ==
        IF i = 0 THEN << <<>> >>
        ELSE LET segs == split[i - 1]
             IN  IF uri[i] = Sep THEN Append(segs, <<>>)
                 ELSE [segs EXCEPT ![Len(segs)] = Append(@, uri[i])]
  IN  split[Len(uri)]

=============================================================================
