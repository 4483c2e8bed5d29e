------------------------------- MODULE Naming -------------------------------
(***************************************************************************)
(* Package naming: how the names of snapshots, nodes and values become Go  *)
(* identifiers.                                                            *)
(***************************************************************************)
EXTENDS GoText

CONSTANT Reserved   \* the parameter names that are keywords or taken

NameText  == <<78, 97, 109, 101>>         \* "Name"
ValueText == <<86, 97, 108, 117, 101>>    \* "Value"
RootText  == <<82, 111, 111, 116>>        \* "Root"
CspText   == <<99, 115, 112>>             \* "csp"
AreaText  == <<95, 65, 114, 101, 97, 68, 68, 70>>   \* "_AreaDDF"

\* The name a reserved one is replaced by is not reserved itself.
ASSUME ReservedAssumption ==
  Reserved \subseteq Seq(Nat) /\ \A w \in Reserved : w \o NameText \notin Reserved

IsAlnum(r) == r \in Alnum
IsDigit(r) == r \in Digits

\* Every character that is neither a letter nor a digit is an underscore.
FoldedEach(s) == [i \in 1..Len(s) |-> IF IsAlnum(s[i]) THEN ToLower(s[i]) ELSE Underscore]

\* Letters in lower case, every run of other characters one underscore.
Folded(s) ==
  Kept(FoldedEach(s), {i \in 1..Len(s) : IsAlnum(s[i]) \/ (i > 1 /\ IsAlnum(s[i - 1]))})

PackageName(snapshotBase) ==
  LET out == TrimRight(Folded(TrimSuffix(snapshotBase, AreaText)), {Underscore})
  IN  CASE out = <<>>                    -> CspText
        [] out # <<>> /\ IsDigit(out[1]) -> CspText \o out
        [] OTHER                         -> out

ImportAlias(family, pkg) == family \o Kept(pkg, {i \in DOMAIN pkg : pkg[i] # Underscore})

\* The letter that follows a boundary becomes a capital, the boundary is
\* dropped; "X" for no letters at all, "N" before a digit.
ExportName[s \in Text] ==
  LET capped == [i \in 1..Len(s) |->
                   IF i = 1 \/ ~IsAlnum(s[i - 1]) THEN ToUpper(s[i]) ELSE s[i]]
      out    == Kept(capped, {i \in 1..Len(s) : IsAlnum(s[i])})
  IN  CASE out = <<>>                    -> <<88>>
        [] out # <<>> /\ IsDigit(out[1]) -> <<78>> \o out
        [] OTHER                         -> out

JoinExport(segs) ==
  IF segs = <<>> THEN RootText
  ELSE FlattenSeq([k \in 1..Len(segs) |-> ExportName[segs[k]]])

\* The leading capitals become small, but for the last of several when it
\* starts the next word.
Uncapped[exp \in Text] ==
  LET run == Min({Len(exp)} \cup {i \in 0..Len(exp) - 1 : exp[i + 1] \notin Uppers})
      i   == IF run > 1 /\ run < Len(exp) THEN run - 1 ELSE run
  IN  [j \in 1..i |-> ToLower(exp[j])] \o SubSeq(exp, i + 1, Len(exp))

\* The reserved names looked up before the name is in small letters.
ParamNameLate(s) ==
  LET exp == ExportName[s]
  IN  Uncapped[IF exp \in Reserved THEN exp \o NameText ELSE exp]

ParamName(s) ==
  LET out == Uncapped[ExportName[s]]
  IN  IF out \in Reserved THEN out \o NameText ELSE out

\* A description up to the first of . ; : ( which does not count as its first
\* character.
FirstSentence[d \in Text] ==
  LET Stop(i) == d[i] \in {46, 59, 58, 40}
      first   == {i \in 2..Len(d) : Stop(i) /\ \A j \in 1..i - 1 : ~Stop(j)}
  IN  IF first = {} THEN d ELSE SubSeq(d, 1, (CHOOSE i \in first : TRUE) - 1)

\* At most ConstWords words of it.
ConstWords == 6
FirstWords[d \in Text] ==
  LET words == Runs(d, Spaces)
  IN  IF Len(words) > ConstWords THEN SubSeq(words, 1, ConstWords) ELSE words

\* The words of a description as a name, else the value.
ConstName(description, value) ==
  LET name == ExportName[Join(FirstWords[FirstSentence[TrimSpace(description)]], <<Space>>)]
  IN  IF name = <<88>> THEN ExportName[ValueText \o <<Space>> \o value] ELSE name

=============================================================================
