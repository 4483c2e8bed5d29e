------------------------------ MODULE XmlText ------------------------------
(***************************************************************************)
(* Text in a SyncML document: escape, and what an XML reader (external)    *)
(* gives back for the text of an element.                                  *)
(***************************************************************************)
EXTENDS GoText

Amp == 38
Lt  == 60
CR  == 13
LF  == 10

\* The four characters that are written as entities.
Entities ==
  [r \in {38, 60, 62, 34} |->
     CASE r = 38 -> <<38, 97, 109, 112, 59>>               \* &amp;
       [] r = 60 -> <<38, 108, 116, 59>>                   \* &lt;
       [] r = 62 -> <<38, 103, 116, 59>>                   \* &gt;
       [] r = 34 -> <<38, 113, 117, 111, 116, 59>>]        \* &quot;

Replaced(s, r) ==
  FlattenSeq([i \in 1..Len(s) |-> IF s[i] = r THEN Entities[r] ELSE <<s[i]>>])

\* One replacement after another, the ampersand not first.
EscapeInTurn(s) == Replaced(Replaced(Replaced(Replaced(s, 60), 38), 62), 34)

\* strings.NewReplacer: each character of the text is looked at once.
Escape(s) ==
  FlattenSeq([i \in 1..Len(s) |->
                IF s[i] \in DOMAIN Entities THEN Entities[s[i]] ELSE <<s[i]>>])

-----------------------------------------------------------------------------

\* XML's end-of-line handling: CR LF and CR alone are read as LF.
LineEnds(s) ==
  Kept([i \in 1..Len(s) |-> IF s[i] = CR THEN LF ELSE s[i]],
       {i \in 1..Len(s) : ~(s[i] = LF /\ i > 1 /\ s[i - 1] = CR)})

\* The text of an element: nothing when it is not well-formed.
ReadText(raw) ==
  LET s         == LineEnds(raw)
      At(i, e)  == IsPrefix(Entities[e], SubSeq(s, i, Len(s)))
      Named(i)  == {e \in DOMAIN Entities : At(i, e)}
      amps      == {i \in 1..Len(s) : s[i] = Amp}
      outside   == {j \in 1..Len(s) :
                      ~\E i \in amps : \E e \in Named(i) : j \in i + 1..i + Len(Entities[e]) - 1}
      meant     == [i \in 1..Len(s) |-> IF s[i] = Amp THEN CHOOSE e \in Named(i) : TRUE ELSE s[i]]
  IN  IF Lt \in Range(s) \/ \E i \in amps : Named(i) = {} THEN <<>>
      ELSE <<Kept(meant, outside)>>

=============================================================================
