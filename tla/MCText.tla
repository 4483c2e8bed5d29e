------------------------------- MODULE MCText -------------------------------
(***************************************************************************)
(* Every short text over an alphabet of each kind, built character by      *)
(* character, and for URIs every pair: what the repository's code makes of *)
(* a text, against a second definition of the same thing.                  *)
(***************************************************************************)
EXTENDS OmaUri, Naming, Service, XmlText

CONSTANT MaxLen   \* bound: characters of a text of each kind

VARIABLES kind, path, target

vars == <<kind, path, target>>

MCReserved == {<<97>>, <<98, 97>>}    \* "a" and "ba"
MCMaxLen   == [uri |-> 4, name |-> 5, xml |-> 5, value |-> 4]

\* "/" a b; a b A 1 _ /; & < " a m p ; CR LF; - + 0 1 8 x t _.
Chars == [uri   |-> {Sep, 97, 98},
          name  |-> {97, 98, 65, 49, Underscore, Sep},
          xml   |-> {Amp, Lt, 34, 97, 109, 112, 59, CR, LF},
          value |-> {45, 43, 48, 49, 56, 120, 116, Underscore}]

ASSUME MaxLenAssumption == \A k \in DOMAIN Chars : MaxLen[k] \in Nat

Init == kind \in DOMAIN Chars /\ path = <<>> /\ target = <<>>

ExtendPath ==
  /\ Len(path) < MaxLen[kind]
  /\ \E ch \in Chars[kind] : path' = Append(path, ch)
  /\ UNCHANGED <<kind, target>>

ExtendTarget ==
  /\ kind = "uri"
  /\ Len(target) < MaxLen[kind]
  /\ \E ch \in Chars[kind] : target' = Append(target, ch)
  /\ UNCHANGED <<kind, path>>

Next == ExtendPath \/ ExtendTarget

Spec == Init /\ [][Next]_vars

-----------------------------------------------------------------------------

\* The prefix tests of List and Delete (clienttest.go:60, 100) say exactly that the
\* segments of the path extend those of the target: no sibling with a longer name
\* passes, no descendant is missed.
BeneathIsSegmentPrefix ==
  kind = "uri" =>
    /\ Beneath(path, target) <=> IsStrictPrefix(Segments(target), Segments(path))
    /\ Inside(path, target) <=> IsPrefix(Segments(target), Segments(path))

\* What List cuts out of a path below its target (clienttest.go:63-66) is the next
\* segment of the path, whole and alone.
ChildIsNextSegment ==
  kind = "uri" /\ Beneath(path, target) =>
    ChildName(path, target) = Segments(path)[Len(Segments(target)) + 1]

\* Two spellings of a URI address the same node exactly when they differ only in
\* trailing separators (norm, clienttest.go:119), and the tree's keys are fixpoints.
NormIsCanonical ==
  kind = "uri" =>
    /\ Norm(Norm(path)) = Norm(path)
    /\ Norm(path) = Norm(target) <=>
         \E short \in {path, target}, long \in {path, target}, k \in 0..MaxLen[kind] :
           /\ {short, long} = {path, target}
           /\ long = short \o [i \in 1..k |-> Sep]

\* The words of a text, in small letters, and with a capital first.
Words   == Runs(path, {Underscore, Sep})
Small   == [k \in DOMAIN Words |-> [i \in DOMAIN Words[k] |-> ToLower(Words[k][i])]]
Capital == [k \in DOMAIN Words |-> <<ToUpper(Words[k][1])>> \o Tail(Words[k])]

\* A package name (naming.go:14) is the words of the snapshot's name in small letters
\* with one underscore between them, its import alias (naming.go:46) the words without
\* any, an exported name (naming.go:53) the words with a capital each: they tell names
\* apart by words and nothing else.  The name of a node (naming.go:79) is that of its
\* path, where each name starts with a letter: so the nodes A/B and AB clash.
NamesAreTheirWords ==
  kind = "name" /\ Words # <<>> =>
    LET plain == \A s \in Range(Segments(path)) : s # <<>> /\ s[1] \in Uppers \cup Lowers
    IN  /\ PackageName(path) =
             (IF IsDigit(Words[1][1]) THEN CspText ELSE <<>>) \o Join(Small, <<Underscore>>)
        /\ ImportAlias(<<>>, PackageName(path)) =
             (IF IsDigit(Words[1][1]) THEN CspText ELSE <<>>) \o Join(Small, <<>>)
        /\ ExportName[path] =
             (IF IsDigit(Words[1][1]) THEN <<78>> ELSE <<>>) \o Join(Capital, <<>>)
        /\ plain => JoinExport(Segments(path)) = ExportName[path]

\* Whatever a DDF file calls a node, the parameter name made of it (naming.go:105) is
\* a Go identifier that is not taken, and naming a name again changes nothing: a
\* parameter and the placeholder documented for it agree.
NamesAreStable ==
  kind = "name" =>
    LET param == ParamName(path)
    IN  /\ param \notin Reserved
        /\ param[1] \in Lowers /\ Range(param) \subseteq Alnum
        /\ ParamName(param) = param
        /\ ExportName[ExportName[path]] = ExportName[path]
        /\ PackageName(PackageName(path)) = PackageName(path)

\* Text that is escaped into a document (syncml.go:96) is read as the same text by any
\* XML reader, entities that it already contains included, up to the line ends that
\* XML itself normalises.
EscapedTextReadsBack ==
  kind = "xml" => ReadText(Escape(path)) = <<LineEnds(path)>>

\* Formats of leaves, one that the generator does not know among them.
Formats == {"int", "bool", "chr", "xml", "date", "time", "unheard"}

\* What a getter makes of a device's text (functions.tmpl:5-19) goes back out in one
\* spelling when the setter of the same node sends it, and comes out of a document as
\* the same value: constructor and accessor of a format belong together
\* (build.go:329-352), at the ends of the range of an int as anywhere.  A text that is
\* none is an error and no value.  An allowed value that the generator can read
\* (build.go:540: base 0, with prefixes and underscores) makes a constant that is
\* sent and comes back as itself; a device that answers with the text of the allowed
\* value is understood to mean the same constant, or is an error, unless the text has
\* a leading zero: that is octal to the generator alone.
TypedValuesRoundTrip ==
  kind = "value" =>
    LET Answer(f, text) == [err |-> "nil", value |-> [format |-> f, data |-> text]]
        Sent(f, v)      == ReadText(Escape(ValueExpr(f, v).data))[1]
        unsigned == IF path # <<>> /\ path[1] \in {43, 45} THEN Tail(path) ELSE path
        octal    == NumberOf(Tail(unsigned), 8)
    IN  /\ \A f \in Formats : LET got == Getter(f, Answer(f, path)) IN
             IF got.err = "nil"
             THEN Getter(f, Answer(f, Sent(f, got.result[1]))) = got
             ELSE got.result = <<>> /\ GoType(f) # "string"
        /\ \A n \in Range(DecodeInt([data |-> path])) : NumberOf(unsigned, 10) \in {n, -n}
        /\ \A n \in Range(ParseInt(path, 0)) :
             /\ DecodeInt(IntValue(n)) = <<n>>
             /\ \A k \in Range(DecodeInt([data |-> path])) :
                  k = n \/ (unsigned[1] = 48 /\ n \in {octal, -octal})

=============================================================================
