-------------------------------- MODULE Ddf --------------------------------
(***************************************************************************)
(* Package ddf: from the XML of a configuration service provider to the    *)
(* snapshot that the generator reads.                                      *)
(*                                                                         *)
(* A tree of nodes is a function: a node's position is the path of child   *)
(* numbers that leads to it from the root, which is not in the tree.  An   *)
(* XML node is [name, title, formats, access, enum]: the element names in  *)
(* DFFormat in order, the set of those in AccessType, and the values of an *)
(* ENUM or Flag, each [value, description].                                *)
(***************************************************************************)
EXTENDS GoText

ItemText == <<73, 116, 101, 109>>    \* "Item"

\* The whole branch that p is on, shortest first, p last.
Branch(p) == [k \in 1..Len(p) |-> SubSeq(p, 1, k)]

Siblings(x, p) == {q \in DOMAIN x : Len(q) = Len(p) /\ Front(q) = Front(p)}
Children(x, p) == {q \in DOMAIN x : Len(q) = Len(p) + 1 /\ Front(q) = p}

\* Dynamic and Leaf, of a parsed node.
Dynamic(n) == n.name = <<>>
Leaf(n)    == n.format \notin {"", "node"}

-----------------------------------------------------------------------------

\* sort.SliceStable of siblings by name: the place a node comes to.
PlaceUnsorted(x, p) == Last(p)

Place(x, p) ==
  LET Before(q) == \/ StringLess(x[q].name, x[p].name)
                   \/ x[q].name = x[p].name /\ Last(q) < Last(p)
  IN  1 + Cardinality({q \in Siblings(x, p) : Before(q)})

\* Its position when every list of siblings is sorted.
Sorted(x, p) == [k \in 1..Len(p) |-> Place(x, SubSeq(p, 1, k))]

\* A node's name as a segment of a path: a placeholder when it is dynamic.
Segment(n) ==
  LET title == TrimSpace(n.title)
  IN  IF Dynamic(n) THEN <<123>> \o (IF title = <<>> THEN ItemText ELSE title) \o <<125>>
      ELSE n.name

\* The URI of the provider itself.
BasePath(doc) == TrimRight(doc.path, {Sep}) \o <<Sep>> \o doc.name

\* buildNode: what is kept of an XML node, with the path that leads to it.
BuildNode(doc, p) ==
  LET x == doc.nodes
  IN  [name   |-> x[p].name,
       title  |-> TrimSpace(x[p].title),
       path   |-> BasePath(doc) \o FlattenSeq([k \in 1..Len(p) |->
                                     <<Sep>> \o Segment(x[Branch(p)[k]])]),
       format |-> IF x[p].formats = <<>> THEN "" ELSE x[p].formats[1],
       access |-> x[p].access,
       enum   |-> [i \in DOMAIN x[p].enum |->
                     [value       |-> TrimSpace(x[p].enum[i].value),
                      description |-> TrimSpace(x[p].enum[i].description)]]]

\* One root of a document.
Parse(doc) ==
  LET x     == doc.nodes
      At(q) == CHOOSE p \in DOMAIN x : Sorted(x, p) = q
  IN  [name  |-> doc.name,
       path  |-> doc.path,
       nodes |-> [q \in {Sorted(x, p) : p \in DOMAIN x} |-> BuildNode(doc, At(q))]]

=============================================================================
