------------------------------ MODULE Builder ------------------------------
(***************************************************************************)
(* Package build: one CSP becomes the view of one Go package.  The builder *)
(* is a recursive program; its stack is the agenda of nodes yet to be      *)
(* visited, each with the walk state of its parent, and every call that    *)
(* may repeat itself (claimBase, the members of an enumeration) is a step. *)
(*                                                                         *)
(* A Go name with a fixed prefix (URI..., Get..., Create...) is its prefix *)
(* and its base; no two of the prefixes begin alike.  The List of the root *)
(* is the one of base Root.  The package is the set of its methods, URIs   *)
(* and enumerations; the order they are written in is layout.              *)
(***************************************************************************)
EXTENDS Ddf, Naming, Service

CONSTANT Docs   \* the DDF documents

\* A node's access is of the verbs of AccessType (internal/ddf/model.go:48).
Accesses == {"Add", "Copy", "Delete", "Exec", "Get", "Replace"}

\* A document is a tree: where there is a node, there is its parent.
ASSUME DocsAssumption ==
  \A d \in Docs :
    /\ d = [name |-> d.name, path |-> d.path, nodes |-> d.nodes]
    /\ d.name \in Text /\ d.path \in Text
    /\ IsFiniteSet(DOMAIN d.nodes)
    /\ DOMAIN d.nodes \subseteq Seq(Nat) \ {<<>>}
    /\ \A p \in DOMAIN d.nodes :
         /\ Len(p) > 1 => Front(p) \in DOMAIN d.nodes
         /\ d.nodes[p].name \in Text /\ d.nodes[p].title \in Text
         /\ d.nodes[p].access \subseteq Accesses

VARIABLES
  doc,       \* the document, and the snapshot parsed from it
  csp,
  pc,        \* where the builder is
  agenda,    \* nodes to visit, in order: [at, parent]
  cur,       \* the node being visited: [at, segs, params, parts, base]
  asking,    \* the name claimBase is called with
  used,      \* usedBases: how often each name was asked for
  consts,    \* usedConsts
  block,     \* the enumeration under construction: [type, members]
  methods, uris, enums   \* the package

vars == <<doc, csp, pc, agenda, cur, asking, used, consts, block, methods, uris, enums>>

NoBlock == [type |-> <<>>, members |-> <<>>]

Lit(text)   == [lit |-> text, param |-> <<>>]
Param(name) == [lit |-> <<>>, param |-> name]

Root == [at |-> <<>>, segs |-> <<>>, params |-> <<>>, base |-> RootText,
         parts |-> <<Lit(BasePath(csp))>>]

node == csp.nodes[cur.at]

\* The walk over a node's children comes before what is left of the agenda.
Walk(parent) ==
  [k \in 1..Cardinality(Children(csp.nodes, parent.at)) |->
     [at |-> Append(parent.at, k), parent |-> parent]]

HasDynamicChild(at) == \E p \in Children(csp.nodes, at) : Dynamic(csp.nodes[p])

SegName(n) == CASE ~Dynamic(n)                    -> n.name
                [] Dynamic(n) /\ n.title # <<>>   -> n.title
                [] OTHER                          -> ItemText

\* The number a name that is taken gets: none, then 2, 3, ...
Numbered(name, i) == IF i = 1 THEN name ELSE name \o Itoa[i]

\* The first form of the name that is not taken, alone in its set (n and t are the
\* arguments, which TLC thus evaluates once).
FirstFree(name, taken) ==
  UNION {{Numbered(n, i) : i \in {k \in 1..Cardinality(t) + 1 :
                                    /\ Numbered(n, k) \notin t
                                    /\ \A j \in 1..k - 1 : Numbered(n, j) \in t}} :
         n \in {name}, t \in {taken}}

\* paramFor without the parameters of the nodes above.
ParamForAlone(n, taken) == {ParamName(SegName(n))}

ParamFor(n, taken) == FirstFree(ParamName(SegName(n)), Range(taken))

\* The walk state is shared with the nodes visited before, not copied.
NodeAtShared(at, parent, param) ==
  LET n == csp.nodes[at]
  IN  [at     |-> at,
       segs   |-> Append(parent.segs, SegName(n)),
       params |-> IF Dynamic(n) THEN Append(parent.params, param) ELSE parent.params,
       parts  |-> cur.parts \o <<Lit(<<Sep>>), IF Dynamic(n) THEN Param(param) ELSE Lit(n.name)>>,
       base   |-> <<>>]

\* visit, up to the call of claimBase.
NodeAt(at, parent, param) ==
  LET n == csp.nodes[at]
  IN  [at     |-> at,
       segs   |-> Append(parent.segs, SegName(n)),
       params |-> IF Dynamic(n) THEN Append(parent.params, param) ELSE parent.params,
       parts  |-> parent.parts \o <<Lit(<<Sep>>), IF Dynamic(n) THEN Param(param) ELSE Lit(n.name)>>,
       base   |-> <<>>]

Count(name) == IF name \in DOMAIN used THEN used[name] ELSE 0

\* usedBases[asking] = n + 1.
Counted == [x \in DOMAIN used \cup {asking} |->
              IF x = asking THEN Count(asking) + 1 ELSE used[x]]

-----------------------------------------------------------------------------

Method(prefix, type) ==
  [prefix |-> prefix, base |-> cur.base, args |-> cur.params, type |-> type, at |-> cur.at]

NoType    == [go |-> "", enum |-> <<>>]
ValueType == [go |-> GoType(node.format), enum |-> block.type]

\* The prefixes of method names, and the verb a method calls.
VerbOf == [List |-> "Get", Get |-> "Get", Create |-> "Add", Update |-> "Replace",
           Delete |-> "Delete", Exec |-> "Exec"]

\* The methods of a container.
InteriorPrefixes ==
  {m \in {"List", "Create", "Delete"} :
     /\ VerbOf[m] \in node.access
     /\ IF m = "List" THEN HasDynamicChild(cur.at) ELSE Dynamic(node)}

\* A leaf that can be replaced is taken to be readable.
LeafPrefixesReadable ==
  {m \in {"Get", "Create", "Update", "Delete", "Exec"} :
     VerbOf[m] \in node.access \/ (m = "Get" /\ "Replace" \in node.access)}

\* The methods of a leaf: a null node has nothing to get.
LeafPrefixes ==
  {m \in {"Get", "Create", "Update", "Delete", "Exec"} :
     VerbOf[m] \in node.access /\ ~(m = "Get" /\ node.format = "null")}

Valued == LeafPrefixes \ {"Delete"} # {}

\* enumFor makes a type only of numbers and strings.
HasEnum == node.enum # <<>> /\ GoType(node.format) \in {"int64", "string"}

\* ensureURI: once for each name, if a method was emitted.
EnsureURI(emitted) ==
  uris' = IF emitted = {} \/ \E u \in uris : u.base = cur.base THEN uris
          ELSE uris \cup {[base |-> cur.base, params |-> cur.params, parts |-> cur.parts]}

\* A member's literal: the number in base 10, or the string; nothing if it is no number.
Literal(value) ==
  IF GoType(node.format) # "int64" THEN <<value>>
  ELSE LET v == ParseInt(value, 0) IN [i \in DOMAIN v |-> FormatInt(v[i])]

NextMember == node.enum[Len(block.members) + 1]
Seen       == {block.members[i].name : i \in DOMAIN block.members}

\* The name checked against the constants of finished blocks only.
MemberNameUnseen ==
  FirstFree(cur.base \o ConstName(NextMember.description, NextMember.value), consts)

MemberName ==
  FirstFree(cur.base \o ConstName(NextMember.description, NextMember.value), Seen \cup consts)

Member(name, lit) ==
  [name |-> name, lit |-> lit,
   dup  |-> \E i \in DOMAIN block.members : block.members[i].lit = lit]

-----------------------------------------------------------------------------

Init ==
  /\ doc \in Docs
  /\ csp = Parse(doc)
  /\ pc = "start" /\ agenda = <<>> /\ asking = <<>>
  /\ cur = Root
  /\ used = <<>> /\ consts = {} /\ block = NoBlock
  /\ methods = {} /\ uris = {} /\ enums = {}

\* Package without the claim of the root's name.
StartUnclaimed ==
  /\ pc = "start" /\ pc' = "walk"
  /\ used' = <<>>
  /\ methods' = IF HasDynamicChild(<<>>) THEN {Method("List", NoType)} ELSE {}
  /\ uris' = {[base |-> RootText, params |-> <<>>, parts |-> cur.parts]}
  /\ agenda' = Walk(cur)
  /\ UNCHANGED <<doc, csp, cur, asking, consts, block, enums>>

\* Package, up to the walk.
Start ==
  /\ pc = "start" /\ pc' = "walk"
  /\ used' = [x \in {RootText} |-> 1]
  /\ methods' = IF HasDynamicChild(<<>>) THEN {Method("List", NoType)} ELSE {}
  /\ uris' = {[base |-> RootText, params |-> <<>>, parts |-> cur.parts]}
  /\ agenda' = Walk(cur)
  /\ UNCHANGED <<doc, csp, cur, asking, consts, block, enums>>

Visit ==
  /\ pc = "walk" /\ agenda # <<>> /\ pc' = "claim"
  /\ LET at == Head(agenda).at
         parent == Head(agenda).parent
     IN  \E param \in ParamFor(csp.nodes[at], parent.params) : cur' = NodeAt(at, parent, param)
  /\ asking' = JoinExport(cur'.segs)
  /\ agenda' = Tail(agenda)
  /\ UNCHANGED <<doc, csp, used, consts, block, methods, uris, enums>>

\* claimBase calls itself with the name it was called with.
AskAgainSame ==
  /\ pc \in {"claim", "claimType"} /\ Count(asking) > 0
  /\ UNCHANGED vars

\* claimBase calls itself with a number added to a name that is taken.
AskAgain ==
  /\ pc \in {"claim", "claimType"} /\ Count(asking) > 0
  /\ used' = Counted
  /\ asking' = asking \o Itoa[Count(asking) + 1]
  /\ UNCHANGED <<doc, csp, pc, agenda, cur, consts, block, methods, uris, enums>>

\* claimBase returns the numbered name without asking whether that is taken.
ClaimUnchecked ==
  /\ pc = "claim" /\ pc' = "emit"
  /\ used' = Counted
  /\ cur' = [cur EXCEPT !.base = IF Count(asking) = 0 THEN asking
                                ELSE asking \o Itoa[Count(asking) + 1]]
  /\ UNCHANGED <<doc, csp, agenda, asking, consts, block, methods, uris, enums>>

\* claimBase returns to visit, which has an enumeration to name or goes on.
Claim ==
  /\ pc = "claim" /\ Count(asking) = 0
  /\ used' = Counted
  /\ cur' = [cur EXCEPT !.base = asking]
  /\ IF Leaf(node) /\ Valued /\ HasEnum
     THEN pc' = "claimType" /\ asking' = asking \o ValueText
     ELSE pc' = "emit" /\ UNCHANGED asking
  /\ UNCHANGED <<doc, csp, agenda, consts, block, methods, uris, enums>>

\* claimBase returns to enumFor.
ClaimType ==
  /\ pc = "claimType" /\ Count(asking) = 0 /\ pc' = "members"
  /\ used' = Counted
  /\ block' = [type |-> asking, members |-> <<>>]
  /\ UNCHANGED <<doc, csp, agenda, cur, asking, consts, methods, uris, enums>>

\* One iteration of enumFor's loop.
AddMember ==
  /\ pc = "members" /\ Len(block.members) < Len(node.enum)
  /\ \E name \in MemberName, lit \in Range(Literal(NextMember.value)) :
       block' = [block EXCEPT !.members = Append(@, Member(name, lit))]
  /\ UNCHANGED <<doc, csp, pc, agenda, cur, asking, used, consts, methods, uris, enums>>

\* A member that is no number ends the loop, and the leaf has no enumeration.
AbandonEnum ==
  /\ pc = "members" /\ Len(block.members) < Len(node.enum) /\ pc' = "emit"
  /\ Literal(NextMember.value) = <<>>
  /\ block' = NoBlock
  /\ UNCHANGED <<doc, csp, agenda, cur, asking, used, consts, methods, uris, enums>>

EndEnum ==
  /\ pc = "members" /\ Len(block.members) = Len(node.enum) /\ pc' = "emit"
  /\ consts' = consts \cup Seen
  /\ enums' = enums \cup {block}
  /\ UNCHANGED <<doc, csp, agenda, cur, asking, used, block, methods, uris>>

\* The rest of visit for a container, which goes on with its children.
EmitInterior ==
  /\ pc = "emit" /\ ~Leaf(node) /\ pc' = "walk"
  /\ methods' = methods \cup {Method(m, NoType) : m \in InteriorPrefixes}
  /\ EnsureURI(InteriorPrefixes)
  /\ agenda' = Walk(cur) \o agenda
  /\ UNCHANGED <<doc, csp, cur, asking, used, consts, block, enums>>

\* The rest of visit for a leaf, which ends there whatever lies below it.
EmitLeaf ==
  /\ pc = "emit" /\ Leaf(node) /\ pc' = "walk"
  /\ methods' = methods \cup
       {Method(m, IF m = "Delete" THEN NoType ELSE ValueType) : m \in LeafPrefixes}
  /\ EnsureURI(LeafPrefixes)
  /\ block' = NoBlock
  /\ UNCHANGED <<doc, csp, agenda, cur, asking, used, consts, enums>>

Finish ==
  /\ pc = "walk" /\ agenda = <<>> /\ pc' = "done"
  /\ UNCHANGED <<doc, csp, agenda, cur, asking, used, consts, block, methods, uris, enums>>

Next ==
  \/ Start \/ Visit \/ AskAgain \/ Claim \/ ClaimType \/ AddMember \/ AbandonEnum
  \/ EndEnum \/ EmitInterior \/ EmitLeaf \/ Finish

Spec == Init /\ [][Next]_vars

\* The builder is one function: once called it runs.
FairSpec == Spec /\ WF_vars(Next)

-----------------------------------------------------------------------------

\* Where the builder is, and that every name in use was claimed.
TypeOK ==
  /\ pc \in {"start", "walk", "claim", "claimType", "members", "emit", "done"}
  /\ used \in [DOMAIN used -> Nat \ {0}]
  /\ pc # "start" => RootText \in DOMAIN used
  /\ \A m \in methods : m.prefix \in DOMAIN VerbOf /\ m.base \in DOMAIN used
  /\ \A u \in uris : u.base \in DOMAIN used
  /\ \A e \in enums : e.type \in DOMAIN used

\* No two methods of a service, no two URIs and no two types of a package have one
\* name, whatever the DDF calls its nodes: names that fall together are numbered, and
\* numbers that fall on other names are numbered again (claimBase, build.go:211).
NamesDistinct ==
  /\ \A m, n \in methods : m.prefix = n.prefix /\ m.base = n.base => m = n
  /\ \A u, v \in uris : u.base = v.base => u = v
  /\ \A e, f \in enums : e.type = f.type => e = f

\* The constants of all enumerations of a package have different names, and of those
\* that share a value exactly one is a case of its String method (build.go:535-565,
\* enums.tmpl): a repeated case would not compile.
ConstantsDistinct ==
  /\ \A e, f \in enums : \A k \in DOMAIN e.members, l \in DOMAIN f.members :
       e.members[k].name = f.members[l].name => e = f /\ k = l
  /\ \A e \in enums : \A k, l \in DOMAIN e.members :
       e.members[k].lit = e.members[l].lit =>
         /\ ~e.members[k].dup /\ ~e.members[l].dup => k = l
         /\ \E i \in DOMAIN e.members : e.members[i].lit = e.members[k].lit /\ ~e.members[i].dup

\* A method passes to the URI it names the arguments that URI takes, in its order, no
\* two of one name however deep dynamic nodes nest; and an allowed-values type that it
\* takes or returns is declared, also when a member ended the type's loop early
\* (build.go:193, build.go:515).
MethodsAreDeclared ==
  \A m \in methods :
    /\ IsInjective(m.args)
    /\ \E u \in uris : u.base = m.base /\ u.params = m.args
    /\ m.type.enum # <<>> => \E e \in enums : e.type = m.type.enum

\* The positions of the dynamic nodes of a tree on the way to a node, and its own.
DynamicTo(x, at) == Kept(Branch(at), {k \in 1..Len(at) : Dynamic(x[SubSeq(at, 1, k)])})

\* One part of a URI, its parameter filled in with the placeholder of the node it is for.
Piece(x, part, params, at) ==
  LET d == CHOOSE i \in DOMAIN params : params[i] = part.param
  IN  IF part.param = <<>> THEN part.lit ELSE Segment(x[DynamicTo(x, at)[d]])

\* The path a URI gives when its parameters are the placeholders of the dynamic nodes
\* above a node.
Filled(x, uri, at) ==
  FlattenSeq([k \in DOMAIN uri.parts |-> Piece(x, uri.parts[k], uri.params, at)])

PathTo(c, at) == IF at = <<>> THEN BasePath(c) ELSE c.nodes[at].path

\* Filled in, the URI of a method gives the path that the parser computed for the
\* method's node, the provider's own for the root (build.go:106-119, parse.go:56-64).
MethodsAddressTheirNode ==
  \A m \in methods : \A u \in uris :
    u.base = m.base => Filled(csp.nodes, u, m.at) = PathTo(csp, m.at)

MethodsAt(at) == {m.prefix : m \in {x \in methods : x.at = at}}

\* Nodes with no leaf above them.
Reached == {p \in DOMAIN csp.nodes : \A k \in 1..Len(p) - 1 : ~Leaf(csp.nodes[SubSeq(p, 1, k)])}

\* When the builder is done, no method does what the AccessType of its node does not
\* allow; a leaf has a method for everything it allows but the Get of a node without a
\* value; and the children of every dynamic node's parent can be listed, and their
\* creation and deletion are there if allowed (build.go:124-180).
MethodsMatchAccess ==
  pc = "done" =>
    \A p \in DOMAIN csp.nodes : LET n == csp.nodes[p] IN
      /\ {VerbOf[m] : m \in MethodsAt(p)} \subseteq n.access
      /\ p \in Reached /\ Leaf(n) =>
           {VerbOf[m] : m \in MethodsAt(p)} =
             (n.access \ {"Copy"}) \ (IF n.format = "null" THEN {"Get"} ELSE {})
      /\ p \in Reached /\ Dynamic(n) /\ ~Leaf(n) =>
           {VerbOf[m] : m \in MethodsAt(p) \ {"List"}} = n.access \cap {"Add", "Delete"}
      /\ p \in Reached /\ Dynamic(n) =>
           ("List" \in MethodsAt(Front(p)) <=>
              Len(p) = 1 \/ "Get" \in csp.nodes[Front(p)].access)

\* A node whose AccessType has Delete has a method that deletes it
\* (docs/implementation-plan.md:82), at least where no leaf is above it.
DeleteForEveryNode ==
  pc = "done" =>
    \A p \in Reached : "Delete" \in csp.nodes[p].access => "Delete" \in MethodsAt(p)

\* Where a node is when two siblings have changed places, with everything below them.
Swapped(p, q, r) == CASE IsPrefix(p, r) -> q \o SubSeq(r, Len(p) + 1, Len(r))
                      [] IsPrefix(q, r) -> p \o SubSeq(r, Len(p) + 1, Len(r))
                      [] OTHER          -> r

Exchanged(x, p, q) == [r \in {Swapped(p, q, s) : s \in DOMAIN x} |-> x[Swapped(p, q, r)]]

\* The order in which Microsoft's file happens to list siblings of different names makes
\* no difference to the snapshot (parse.go:41), nor so to the numbers in names: an
\* update that only reorders the file changes no API.
SiblingOrderIrrelevant ==
  pc = "start" =>
    \A p \in DOMAIN doc.nodes : \A q \in Siblings(doc.nodes, p) :
      (\A r, s \in Siblings(doc.nodes, p) : doc.nodes[r].name = doc.nodes[s].name => r = s)
        => Parse([doc EXCEPT !.nodes = Exchanged(doc.nodes, p, q)]) = csp

\* The builder ends: claimBase's recursion, the numbers tried and the walk run out.
Terminates == <>(pc = "done")

=============================================================================
