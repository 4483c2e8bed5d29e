----------------------------- MODULE MCBuilder -----------------------------
(***************************************************************************)
(* Builder on three families of documents: names that fall together in     *)
(* every shape of at most three nodes, access sets and formats of a node   *)
(* and one below it, and enumerations of two neighbouring leaves.          *)
(***************************************************************************)
EXTENDS Builder

MCReserved == {<<115>>}    \* "s"

Doc(nodes) == [name |-> <<82>>, path |-> <<46, 47, 47>>, nodes |-> nodes]

\* "A", "a", "A2", "B", "AB"; a blank and "s" as titles of dynamic nodes.
XA == <<65>>
Xa == <<97>>
XA2 == <<65, 50>>
XB == <<66>>
XAB == <<65, 66>>

Static(name, formats, access, enum) ==
  [name |-> name, title |-> <<>>, formats |-> formats, access |-> access, enum |-> enum]
Dyn(title, formats, access) ==
  [name |-> <<>>, title |-> title, formats |-> formats, access |-> access, enum |-> <<>>]

\* Families of positions, closed under prefixes.
Shapes == {{<<1>>, <<2>>, <<3>>}, {<<1>>, <<1, 1>>, <<2>>}, {<<1>>, <<2>>, <<2, 1>>},
           {<<1>>, <<1, 1>>, <<1, 2>>}, {<<1>>, <<1, 1>>, <<1, 1, 1>>}}

Identities == {[name |-> n, title |-> <<>>] : n \in {XA, Xa, XA2, XB, XAB, RootText}}
                \cup {[name |-> <<>>, title |-> t] : t \in {<<Space>>, <<115>>}}

NameDocs ==
  {Doc([p \in DOMAIN names |->
          names[p] @@ [formats |-> <<IF Children(names, p) = {} THEN "int" ELSE "node">>,
                       access |-> {"Get", "Delete"}, enum |-> <<>>]]) :
     names \in UNION {[shape -> Identities] : shape \in Shapes}}

AccessDocs ==
  {Doc(<<1>> :> upper @@ <<1, 1>> :> lower) :
     upper \in {Static(XA, f, a, <<>>) : f \in {<<"node">>, <<>>, <<"chr">>, <<"null">>},
                                         a \in SUBSET {"Add", "Delete", "Exec", "Get", "Replace"}}
               \cup {Dyn(<<>>, f, a) : f \in {<<"node">>, <<"int">>},
                                       a \in SUBSET {"Add", "Delete", "Exec", "Get", "Replace"}},
     lower \in {Static(XB, <<f>>, a, <<>>) : f \in {"chr", "node"},
                                             a \in {{"Get"}, {"Copy", "Replace"}, {"Add", "Delete"}}}
               \cup {Dyn(<<84>>, <<f>>, a) : f \in {"null", "node"},
                                             a \in {{"Get", "Exec"}, {"Add", "Delete"}}}}

\* Values 1, -1, 12, 0x1 and x without a description, 1 and 2 described "BY" and "Y".
Value(text, description) == [value |-> text, description |-> description]
Members == {Value(t, <<>>) : t \in {<<49>>, <<45, 49>>, <<49, 50>>, <<48, 120, 49>>, <<120>>}}
             \cup {Value(<<49>>, <<66, 89>>), Value(<<50>>, <<89>>)}

Triples == {e \in [1..3 -> Members] : e[1].value \in {<<49>>, <<45, 49>>} /\ e[3] # e[1]}

Followers == {<<>>, <<Value(<<49>>, <<>>)>>,
              <<Value(<<50>>, <<89>>), Value(<<120>>, <<>>)>>,
              <<Value(<<50>>, <<89>>), Value(<<49>>, <<89>>)>>}

EnumDocs ==
  {Doc(<<1>> :> Static(XA, <<"int">>, {"Get"}, e1) @@ <<2>> :> Static(n, <<"int">>, {"Get"}, e2)) :
     n \in {XAB, XA \o ValueText}, e1 \in Triples, e2 \in Followers}
  \cup
  {Doc(<<1>> :> Static(XA, <<f>>, {"Replace"}, e1) @@ <<2>> :> Static(n, <<f>>, a, e2)) :
     n \in {XAB, XA \o ValueText}, f \in {"chr", "bool"}, a \in {{"Get"}, {"Delete"}},
     e1 \in Followers, e2 \in Followers}

MCDocs == NameDocs \cup AccessDocs \cup EnumDocs

=============================================================================
