------------------------------ MODULE CspCalls ------------------------------
(***************************************************************************)
(* The calls a program makes on a CSP tree through client.Client, what a   *)
(* call answers and what it does to the nodes, one call at a time.  The    *)
(* tree maps every path to a value, NoValue when there is no such node.    *)
(***************************************************************************)
EXTENDS OmaUri

CONSTANTS
  Procs,    \* goroutines that share the tree
  Uris,     \* the URIs they use, trailing separators included
  Values,   \* node values
  NoValue   \* the value of a node that does not exist

ASSUME UrisAssumption    == Uris \subseteq Seq(Nat)
ASSUME NoValueAssumption == NoValue \notin Values

Paths == {Norm(u) : u \in Uris}

\* Seed, Add and Replace all store a value; Exec only records the call.
Stores == {"Seed", "Add", "Replace"}
Reads  == {"Get", "List", "Delete"}

Calls == [op : Reads, uri : Uris, val : {NoValue}]
           \cup [op : Stores \cup {"Exec"}, uri : Uris, val : Values]

\* Between two calls.
NoCall == [op |-> "none", uri |-> <<>>, val |-> NoValue]

Target(c) == Norm(c.uri)

Trees == [Paths -> Values \cup {NoValue}]

Nodes(t)            == {q \in Paths : t[q] # NoValue}
Subtree(t, target)  == {q \in Nodes(t) : Inside(q, target)}
ChildNames(S, target) == {ChildName(q, target) : q \in {x \in S : Beneath(x, target)}}
WithoutSubtree(t, target) ==
  [q \in Paths |-> IF Inside(q, target) THEN NoValue ELSE t[q]]

\* The names a List can return.
Names == UNION {ChildNames(Paths, t) : t \in Paths}

\* Results of a call: an error, Get's value and List's sorted names.
Results == [err   : {"pending", "nil", "ErrNotFound"},
            val   : Values \cup {NoValue},
            names : {SortStrings(N) : N \in SUBSET Names}]

Result(e, v, N) == [err |-> e, val |-> v, names |-> SortStrings(N)]
Pending         == Result("pending", NoValue, {})
Done            == Result("nil", NoValue, {})
NotFound        == Result("ErrNotFound", NoValue, {})

\* An Exec recorded under the URI as given.
ExecCallRaw(c) == [uri |-> c.uri, val |-> c.val]

\* One entry of Executed.
ExecCall(c)  == [uri |-> Target(c), val |-> c.val]
ExecCalls    == [uri : Paths, val : Values]

=============================================================================
