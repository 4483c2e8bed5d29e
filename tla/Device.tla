------------------------------- MODULE Device -------------------------------
(***************************************************************************)
(* The device at the other end of a SyncML exchange, as the SDK relies on  *)
(* it: a tree of nodes that accepts or refuses one command at a time.  A   *)
(* command is a verb on a node; a read is answered with one item, the      *)
(* value of a leaf or the names below a container, joined by separators.   *)
(***************************************************************************)
EXTENDS CspCalls, SyncML

CONSTANTS
  AcceptCodes,  \* status codes of a command that was carried out
  RefuseCodes   \* status codes of a command that was not, besides 404

ASSUME CodesAssumption ==
  /\ AcceptCodes \subseteq 200..299
  /\ RefuseCodes \subseteq Nat \ (200..299)
  /\ 404 \notin RefuseCodes

\* Values are made by their constructors; a device has finitely many nodes, and each
\* has a name.
ASSUME ValuesAssumption == \A v \in Values : Constructed(v)
ASSUME NodesAssumption  == IsFiniteSet(Uris) /\ <<>> \notin Names

\* The calls of client.Client, which Seed is not.
ClientCalls == {c \in Calls : c.op # "Seed"}

VerbOf(c) == IF c.op = "List" THEN "Get" ELSE c.op

\* The listings of a container: its children's names in any order.
Listings(t, target) == SetToSeqs(ChildNames(Nodes(t), target))

Exists(t, target) == Subtree(t, target) # {}

IsLeaf(t, target) == t[target] \notin {NoValue, Node}

\* A reply: the code, the item of a read and the names it lists.
Reply(code, item, names) == [code |-> code, item |-> item, names |-> names]

Refusals(t, target) ==
  {Reply(r, <<>>, <<>>) : r \in RefuseCodes}
    \cup (IF Exists(t, target) THEN {} ELSE {Reply(404, <<>>, <<>>)})

\* A read of a node that is there.
ReadReplies(t, target) ==
  IF IsLeaf(t, target)
  THEN {Reply(a, <<t[target]>>, SplitNames(t[target].data)) : a \in AcceptCodes}
  ELSE {Reply(a, <<[format |-> "node", data |-> Join(l, <<Sep>>)]>>, l) :
          a \in AcceptCodes, l \in Listings(t, target)}

\* What the device may answer to a verb on a node.
Replies(verb, target, t) ==
  Refusals(t, target) \cup
    (IF verb = "Add" THEN {Reply(a, <<>>, <<>>) : a \in AcceptCodes}
     ELSE IF ~Exists(t, target) THEN {}
     ELSE IF verb = "Get" THEN ReadReplies(t, target)
     ELSE {Reply(a, <<>>, <<>>) : a \in AcceptCodes})

Accepted(reply) == reply.code \in 200..299

\* The tree after an accepted command.
EffectOn(verb, target, value, t) ==
  IF verb \in {"Add", "Replace"} THEN [t EXCEPT ![target] = value]
  ELSE IF verb = "Delete" THEN WithoutSubtree(t, target)
  ELSE t

TreeAfter(reply, verb, target, value, t) ==
  IF Accepted(reply) THEN EffectOn(verb, target, value, t) ELSE t

-----------------------------------------------------------------------------
(***************************************************************************)
(* Outcomes of a call at the SDK's side.                                   *)
(***************************************************************************)

Outcome(err, code, value, names) ==
  [err |-> err, code |-> code, value |-> value, names |-> names]

Underway     == Outcome("pending", 0, NoValue, <<>>)
Unknown      == Outcome("exchange", 0, NoValue, <<>>)
Refused(n)   == Outcome("status", n, NoValue, <<>>)
Success      == Outcome("nil", 0, NoValue, <<>>)
Read(v)      == Outcome("nil", 0, v, <<>>)
Listed(ns)   == Outcome("nil", 0, NoValue, ns)

\* The outcome that reports a reply truly.
Report(c, reply) ==
  IF ~Accepted(reply) THEN Refused(reply.code)
  ELSE IF c.op = "Get" THEN Read(reply.item[1])
  ELSE IF c.op = "List" THEN Listed(reply.names)
  ELSE Success

=============================================================================
