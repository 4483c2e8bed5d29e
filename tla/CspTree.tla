------------------------------- MODULE CspTree -------------------------------
(***************************************************************************)
(* What a CSP tree promises to goroutines that share it: every call takes  *)
(* effect in one indivisible step between its invocation and its return.   *)
(* A Delete takes the whole subtree at once, and a List names the children *)
(* of one moment.                                                          *)
(***************************************************************************)
EXTENDS CspCalls

VARIABLES
  tree,      \* path -> value
  executed,  \* the Exec calls so far, in order
  slot       \* per goroutine: the state of its call, the call, its result

vars == <<tree, executed, slot>>

Idle == [st |-> "idle", call |-> NoCall, res |-> Pending]

\* The answer to call c from a tree t.
Answer(c, t) ==
  CASE c.op = "Get"    -> IF t[Target(c)] = NoValue THEN NotFound
                          ELSE Result("nil", t[Target(c)], {})
    [] c.op = "List"   -> Result("nil", NoValue, ChildNames(Nodes(t), Target(c)))
    [] c.op = "Delete" -> IF Subtree(t, Target(c)) = {} THEN NotFound ELSE Done
    [] OTHER           -> Done

\* The tree after call c.
Effect(c, t) ==
  CASE c.op \in Stores -> [t EXCEPT ![Target(c)] = c.val]
    [] c.op = "Delete" -> WithoutSubtree(t, Target(c))
    [] OTHER           -> t

Init ==
  /\ tree = [q \in Paths |-> NoValue]
  /\ executed = <<>>
  /\ slot = [p \in Procs |-> Idle]

Invoke(p, c) ==
  /\ slot[p].st = "idle"
  /\ slot' = [slot EXCEPT ![p] = [st |-> "called", call |-> c, res |-> Pending]]
  /\ UNCHANGED <<tree, executed>>

\* The moment a call takes effect.
TakeEffect(p, c) ==
  /\ slot[p].st = "called"
  /\ slot[p].call = c
  /\ tree' = Effect(c, tree)
  /\ executed' = IF c.op = "Exec" THEN Append(executed, ExecCall(c)) ELSE executed
  /\ slot' = [slot EXCEPT ![p] = [st |-> "done", call |-> c, res |-> Answer(c, tree)]]

Return(p) ==
  /\ slot[p].st = "done"
  /\ slot' = [slot EXCEPT ![p] = Idle]
  /\ UNCHANGED <<tree, executed>>

Next ==
  \E p \in Procs :
    \/ \E c \in Calls : Invoke(p, c) \/ TakeEffect(p, c)
    \/ Return(p)

Spec == Init /\ [][Next]_vars

=============================================================================
