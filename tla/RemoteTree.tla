----------------------------- MODULE RemoteTree -----------------------------
(***************************************************************************)
(* What calls over an exchange promise: the device carries out each call   *)
(* at most once, after it was made; a call that reports an outcome reports *)
(* what the device replied to that very call; a call that fails for any    *)
(* other reason tells nothing, and the device may carry it out even after  *)
(* the caller has been told so.                                            *)
(***************************************************************************)
EXTENDS Device

VARIABLES
  tree,    \* the device's tree
  issued,  \* calls made so far
  slot,    \* per goroutine: state, number, call, reply and outcome
  stray    \* calls given up that the device may still carry out

vars == <<tree, issued, slot, stray>>

Idle == [st |-> "idle", id |-> 0, call |-> NoCall, reply |-> <<>>, out |-> Underway]

Init ==
  /\ tree \in Trees
  /\ issued = 0
  /\ slot = [p \in Procs |-> Idle]
  /\ stray = {}

Invoke(p, c) ==
  /\ slot[p].st = "idle"
  /\ issued' = issued + 1
  /\ slot' = [slot EXCEPT ![p] =
       [st |-> "called", id |-> issued', call |-> c, reply |-> <<>>, out |-> Underway]]
  /\ UNCHANGED <<tree, stray>>

\* The device carries out or refuses the call.
Execute(p) ==
  LET c == slot[p].call
  IN  /\ slot[p].st = "called"
      /\ \E r \in Replies(VerbOf(c), Target(c), tree) :
           /\ tree' = TreeAfter(r, VerbOf(c), Target(c), c.val, tree)
           /\ slot' = [slot EXCEPT ![p].st = "executed", ![p].reply = <<r>>]
      /\ UNCHANGED <<issued, stray>>

\* The call reports the device's reply.
Answer(p) ==
  /\ slot[p].st = "executed"
  /\ slot' = [slot EXCEPT ![p].st = "done", ![p].reply = <<>>,
                          ![p].out = Report(slot[p].call, slot[p].reply[1])]
  /\ UNCHANGED <<tree, issued, stray>>

\* A call nobody waits for, as the device may still see it.
Stray(n, c) == [id |-> n, verb |-> VerbOf(c), target |-> Target(c), val |-> c.val]

\* The call gives up; if the device has not seen it yet, it still may.
Fail(p) ==
  /\ slot[p].st \in {"called", "executed"}
  /\ slot' = [slot EXCEPT ![p].st = "done", ![p].reply = <<>>, ![p].out = Unknown]
  /\ \/ stray' = stray
     \/ /\ slot[p].st = "called"
        /\ stray' = stray \cup {Stray(slot[p].id, slot[p].call)}
  /\ UNCHANGED <<tree, issued>>

ExecuteStray(s) ==
  /\ s \in stray
  /\ stray' = stray \ {s}
  /\ \E r \in Replies(s.verb, s.target, tree) :
       tree' = TreeAfter(r, s.verb, s.target, s.val, tree)
  /\ UNCHANGED <<issued, slot>>

Return(p) ==
  /\ slot[p].st = "done"
  /\ slot' = [slot EXCEPT ![p] = Idle]
  /\ UNCHANGED <<tree, issued, stray>>

Next ==
  \/ \E p \in Procs : (\E c \in ClientCalls : Invoke(p, c)) \/ Execute(p)
                        \/ Answer(p) \/ Fail(p) \/ Return(p)
  \/ \E s \in stray : ExecuteStray(s)

Spec == Init /\ [][Next]_vars

=============================================================================
