------------------------------ MODULE InMemory ------------------------------
(***************************************************************************)
(* clienttest.InMemory: a CSP tree in a map, shared by goroutines under    *)
(* one mutex.  Every method locks, works on the map and unlocks on return. *)
(* List and Delete range over the map, whose entries Go produces in any    *)
(* order; Delete removes entries while the loop runs.                      *)
(***************************************************************************)
EXTENDS CspCalls

CONSTANTS
  NoProc,   \* the mutex is free
  MaxExec   \* bound: calls of Exec in a behaviour

ASSUME NoProcAssumption  == NoProc \notin Procs
ASSUME MaxExecAssumption == MaxExec \in Nat

VARIABLES
  mu,        \* the holder of the mutex
  nodes,     \* the map
  Executed,  \* the recorded Exec calls
  pc,        \* where each goroutine is
  call,      \* the call it makes
  res,       \* what the call will return
  frame      \* its loop's locals: keys produced so far, seen, found

vars == <<mu, nodes, Executed, pc, call, res, frame>>

NoFrame == [produced |-> {}, seen |-> {}, found |-> FALSE]

\* New() has just returned and no goroutine has called a method.
Init ==
  /\ mu = NoProc
  /\ nodes = [q \in Paths |-> NoValue]
  /\ Executed = <<>>
  /\ pc = [p \in Procs |-> "idle"]
  /\ call = [p \in Procs |-> NoCall]
  /\ res = [p \in Procs |-> Pending]
  /\ frame = [p \in Procs |-> NoFrame]

\* Exec calls made and not yet recorded.
ExecsUnderWay == {p \in Procs : call[p].op = "Exec" /\ pc[p] \in {"lock", "body"}}

Call(p, c) ==
  /\ pc[p] = "idle"
  /\ c.op = "Exec" => Len(Executed) + Cardinality(ExecsUnderWay) < MaxExec
  /\ pc' = [pc EXCEPT ![p] = "lock"]
  /\ call' = [call EXCEPT ![p] = c]
  /\ UNCHANGED <<mu, nodes, Executed, res, frame>>

\* Lock taken without waiting for the holder.
LockUnguarded(p) ==
  /\ pc[p] = "lock"
  /\ mu' = p
  /\ pc' = [pc EXCEPT ![p] = IF call[p].op \in {"List", "Delete"} THEN "range" ELSE "body"]
  /\ UNCHANGED <<nodes, Executed, call, res, frame>>

Lock(p) ==
  /\ pc[p] = "lock"
  /\ mu = NoProc
  /\ mu' = p
  /\ pc' = [pc EXCEPT ![p] = IF call[p].op \in {"List", "Delete"} THEN "range" ELSE "body"]
  /\ UNCHANGED <<nodes, Executed, call, res, frame>>

\* The body has its result: the deferred unlock is next.
Finish(p, r) ==
  /\ pc' = [pc EXCEPT ![p] = "unlock"]
  /\ res' = [res EXCEPT ![p] = r]
  /\ UNCHANGED <<mu, call>>

Get(p) ==
  /\ pc[p] = "body"
  /\ call[p].op = "Get"
  /\ LET v == nodes[Target(call[p])]
     IN  Finish(p, IF v = NoValue THEN NotFound ELSE Result("nil", v, {}))
  /\ UNCHANGED <<nodes, Executed, frame>>

\* Seed, Add and Replace.
Store(p) ==
  /\ pc[p] = "body"
  /\ call[p].op \in Stores
  /\ nodes' = [nodes EXCEPT ![Target(call[p])] = call[p].val]
  /\ Finish(p, Done)
  /\ UNCHANGED <<Executed, frame>>

Exec(p) ==
  /\ pc[p] = "body"
  /\ call[p].op = "Exec"
  /\ Executed' = Append(Executed, ExecCall(call[p]))
  /\ Finish(p, Done)
  /\ UNCHANGED <<nodes, frame>>

\* Entries the range loop has still to produce: those in the map that it has
\* not produced, so an entry deleted before its turn never comes.
Remaining(p) == Nodes(nodes) \ frame[p].produced

\* List's loop starting over at every entry.
ListStepRestarts(p, path) ==
  /\ pc[p] = "range"
  /\ call[p].op = "List"
  /\ path \in Remaining(p)
  /\ frame' = [frame EXCEPT
       ![p].produced = {path},
       ![p].seen = @ \cup ChildNames({path}, Target(call[p]))]
  /\ UNCHANGED <<mu, nodes, Executed, pc, call, res>>

ListStep(p, path) ==
  /\ pc[p] = "range"
  /\ call[p].op = "List"
  /\ path \in Remaining(p)
  /\ frame' = [frame EXCEPT
       ![p].produced = @ \cup {path},
       ![p].seen = @ \cup ChildNames({path}, Target(call[p]))]
  /\ UNCHANGED <<mu, nodes, Executed, pc, call, res>>

ListDone(p) ==
  /\ pc[p] = "range"
  /\ call[p].op = "List"
  /\ Remaining(p) = {}
  /\ Finish(p, Result("nil", NoValue, frame[p].seen))
  /\ frame' = [frame EXCEPT ![p] = NoFrame]
  /\ UNCHANGED <<nodes, Executed>>

\* Delete's loop with found set by every entry instead of by a match.
DeleteStepLastWins(p, path) ==
  /\ pc[p] = "range"
  /\ call[p].op = "Delete"
  /\ path \in Remaining(p)
  /\ LET hit == Inside(path, Target(call[p]))
     IN  /\ nodes' = IF hit THEN [nodes EXCEPT ![path] = NoValue] ELSE nodes
         /\ frame' = [frame EXCEPT ![p].produced = @ \cup {path}, ![p].found = hit]
  /\ UNCHANGED <<mu, Executed, pc, call, res>>

DeleteStep(p, path) ==
  /\ pc[p] = "range"
  /\ call[p].op = "Delete"
  /\ path \in Remaining(p)
  /\ LET hit == Inside(path, Target(call[p]))
     IN  /\ nodes' = IF hit THEN [nodes EXCEPT ![path] = NoValue] ELSE nodes
         /\ frame' = [frame EXCEPT ![p].produced = @ \cup {path},
                                   ![p].found = @ \/ hit]
  /\ UNCHANGED <<mu, Executed, pc, call, res>>

DeleteDone(p) ==
  /\ pc[p] = "range"
  /\ call[p].op = "Delete"
  /\ Remaining(p) = {}
  /\ Finish(p, IF frame[p].found THEN Done ELSE NotFound)
  /\ frame' = [frame EXCEPT ![p] = NoFrame]
  /\ UNCHANGED <<nodes, Executed>>

\* The deferred unlock and the return to the caller.
Return(p) ==
  /\ pc[p] = "unlock"
  /\ mu' = NoProc
  /\ pc' = [pc EXCEPT ![p] = "idle"]
  /\ call' = [call EXCEPT ![p] = NoCall]
  /\ res' = [res EXCEPT ![p] = Pending]
  /\ UNCHANGED <<nodes, Executed, frame>>

\* A step of a method that holds the mutex.
Work(p) ==
  \/ Get(p) \/ Store(p) \/ Exec(p)
  \/ \E path \in Paths : ListStep(p, path) \/ DeleteStep(p, path)
  \/ ListDone(p) \/ DeleteDone(p)
  \/ Return(p)

Next == \E p \in Procs : (\E c \in Calls : Call(p, c)) \/ Lock(p) \/ Work(p)

Spec == Init /\ [][Next]_vars

(***************************************************************************)
(* A goroutine inside a method keeps running, and sync.Mutex hands itself  *)
(* to a goroutine that has waited long enough (starvation mode), so a      *)
(* Lock that is possible again and again succeeds.                         *)
(***************************************************************************)
FairSpec == Spec /\ \A p \in Procs : WF_vars(Work(p)) /\ SF_vars(Lock(p))

-----------------------------------------------------------------------------
(***************************************************************************)
(* Invariants.                                                             *)
(***************************************************************************)

Frames == [produced : SUBSET Paths, seen : SUBSET Names, found : BOOLEAN]

\* Every variable has its type: the one type invariant of the module.
TypeOK ==
  /\ mu \in Procs \cup {NoProc}
  /\ nodes \in Trees
  /\ Executed \in Seq(ExecCalls)
  /\ pc \in [Procs -> {"idle", "lock", "body", "range", "unlock"}]
  /\ call \in [Procs -> Calls \cup {NoCall}]
  /\ res \in [Procs -> Results]
  /\ frame \in [Procs -> Frames]

InCritical(p) == pc[p] \in {"body", "range", "unlock"}
Ranging(p, o) == pc[p] = "range" /\ call[p].op = o

\* The mutex is held exactly by the goroutine that is inside a body.
MutexInv == \A p \in Procs : InCritical(p) <=> mu = p

\* The program counter fits the call, and nothing is answered early.
ControlInv ==
  \A p \in Procs :
    /\ pc[p] # "idle" => call[p] \in Calls
    /\ pc[p] = "idle" => call[p] = NoCall
    /\ pc[p] = "body" => call[p].op \in Stores \cup {"Get", "Exec"}
    /\ pc[p] = "range" => call[p].op \in {"List", "Delete"}
    /\ pc[p] # "range" => frame[p] = NoFrame
    /\ pc[p] # "unlock" => res[p] = Pending

\* The range loops of List and Delete stay in step with the map: List has seen
\* the child names of exactly the entries produced, all of them still there;
\* Delete has left no entry of its subtree behind among those produced.
RangeInv ==
  \A p \in Procs :
    /\ Ranging(p, "List") =>
         /\ frame[p].produced \subseteq Nodes(nodes)
         /\ frame[p].seen = ChildNames(frame[p].produced, Target(call[p]))
    /\ Ranging(p, "Delete") =>
         \A q \in frame[p].produced \cap Nodes(nodes) : ~Inside(q, Target(call[p]))

IInv == TypeOK /\ MutexInv /\ ControlInv /\ RangeInv

-----------------------------------------------------------------------------
(***************************************************************************)
(* The atomic tree this map implements.  A Delete takes effect when it     *)
(* gets the mutex: its result is then decided, and the entries it has yet  *)
(* to remove are already gone.  Every other call takes effect in its body  *)
(* or when its loop ends.                                                  *)
(***************************************************************************)
DeleteResult(p) ==
  IF frame[p].found \/ Subtree(nodes, Target(call[p])) # {} THEN Done ELSE NotFound

treeBar ==
  [q \in Paths |->
     IF \E p \in Procs : Ranging(p, "Delete") /\ Inside(q, Target(call[p]))
     THEN NoValue ELSE nodes[q]]

slotBar ==
  [p \in Procs |->
     [st   |-> IF pc[p] = "idle" THEN "idle"
               ELSE IF pc[p] = "unlock" \/ Ranging(p, "Delete") THEN "done"
               ELSE "called",
      call |-> call[p],
      res  |-> IF Ranging(p, "Delete") THEN DeleteResult(p) ELSE res[p]]]

Tree == INSTANCE CspTree WITH tree <- treeBar, executed <- Executed, slot <- slotBar

\* The map with its mutex and loops implements the atomic tree: calls of any
\* number of goroutines appear one at a time, each between its start and return.
Linearizable == Tree!Spec

\* Only a Delete removes nodes, and only nodes whose segments extend those of its
\* target: the prefix test never takes a sibling whose name merely starts alike.
DeleteStaysInSubtree ==
  [][\A q \in Nodes(nodes) : nodes'[q] = NoValue =>
       \E p \in Procs :
         /\ Ranging(p, "Delete")
         /\ IsPrefix(Segments(Target(call[p])), Segments(q))]_vars

\* Every call that starts returns, however the goroutines contend for the mutex.
CallsReturn == \A p \in Procs : pc[p] = "lock" ~> pc[p] = "idle"

\* client/errors.go:8 says that ErrNotFound is returned when the target of a call
\* does not exist.
MissingIsNotFound ==
  [][\A p \in Procs :
       /\ pc[p] = "body" /\ pc'[p] = "unlock"
       /\ call[p].op = "Replace"
       /\ Subtree(nodes, Target(call[p])) = {}
       => res'[p].err = "ErrNotFound"]_vars

=============================================================================
