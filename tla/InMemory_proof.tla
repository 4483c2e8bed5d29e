--------------------------- MODULE InMemory_proof ---------------------------
(***************************************************************************)
(* Proofs about InMemory, for any number of goroutines, URIs and values:   *)
(* its invariant, that it implements the atomic tree of CspTree, and that  *)
(* a Delete removes nothing outside its subtree.                           *)
(***************************************************************************)
EXTENDS InMemory, TLAPS

-----------------------------------------------------------------------------
(***************************************************************************)
(* The vocabulary of calls.                                                *)
(***************************************************************************)

\* A call addresses one of the paths of the tree.
LEMMA TargetInPaths ==
  ASSUME NEW c \in Calls
  PROVE  /\ Target(c) \in Paths
         /\ c.op \in Stores \cup Reads \cup {"Exec"}
         /\ c.op \in Stores \cup {"Exec"} => c.val \in Values
BY DEF Calls, Target, Paths, Stores, Reads

\* The pseudo-call of an idle goroutine is no call.
LEMMA NoCallIsNoCall == NoCall \notin Calls
BY DEF NoCall, Calls, Stores, Reads

\* The child names of any paths below a path are names List can return.
LEMMA ChildNamesType ==
  ASSUME NEW t \in Paths, NEW S, S \subseteq Paths
  PROVE  ChildNames(S, t) \subseteq Names
BY DEF ChildNames, Names

\* One more entry adds its own child names: the loop body of List.
LEMMA ChildNamesAdd ==
  ASSUME NEW t, NEW S, NEW q
  PROVE  ChildNames(S \cup {q}, t) = ChildNames(S, t) \cup ChildNames({q}, t)
BY DEF ChildNames

\* No entry, no names.
LEMMA ChildNamesEmpty == \A t : ChildNames({}, t) = {}
BY DEF ChildNames

\* What a method can answer.
LEMMA ResultType ==
  ASSUME NEW e \in {"pending", "nil", "ErrNotFound"},
         NEW v \in Values \cup {NoValue},
         NEW N, N \subseteq Names
  PROVE  Result(e, v, N) \in Results
BY DEF Result, Results

\* The results that name no value are results.
LEMMA FixedResults == Pending \in Results /\ Done \in Results /\ NotFound \in Results
BY ResultType DEF Pending, Done, NotFound

-----------------------------------------------------------------------------
(***************************************************************************)
(* The invariant.                                                          *)
(***************************************************************************)

\* A new tree, seeded and with the mutex free, satisfies the invariant.
LEMMA InitIInv == Init => IInv
<1> SUFFICES ASSUME Init PROVE IInv
  OBVIOUS
<1>1. TypeOK
  BY FixedResults DEF Init, TypeOK, Trees, Frames, NoFrame
<1>2. MutexInv
  BY NoProcAssumption DEF Init, MutexInv, InCritical
<1>3. ControlInv
  BY DEF Init, ControlInv
<1>4. RangeInv
  BY DEF Init, RangeInv, Ranging
<1> QED
  BY <1>1, <1>2, <1>3, <1>4 DEF IInv

\* Every action preserves the types.
LEMMA TypeStep ==
  ASSUME IInv, NEW p \in Procs,
         (\E c \in Calls : Call(p, c)) \/ Lock(p) \/ Work(p)
  PROVE  TypeOK'
<1> USE DEF IInv, TypeOK
<1>1. ASSUME NEW c \in Calls, Call(p, c) PROVE TypeOK'
  BY <1>1 DEF Call
<1>2. CASE Lock(p)
  BY <1>2 DEF Lock
<1>3. CASE Get(p)
  <2>1. call[p] \in Calls /\ Target(call[p]) \in Paths
    BY <1>3, TargetInPaths DEF Get, ControlInv
  <2>2. nodes[Target(call[p])] \in Values \cup {NoValue}
    BY <2>1 DEF Trees
  <2>3. Result("nil", nodes[Target(call[p])], {}) \in Results
    BY <2>2, ResultType
  <2> QED
    BY <1>3, <2>3, FixedResults DEF Get, Finish
<1>4. CASE Store(p)
  <2>1. call[p] \in Calls /\ Target(call[p]) \in Paths /\ call[p].val \in Values
    BY <1>4, TargetInPaths DEF Store, ControlInv
  <2>2. nodes' \in Trees
    BY <1>4, <2>1 DEF Store, Trees
  <2> QED
    BY <1>4, <2>2, FixedResults DEF Store, Finish
<1>5. CASE Exec(p)
  <2>1. call[p] \in Calls /\ Target(call[p]) \in Paths /\ call[p].val \in Values
    BY <1>5, TargetInPaths DEF Exec, ControlInv
  <2>2. ExecCall(call[p]) \in ExecCalls
    BY <2>1 DEF ExecCall, ExecCalls
  <2> QED
    BY <1>5, <2>2, FixedResults DEF Exec, Finish
<1>6. ASSUME NEW path \in Paths, ListStep(p, path) PROVE TypeOK'
  <2>1. call[p] \in Calls /\ Target(call[p]) \in Paths
    BY <1>6, TargetInPaths DEF ListStep, ControlInv
  <2>2. ChildNames({path}, Target(call[p])) \subseteq Names
    BY <2>1, ChildNamesType
  <2>3. frame' \in [Procs -> Frames]
    BY <1>6, <2>2 DEF ListStep, Frames
  <2> QED
    BY <1>6, <2>3 DEF ListStep
<1>7. ASSUME NEW path \in Paths, DeleteStep(p, path) PROVE TypeOK'
  <2>1. nodes' \in Trees
    BY <1>7 DEF DeleteStep, Trees
  <2>2. Inside(path, Target(call[p])) \in BOOLEAN
    BY DEF Inside, Beneath, IsPrefix
  <2>3. frame' \in [Procs -> Frames]
    BY <1>7, <2>2 DEF DeleteStep, Frames
  <2> QED
    BY <1>7, <2>1, <2>3 DEF DeleteStep
<1>8. CASE ListDone(p)
  <2>1. frame[p].seen \subseteq Names
    BY DEF Frames
  <2>2. Result("nil", NoValue, frame[p].seen) \in Results
    BY <2>1, ResultType
  <2>3. NoFrame \in Frames
    BY DEF NoFrame, Frames
  <2> QED
    BY <1>8, <2>2, <2>3 DEF ListDone, Finish
<1>9. CASE DeleteDone(p)
  <2>1. NoFrame \in Frames
    BY DEF NoFrame, Frames
  <2> QED
    BY <1>9, <2>1, FixedResults DEF DeleteDone, Finish
<1>10. CASE Return(p)
  BY <1>10, FixedResults DEF Return
<1> QED
  BY <1>1, <1>2, <1>3, <1>4, <1>5, <1>6, <1>7, <1>8, <1>9, <1>10 DEF Work

\* Nobody enters a body while another goroutine is in one.
LEMMA MutexStep ==
  ASSUME IInv, NEW p \in Procs,
         (\E c \in Calls : Call(p, c)) \/ Lock(p) \/ Work(p)
  PROVE  MutexInv'
<1> USE NoProcAssumption DEF IInv, TypeOK, MutexInv, InCritical
<1>1. ASSUME NEW c \in Calls, Call(p, c) PROVE MutexInv'
  BY <1>1 DEF Call
<1>2. CASE Lock(p)
  BY <1>2 DEF Lock
<1>3. CASE Get(p) \/ Store(p) \/ Exec(p) \/ ListDone(p) \/ DeleteDone(p)
  BY <1>3 DEF Get, Store, Exec, ListDone, DeleteDone, Finish
<1>4. ASSUME NEW path \in Paths, ListStep(p, path) \/ DeleteStep(p, path)
      PROVE  MutexInv'
  BY <1>4 DEF ListStep, DeleteStep
<1>5. CASE Return(p)
  BY <1>5 DEF Return
<1> QED
  BY <1>1, <1>2, <1>3, <1>4, <1>5 DEF Work

\* The program counter keeps fitting the call.
LEMMA ControlStep ==
  ASSUME IInv, NEW p \in Procs,
         (\E c \in Calls : Call(p, c)) \/ Lock(p) \/ Work(p)
  PROVE  ControlInv'
<1> USE DEF IInv, TypeOK, ControlInv
<1>1. ASSUME NEW c \in Calls, Call(p, c) PROVE ControlInv'
  BY <1>1 DEF Call
<1>2. CASE Lock(p)
  <2>1. call[p] \in Calls /\ call[p].op \in Stores \cup Reads \cup {"Exec"}
    BY <1>2, TargetInPaths DEF Lock
  <2> QED
    BY <1>2, <2>1 DEF Lock, Stores, Reads
<1>3. CASE Get(p) \/ Store(p) \/ Exec(p)
  BY <1>3 DEF Get, Store, Exec, Finish
<1>4. ASSUME NEW path \in Paths, ListStep(p, path) \/ DeleteStep(p, path)
      PROVE  ControlInv'
  BY <1>4 DEF ListStep, DeleteStep
<1>5. CASE ListDone(p) \/ DeleteDone(p)
  BY <1>5 DEF ListDone, DeleteDone, Finish
<1>6. CASE Return(p)
  BY <1>6, NoCallIsNoCall DEF Return
<1> QED
  BY <1>1, <1>2, <1>3, <1>4, <1>5, <1>6 DEF Work

\* The loops stay in step with the map; of a goroutine that has left its loop
\* nothing is asked.
LEMMA RangeStep ==
  ASSUME IInv, NEW p \in Procs,
         (\E c \in Calls : Call(p, c)) \/ Lock(p) \/ Work(p)
  PROVE  RangeInv'
<1> USE DEF IInv, TypeOK
<1>1. ASSUME NEW c \in Calls, Call(p, c) PROVE RangeInv'
  BY <1>1 DEF Call, RangeInv, Ranging
<1>2. CASE Lock(p)
  <2>1. frame[p].produced = {} /\ frame[p].seen = {}
    BY <1>2 DEF Lock, ControlInv, NoFrame
  <2>2. ChildNames({}, Target(call[p])) = {}
    BY ChildNamesEmpty
  <2> QED
    BY <1>2, <2>1, <2>2 DEF Lock, RangeInv, Ranging
<1>3. CASE Get(p) \/ Store(p) \/ Exec(p) \/ ListDone(p) \/ DeleteDone(p) \/ Return(p)
  <2>1. InCritical(p)
    BY <1>3 DEF Get, Store, Exec, ListDone, DeleteDone, Return, InCritical
  <2>2. pc' = [pc EXCEPT ![p] = pc'[p]] /\ pc'[p] \in {"unlock", "idle"}
    BY <1>3 DEF Get, Store, Exec, ListDone, DeleteDone, Return, Finish
  <2>3. \A r \in Procs, o \in {"List", "Delete"} : ~Ranging(r, o)'
    <3>1. \A r \in Procs : r # p => pc[r] # "range"
      BY <2>1 DEF MutexInv, InCritical
    <3> QED
      BY <2>2, <3>1 DEF Ranging
  <2> QED
    BY <2>3 DEF RangeInv
<1>4. ASSUME NEW path \in Paths, ListStep(p, path) PROVE RangeInv'
  <2>1. \A r \in Procs : r # p => pc[r] # "range"
    BY <1>4 DEF ListStep, MutexInv, InCritical
  <2>2. /\ frame'[p].produced = frame[p].produced \cup {path}
        /\ frame'[p].seen = frame[p].seen \cup ChildNames({path}, Target(call[p]))
    BY <1>4 DEF ListStep, Frames
  <2>3. Ranging(p, "List") /\ path \in Nodes(nodes)
    BY <1>4 DEF ListStep, Ranging, Remaining
  <2>4. frame'[p].produced \subseteq Nodes(nodes)
    BY <2>2, <2>3 DEF RangeInv
  <2>5. frame'[p].seen = ChildNames(frame'[p].produced, Target(call[p]))
    <3>1. frame[p].seen = ChildNames(frame[p].produced, Target(call[p]))
      BY <2>3 DEF RangeInv
    <3>2. ChildNames(frame[p].produced \cup {path}, Target(call[p])) =
            ChildNames(frame[p].produced, Target(call[p]))
              \cup ChildNames({path}, Target(call[p]))
      BY ChildNamesAdd
    <3> QED
      BY <2>2, <3>1, <3>2
  <2>6. UNCHANGED <<nodes, pc, call>> /\ call[p].op = "List"
    BY <1>4 DEF ListStep
  <2> QED
    BY <2>1, <2>4, <2>5, <2>6 DEF RangeInv, Ranging
<1>5. ASSUME NEW path \in Paths, DeleteStep(p, path) PROVE RangeInv'
  <2>1. \A r \in Procs : r # p => pc[r] # "range"
    BY <1>5 DEF DeleteStep, MutexInv, InCritical
  <2>2. frame'[p].produced = frame[p].produced \cup {path}
    BY <1>5 DEF DeleteStep, Frames
  <2>3. Nodes(nodes') \subseteq Nodes(nodes)
    BY <1>5 DEF DeleteStep, Nodes, Trees
  <2>4. Inside(path, Target(call[p])) => path \notin Nodes(nodes')
    BY <1>5 DEF DeleteStep, Nodes, Trees
  <2>5. \A q \in frame'[p].produced \cap Nodes(nodes') : ~Inside(q, Target(call[p]))
    BY <1>5, <2>2, <2>3, <2>4 DEF DeleteStep, RangeInv, Ranging
  <2>6. UNCHANGED <<pc, call>> /\ call[p].op = "Delete"
    BY <1>5 DEF DeleteStep
  <2> QED
    BY <2>1, <2>5, <2>6 DEF RangeInv, Ranging
<1> QED
  BY <1>1, <1>2, <1>3, <1>4, <1>5 DEF Work

\* The invariant holds in every reachable state: types, mutual exclusion, the
\* control flow of the methods and the loops in step with the map.
THEOREM Invariance == Spec => []IInv
<1>1. IInv /\ [Next]_vars => IInv'
  <2> SUFFICES ASSUME IInv, [Next]_vars PROVE IInv'
    OBVIOUS
  <2>1. CASE UNCHANGED vars
    BY <2>1 DEF vars, IInv, TypeOK, MutexInv, InCritical, ControlInv, RangeInv,
                Ranging
  <2>2. CASE Next
    BY <2>2, TypeStep, MutexStep, ControlStep, RangeStep DEF Next, IInv
  <2> QED
    BY <2>1, <2>2
<1> QED
  BY InitIInv, <1>1, PTL DEF Spec

\* The invariants the runs check one by one.
THEOREM TypeCorrect == Spec => []TypeOK
BY Invariance, PTL DEF IInv

-----------------------------------------------------------------------------
(***************************************************************************)
(* The map with its mutex implements the atomic tree: every step of        *)
(* InMemory is a step of CspTree or leaves its variables alone.  Both      *)
(* modules speak of calls in the same words.                               *)
(***************************************************************************)

\* URIs mean the same in the instance of CspTree as here.
LEMMA SameUris ==
  /\ \A u : Tree!Norm(u) = Norm(u)
  /\ \A q, t : Tree!Inside(q, t) = Inside(q, t)
  /\ \A S, t : Tree!ChildNames(S, t) = ChildNames(S, t)
  /\ \A N : Tree!SortStrings(N) = SortStrings(N)
<1>1. \A u : Tree!Norm(u) = Norm(u)
  BY DEF Tree!Norm, Norm, Tree!Sep, Sep, Max, Tree!Max
<1>2. \A q, t : Tree!Beneath(q, t) = Beneath(q, t)
  BY DEF Tree!Beneath, Beneath, Tree!Sep, Sep, Tree!IsPrefix, IsPrefix
<1>3. \A q, t : Tree!ChildName(q, t) = ChildName(q, t)
  BY DEF Tree!ChildName, ChildName, Tree!Sep, Sep, Tree!Min, Min
<1>4. \A N : Tree!SortStrings(N) = SortStrings(N)
  BY DEF Tree!SortStrings, SortStrings, Tree!Cardinality, Cardinality,
         Tree!StringLess, StringLess
<1> QED
  BY <1>1, <1>2, <1>3, <1>4 DEF Tree!Inside, Inside, Tree!ChildNames, ChildNames

\* So do calls and results.
LEMMA SameCalls ==
  /\ Tree!Paths = Paths
  /\ Tree!Calls = Calls
  /\ Tree!NoCall = NoCall
  /\ Tree!Stores = Stores
  /\ \A c : Tree!Target(c) = Target(c)
  /\ \A c : Tree!ExecCall(c) = ExecCall(c)
  /\ \A e, v, N : Tree!Result(e, v, N) = Result(e, v, N)
  /\ Tree!Pending = Pending /\ Tree!Done = Done /\ Tree!NotFound = NotFound
BY SameUris DEF Tree!Paths, Paths, Tree!Calls, Calls, Tree!NoCall, NoCall,
     Tree!Stores, Stores, Tree!Reads, Reads, Tree!Target, Target, Tree!ExecCall,
     ExecCall, Tree!Result, Result, Tree!Pending, Pending, Tree!Done, Done,
     Tree!NotFound, NotFound

\* And so do sets of nodes.
LEMMA SameNodes ==
  /\ \A t : Tree!Nodes(t) = Nodes(t)
  /\ \A t, g : Tree!Subtree(t, g) = Subtree(t, g)
  /\ \A t, g : Tree!WithoutSubtree(t, g) = WithoutSubtree(t, g)
BY SameUris, SameCalls DEF Tree!Nodes, Nodes, Tree!Subtree, Subtree,
     Tree!WithoutSubtree, WithoutSubtree

-----------------------------------------------------------------------------
(***************************************************************************)
(* What a step of one goroutine does to the mapped variables.              *)
(***************************************************************************)

\* While no Delete is under way the abstract tree is the map itself.
LEMMA TreeIsMap ==
  ASSUME TypeOK, \A r \in Procs : ~Ranging(r, "Delete")
  PROVE  treeBar = nodes
BY DEF TypeOK, Trees, treeBar

\* A goroutine that holds the mutex is the only one in a loop.
LEMMA Alone ==
  ASSUME IInv, NEW p \in Procs, InCritical(p) \/ mu = NoProc
  PROVE  \A r \in Procs \ {p} : \A o : ~Ranging(r, o)
BY NoProcAssumption DEF IInv, MutexInv, InCritical, Ranging

\* A step of p leaves the slots of the others as they were, unless it changes the
\* map under a Delete of theirs.
LEMMA OtherSlots ==
  ASSUME IInv, NEW p \in Procs,
         \A r \in Procs \ {p} : /\ pc'[r] = pc[r]
                                /\ call'[r] = call[r]
                                /\ res'[r] = res[r]
                                /\ frame'[r] = frame[r],
         nodes' = nodes \/ InCritical(p)
  PROVE  /\ slotBar' = [slotBar EXCEPT ![p] = slotBar'[p]]
         /\ \A r \in Procs \ {p} : \A o : Ranging(r, o)' <=> Ranging(r, o)
<1>1. \A r \in Procs \ {p} : \A o : Ranging(r, o)' <=> Ranging(r, o)
  BY DEF Ranging
<1>2. \A r \in Procs \ {p} : slotBar'[r] = slotBar[r]
  <2>1. CASE nodes' = nodes
    BY <2>1, <1>1 DEF slotBar, DeleteResult
  <2>2. CASE InCritical(p)
    <3>1. \A r \in Procs \ {p} : ~Ranging(r, "Delete") /\ ~Ranging(r, "Delete")'
      BY <2>2, <1>1, Alone
    <3> QED
      BY <3>1 DEF slotBar
  <2> QED
    BY <2>1, <2>2
<1>3. slotBar' = [slotBar EXCEPT ![p] = slotBar'[p]]
  <2>1. /\ slotBar = [r \in Procs |-> slotBar[r]]
        /\ slotBar' = [r \in Procs |-> slotBar'[r]]
    BY DEF slotBar
  <2> QED
    BY <1>2, <2>1
<1> QED
  BY <1>1, <1>3

-----------------------------------------------------------------------------
(***************************************************************************)
(* One lemma per kind of step.                                             *)
(***************************************************************************)

\* A call starts: Invoke of the atomic tree.
LEMMA CallRefines ==
  ASSUME IInv, NEW p \in Procs, NEW c \in Calls, Call(p, c)
  PROVE  Tree!Invoke(p, c)
<1> USE DEF IInv, TypeOK
<1>1. slotBar' = [slotBar EXCEPT ![p] = slotBar'[p]]
  BY OtherSlots DEF Call
<1>2. slotBar[p].st = "idle"
  BY DEF Call, slotBar
<1>3. slotBar'[p] = [st |-> "called", call |-> c, res |-> Pending]
  BY DEF Call, slotBar, Ranging, ControlInv
<1>4. treeBar' = treeBar /\ Executed' = Executed
  BY DEF Call, treeBar, Ranging
<1> QED
  BY <1>1, <1>2, <1>3, <1>4, SameCalls DEF Tree!Invoke

\* Locking is invisible, except that a Delete takes effect: from then on its
\* subtree counts as gone, and its result is decided.
LEMMA LockRefines ==
  ASSUME IInv, IInv', NEW p \in Procs, Lock(p)
  PROVE  Tree!TakeEffect(p, call[p]) \/ UNCHANGED <<treeBar, Executed, slotBar>>
<1> USE DEF IInv, TypeOK
<1>1. /\ slotBar' = [slotBar EXCEPT ![p] = slotBar'[p]]
      /\ \A r \in Procs \ {p} : \A o : Ranging(r, o)' <=> Ranging(r, o)
  BY OtherSlots DEF Lock
<1>2. \A r \in Procs : ~Ranging(r, "Delete")
  BY Alone DEF Lock, Ranging
<1>3. treeBar = nodes
  BY <1>2, TreeIsMap
<1>4. slotBar[p] = [st |-> "called", call |-> call[p], res |-> Pending]
  BY DEF Lock, slotBar, Ranging, ControlInv
<1>5. UNCHANGED <<nodes, Executed, call, res, frame>>
  BY DEF Lock
<1>6. CASE call[p].op = "Delete"
  <2>1. Ranging(p, "Delete")'
    BY <1>6 DEF Lock, Ranging
  <2>2. \A r \in Procs : Ranging(r, "Delete")' <=> r = p
    BY <1>1, <1>2, <2>1
  <2>3. treeBar' = WithoutSubtree(nodes, Target(call[p]))
    BY <1>5, <2>2 DEF treeBar, WithoutSubtree
  <2>4. frame[p].found = FALSE
    BY DEF Lock, ControlInv, NoFrame
  <2>5. slotBar'[p] =
          [st |-> "done", call |-> call[p],
           res |-> IF Subtree(nodes, Target(call[p])) = {} THEN NotFound ELSE Done]
    BY <1>5, <2>1, <2>4 DEF Lock, slotBar, DeleteResult
  <2>6. Tree!Answer(call[p], nodes) =
          IF Subtree(nodes, Target(call[p])) = {} THEN NotFound ELSE Done
    BY <1>6, SameCalls, SameNodes DEF Tree!Answer
  <2>7. Tree!Effect(call[p], nodes) = WithoutSubtree(nodes, Target(call[p]))
    BY <1>6, SameCalls, SameNodes DEF Tree!Effect, Stores
  <2> QED
    BY <1>1, <1>3, <1>4, <1>5, <1>6, <2>3, <2>5, <2>6, <2>7 DEF Tree!TakeEffect
<1>7. CASE call[p].op # "Delete"
  <2>1. \A r \in Procs : ~Ranging(r, "Delete")'
    BY <1>1, <1>2, <1>5, <1>7 DEF Ranging
  <2>2. treeBar' = treeBar
    BY <1>2, <1>5, <2>1 DEF treeBar
  <2>3. slotBar'[p] = slotBar[p]
    BY <1>4, <1>5, <1>7, <2>1 DEF Lock, slotBar, ControlInv
  <2>4. slotBar' = slotBar
    BY <1>1, <2>3 DEF slotBar
  <2> QED
    BY <1>5, <2>2, <2>4
<1> QED
  BY <1>6, <1>7

\* The body of a call that has no loop over the map, or the end of List's loop:
\* the call takes effect.
LEMMA BodyRefines ==
  ASSUME IInv, NEW p \in Procs, Get(p) \/ Store(p) \/ Exec(p) \/ ListDone(p)
  PROVE  Tree!TakeEffect(p, call[p])
<1> USE DEF IInv, TypeOK
<1> DEFINE c == call[p]
<1>1. InCritical(p) /\ ~Ranging(p, "Delete")
  BY DEF Get, Store, Exec, ListDone, InCritical, Ranging
<1>2. \A r \in Procs : ~Ranging(r, "Delete")
  BY <1>1, Alone
<1>3. /\ slotBar' = [slotBar EXCEPT ![p] = slotBar'[p]]
      /\ \A r \in Procs \ {p} : \A o : Ranging(r, o)' <=> Ranging(r, o)
  BY <1>1, OtherSlots DEF Get, Store, Exec, ListDone, Finish
<1>4. pc' = [pc EXCEPT ![p] = "unlock"] /\ call' = call
  BY DEF Get, Store, Exec, ListDone, Finish
<1>5. \A r \in Procs : ~Ranging(r, "Delete")'
  BY <1>2, <1>3, <1>4 DEF Ranging
<1>6. treeBar = nodes
  BY <1>2, TreeIsMap
<1>7. nodes' \in Trees
  <2>1. CASE Store(p)
    <3>1. Target(c) \in Paths /\ c.val \in Values
      BY <2>1, TargetInPaths DEF Store, ControlInv
    <3> QED
      BY <2>1, <3>1 DEF Store, Trees
  <2> QED
    BY <2>1 DEF Get, Exec, ListDone
<1>8. treeBar' = nodes'
  BY <1>5, <1>7 DEF treeBar, Trees
<1>9. slotBar[p].st = "called" /\ slotBar[p].call = c
  BY <1>1 DEF slotBar, Get, Store, Exec, ListDone
<1>10. slotBar'[p] = [st |-> "done", call |-> c, res |-> res'[p]]
  BY <1>4, <1>5 DEF slotBar
<1>11. res'[p] = Tree!Answer(c, nodes)
  <2>1. CASE Get(p)
    BY <2>1, SameCalls DEF Get, Finish, Tree!Answer
  <2>2. CASE Store(p)
    BY <2>2, SameCalls DEF Store, Finish, Tree!Answer, Stores
  <2>3. CASE Exec(p)
    BY <2>3, SameCalls DEF Exec, Finish, Tree!Answer
  <2>4. CASE ListDone(p)
    <3>1. frame[p].produced = Nodes(nodes)
      BY <2>4 DEF ListDone, Remaining, RangeInv, Ranging
    <3>2. frame[p].seen = ChildNames(Nodes(nodes), Target(c))
      BY <2>4, <3>1 DEF ListDone, RangeInv, Ranging
    <3> QED
      BY <2>4, <3>2, SameCalls, SameNodes, SameUris DEF ListDone, Finish, Tree!Answer
  <2> QED
    BY <2>1, <2>2, <2>3, <2>4
<1>12. nodes' = Tree!Effect(c, nodes)
  <2>1. CASE Store(p)
    BY <2>1, SameCalls DEF Store, Tree!Effect, Stores
  <2>2. CASE Get(p) \/ Exec(p) \/ ListDone(p)
    BY <2>2, SameCalls DEF Get, Exec, ListDone, Tree!Effect, Stores
  <2> QED
    BY <2>1, <2>2
<1>13. Executed' = IF c.op = "Exec" THEN Append(Executed, Tree!ExecCall(c)) ELSE Executed
  BY SameCalls DEF Get, Store, Exec, ListDone, Stores
<1> QED
  BY <1>3, <1>6, <1>8, <1>9, <1>10, <1>11, <1>12, <1>13 DEF Tree!TakeEffect

\* Removing an entry of a subtree that already counts as gone is invisible.
LEMMA DeleteStepRefines ==
  ASSUME IInv, NEW p \in Procs, NEW path \in Paths, DeleteStep(p, path)
  PROVE  UNCHANGED <<treeBar, Executed, slotBar>>
<1> USE DEF IInv, TypeOK
<1>1. /\ slotBar' = [slotBar EXCEPT ![p] = slotBar'[p]]
      /\ \A r \in Procs \ {p} : \A o : Ranging(r, o)' <=> Ranging(r, o)
  BY OtherSlots DEF DeleteStep, InCritical
<1>2. Ranging(p, "Delete") /\ Ranging(p, "Delete")'
  BY DEF DeleteStep, Ranging
<1>3. \A r \in Procs : Ranging(r, "Delete")' <=> Ranging(r, "Delete")
  BY <1>1, <1>2
<1>4. UNCHANGED <<Executed, pc, call, res>>
  BY DEF DeleteStep
<1>5. \A q \in Paths : ~Inside(q, Target(call[p])) => nodes'[q] = nodes[q]
  BY DEF DeleteStep, Trees
<1>6. treeBar' = treeBar
  <2>1. \A q \in Paths : treeBar'[q] = treeBar[q]
    BY <1>2, <1>3, <1>4, <1>5 DEF treeBar
  <2> QED
    BY <2>1 DEF treeBar
<1>7. DeleteResult(p)' = DeleteResult(p)
  <2>1. CASE Inside(path, Target(call[p]))
    <3>1. path \in Subtree(nodes, Target(call[p]))
      BY <2>1 DEF DeleteStep, Remaining, Nodes, Subtree
    <3>2. frame'[p].found
      BY <2>1 DEF DeleteStep, Frames
    <3> QED
      BY <3>1, <3>2 DEF DeleteResult
  <2>2. CASE ~Inside(path, Target(call[p]))
    <3>1. frame'[p].found = frame[p].found /\ nodes' = nodes
      BY <2>2 DEF DeleteStep, Frames
    <3> QED
      BY <1>4, <3>1 DEF DeleteResult
  <2> QED
    BY <2>1, <2>2
<1>8. slotBar'[p] = slotBar[p]
  BY <1>2, <1>4, <1>7 DEF slotBar
<1> QED
  BY <1>1, <1>4, <1>6, <1>8 DEF slotBar

\* At the end of Delete's loop nothing of the subtree is left, so the map is what
\* the atomic tree has been all along, and the result is the one decided.
LEMMA DeleteDoneRefines ==
  ASSUME IInv, NEW p \in Procs, DeleteDone(p)
  PROVE  UNCHANGED <<treeBar, Executed, slotBar>>
<1> USE DEF IInv, TypeOK
<1>1. /\ slotBar' = [slotBar EXCEPT ![p] = slotBar'[p]]
      /\ \A r \in Procs \ {p} : \A o : Ranging(r, o)' <=> Ranging(r, o)
  BY OtherSlots DEF DeleteDone, Finish
<1>2. Ranging(p, "Delete")
  BY DEF DeleteDone, Ranging
<1>3. \A r \in Procs : Ranging(r, "Delete") <=> r = p
  BY <1>2, Alone DEF InCritical, Ranging
<1>4. \A r \in Procs : ~Ranging(r, "Delete")'
  BY <1>1, <1>3 DEF DeleteDone, Finish, Ranging
<1>5. Nodes(nodes) \subseteq frame[p].produced
  BY DEF DeleteDone, Remaining
<1>6. \A q \in Nodes(nodes) : ~Inside(q, Target(call[p]))
  BY <1>2, <1>5 DEF RangeInv
<1>7. UNCHANGED <<nodes, Executed, call>>
  BY DEF DeleteDone, Finish
<1>8. \A q \in Paths : Inside(q, Target(call[p])) => nodes[q] = NoValue
  BY <1>6 DEF Nodes
<1>9. treeBar' = treeBar
  BY <1>3, <1>4, <1>7, <1>8 DEF treeBar
<1>10. Subtree(nodes, Target(call[p])) = {}
  BY <1>6 DEF Subtree
<1>11. slotBar'[p] = slotBar[p]
  BY <1>2, <1>4, <1>7, <1>10 DEF DeleteDone, Finish, slotBar, DeleteResult
<1> QED
  BY <1>1, <1>7, <1>9, <1>11 DEF slotBar

\* The deferred unlock is the return of the atomic tree.
LEMMA ReturnRefines ==
  ASSUME IInv, NEW p \in Procs, Return(p)
  PROVE  Tree!Return(p)
<1> USE DEF IInv, TypeOK
<1>1. /\ slotBar' = [slotBar EXCEPT ![p] = slotBar'[p]]
      /\ \A r \in Procs \ {p} : \A o : Ranging(r, o)' <=> Ranging(r, o)
  BY OtherSlots DEF Return
<1>2. \A r \in Procs : Ranging(r, "Delete")' <=> Ranging(r, "Delete")
  BY <1>1 DEF Return, Ranging
<1>3. UNCHANGED <<nodes, Executed>> /\ \A r \in Procs \ {p} : call'[r] = call[r]
  BY DEF Return
<1>4. ~Ranging(p, "Delete")
  BY DEF Return, Ranging
<1>5. treeBar' = treeBar
  BY <1>2, <1>3, <1>4 DEF treeBar
<1>6. slotBar[p].st = "done"
  BY DEF Return, slotBar
<1>7. slotBar'[p] = [st |-> "idle", call |-> NoCall, res |-> Pending]
  BY DEF Return, slotBar, Ranging
<1> QED
  BY <1>1, <1>3, <1>5, <1>6, <1>7, SameCalls DEF Tree!Return, Tree!Idle

\* InMemory is linearizable: its behaviours are behaviours of the atomic tree,
\* for any number of goroutines and calls.
THEOREM Linearizability == Spec => Linearizable
<1>1. Init => Tree!Init
  <2> SUFFICES ASSUME Init PROVE Tree!Init
    OBVIOUS
  <2>1. \A r \in Procs : ~Ranging(r, "Delete")
    BY DEF Init, Ranging
  <2>2. treeBar = [q \in Paths |-> NoValue]
    BY <2>1, InitIInv, TreeIsMap DEF Init, IInv
  <2>3. slotBar = [r \in Procs |-> [st |-> "idle", call |-> NoCall, res |-> Pending]]
    BY <2>1 DEF Init, slotBar
  <2> QED
    BY <2>2, <2>3, SameCalls DEF Init, Tree!Init, Tree!Idle
<1>2. IInv /\ IInv' /\ [Next]_vars => [Tree!Next]_(Tree!vars)
  <2> SUFFICES ASSUME IInv, IInv', [Next]_vars
               PROVE  Tree!Next \/ UNCHANGED Tree!vars
    OBVIOUS
  <2>1. CASE UNCHANGED vars
    BY <2>1 DEF vars, Tree!vars, treeBar, slotBar, Ranging, DeleteResult
  <2>2. ASSUME NEW p \in Procs, NEW c \in Calls, Call(p, c) PROVE Tree!Next
    BY <2>2, CallRefines, SameCalls DEF Tree!Next
  <2>3. ASSUME NEW p \in Procs, call[p] \in Calls, Tree!TakeEffect(p, call[p])
        PROVE  Tree!Next
    BY <2>3, SameCalls DEF Tree!Next
  <2>4. ASSUME NEW p \in Procs, Lock(p) PROVE Tree!Next \/ UNCHANGED Tree!vars
    <3>1. call[p] \in Calls
      BY <2>4 DEF Lock, IInv, ControlInv
    <3> QED
      BY <2>3, <2>4, <3>1, LockRefines DEF Tree!vars
  <2>5. ASSUME NEW p \in Procs, Get(p) \/ Store(p) \/ Exec(p) \/ ListDone(p)
        PROVE  Tree!Next
    <3>1. call[p] \in Calls
      BY <2>5 DEF Get, Store, Exec, ListDone, IInv, ControlInv
    <3> QED
      BY <2>3, <2>5, <3>1, BodyRefines
  <2>6. ASSUME NEW p \in Procs, NEW path \in Paths, ListStep(p, path)
        PROVE  UNCHANGED Tree!vars
    <3>1. \A r \in Procs : Ranging(r, "Delete")' <=> Ranging(r, "Delete")
      BY <2>6 DEF ListStep, Ranging
    <3>2. \A r \in Procs \ {p} : frame'[r] = frame[r]
      BY <2>6 DEF ListStep, IInv, TypeOK
    <3>3. ~Ranging(p, "Delete")
      BY <2>6 DEF ListStep, Ranging
    <3>4. slotBar' = slotBar
      BY <2>6, <3>1, <3>2, <3>3 DEF ListStep, slotBar, DeleteResult
    <3> QED
      BY <2>6, <3>1, <3>4 DEF ListStep, treeBar, Tree!vars
  <2>7. ASSUME NEW p \in Procs, NEW path \in Paths, DeleteStep(p, path)
        PROVE  UNCHANGED Tree!vars
    BY <2>7, DeleteStepRefines DEF Tree!vars
  <2>8. ASSUME NEW p \in Procs, DeleteDone(p) PROVE UNCHANGED Tree!vars
    BY <2>8, DeleteDoneRefines DEF Tree!vars
  <2>9. ASSUME NEW p \in Procs, Return(p) PROVE Tree!Next
    BY <2>9, ReturnRefines DEF Tree!Next
  <2> QED
    BY <2>1, <2>2, <2>4, <2>5, <2>6, <2>7, <2>8, <2>9 DEF Next, Work
<1> QED
  BY <1>1, <1>2, Invariance, PTL DEF Spec, Linearizable, Tree!Spec

-----------------------------------------------------------------------------
(***************************************************************************)
(* What a Delete removes.  The lemmas about texts are those of Text_proof; *)
(* its variables and bounds stand for nothing.                             *)
(***************************************************************************)

\* Lengths are of no account to the lemmas about texts.
NoBound == [k \in {"uri", "name", "xml", "value"} |-> 0]

Texts == INSTANCE Text_proof WITH
           kind <- "uri", path <- <<>>, target <- <<>>, Reserved <- {}, IntBits <- 64,
           MaxLen <- NoBound

\* What that module assumes of its constants.
LEMMA TextsApply ==
  /\ \A k \in DOMAIN Texts!Chars : NoBound[k] \in Nat
  /\ 64 \in Nat \ {0}
  /\ {} \subseteq Seq(Nat) /\ \A w \in {} : w \o Texts!NameText \notin {}
BY DEF Texts!Chars, NoBound

\* Texts mean the same in the instance as here.
LEMMA SameTexts ==
  /\ Texts!Text = Seq(Nat)
  /\ \A s : Texts!Segments(s) = Segments(s)
  /\ \A u : Texts!Norm(u) = Norm(u)
  /\ \A q, t : Texts!Inside(q, t) = Inside(q, t)
  /\ \A s, t : Texts!IsPrefix(s, t) = IsPrefix(s, t)
<1>1. Texts!Text = Seq(Nat)
  BY DEF Texts!Text
<1>2. \A s : Texts!Segments(s) = Segments(s)
  BY DEF Texts!Segments, Segments, Texts!Sep, Sep
<1>3. \A u : Texts!Norm(u) = Norm(u)
  BY DEF Texts!Norm, Norm, Texts!Sep, Sep, Max, Texts!Max
<1>4. \A s, t : Texts!IsPrefix(s, t) = IsPrefix(s, t)
  BY DEF Texts!IsPrefix, IsPrefix
<1>5. \A q, t : Texts!Beneath(q, t) = Beneath(q, t)
  BY DEF Texts!Beneath, Beneath, Texts!Sep, Sep, Texts!IsPrefix, IsPrefix
<1> QED
  BY <1>1, <1>2, <1>3, <1>4, <1>5 DEF Texts!Inside, Inside

\* Keys are texts.
LEMMA PathsAreTexts == Paths \subseteq Seq(Nat)
<1> SUFFICES ASSUME NEW u \in Uris PROVE Norm(u) \in Seq(Nat)
  BY DEF Paths
<1>1. u \in Texts!Text
  BY UrisAssumption, SameTexts
<1>2. Texts!Norm(u) \in Texts!Text
  BY <1>1, Texts!NormTwice, TextsApply
<1> QED
  BY <1>2, SameTexts

\* What Delete takes for its target or a path below it extends the target by segments.
LEMMA InsideBySegments ==
  ASSUME NEW q \in Paths, NEW t \in Paths, Inside(q, t)
  PROVE  IsPrefix(Segments(t), Segments(q))
<1>1. q \in Texts!Text /\ t \in Texts!Text
  BY PathsAreTexts, SameTexts
<1>2. Texts!Inside(q, t) <=> Texts!IsPrefix(Texts!Segments(t), Texts!Segments(q))
  BY <1>1, Texts!TestsBySegments, TextsApply
<1> QED
  BY <1>2, SameTexts

\* Nodes vanish only while a Delete ranges, and only those whose segments extend its
\* target's, for any URIs: a sibling with a longer name stays (clienttest.go:100).
THEOREM DeletesInside == Spec => DeleteStaysInSubtree
<1> DEFINE Warranted(q) ==
             nodes'[q] = NoValue =>
               \E p \in Procs :
                 /\ Ranging(p, "Delete")
                 /\ IsPrefix(Segments(Target(call[p])), Segments(q))
<1>1. ASSUME IInv, [Next]_vars, NEW q \in Nodes(nodes)
      PROVE  Warranted(q)
  <2> USE <1>1
  <2>1. q \in Paths /\ nodes[q] # NoValue
    BY DEF Nodes
  <2>2. CASE UNCHANGED nodes
    BY <2>1, <2>2
  <2>3. ASSUME NEW p \in Procs, Store(p) PROVE nodes'[q] # NoValue
    <3>1. call[p].val \in Values /\ Target(call[p]) \in Paths
      BY <2>3, TargetInPaths DEF Store, IInv, ControlInv
    <3>2. nodes' = [nodes EXCEPT ![Target(call[p])] = call[p].val] /\ nodes \in Trees
      BY <2>3 DEF Store, IInv, TypeOK
    <3> QED
      BY <2>1, <3>1, <3>2, NoValueAssumption DEF Trees
  <2>4. ASSUME NEW p \in Procs, NEW path \in Paths, DeleteStep(p, path) PROVE Warranted(q)
    <3>1. Ranging(p, "Delete") /\ Target(call[p]) \in Paths
      BY <2>4, TargetInPaths DEF DeleteStep, Ranging, IInv, ControlInv
    <3>2. nodes' = IF Inside(path, Target(call[p])) THEN [nodes EXCEPT ![path] = NoValue]
                   ELSE nodes
      BY <2>4 DEF DeleteStep
    <3>3. nodes \in Trees
      BY DEF IInv, TypeOK
    <3>4. nodes'[q] = NoValue => q = path /\ Inside(q, Target(call[p]))
      BY <2>1, <3>2, <3>3 DEF Trees
    <3>5. Inside(q, Target(call[p])) => IsPrefix(Segments(Target(call[p])), Segments(q))
      BY <2>1, <3>1, InsideBySegments
    <3> QED
      BY <3>1, <3>4, <3>5
  <2>5. UNCHANGED nodes
        \/ \E p \in Procs : Store(p) \/ \E path \in Paths : DeleteStep(p, path)
    BY DEF Next, vars, Call, Lock, Work, Get, Exec, ListStep, ListDone, DeleteDone, Return
  <2> QED
    BY <2>2, <2>3, <2>4, <2>5
<1>2. IInv /\ [Next]_vars =>
        [\A q \in Nodes(nodes) : nodes'[q] = NoValue =>
           \E p \in Procs :
             /\ Ranging(p, "Delete")
             /\ IsPrefix(Segments(Target(call[p])), Segments(q))]_vars
  BY <1>1
<1> QED
  BY <1>2, Invariance, PTL DEF Spec, DeleteStaysInSubtree

=============================================================================
