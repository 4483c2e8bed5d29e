--------------------------- MODULE Recorder_proof ---------------------------
(***************************************************************************)
(* Proofs about Recorder, for any URIs and values and any length of the    *)
(* queue: views stay behind the queue, so it implements the log of calls.  *)
(***************************************************************************)
EXTENDS Recorder, SequenceTheorems, TLAPS

-----------------------------------------------------------------------------
(***************************************************************************)
(* append.                                                                 *)
(***************************************************************************)

\* An array that is full is replaced by a longer one.
LEMMA GrownIsMore == \A cap \in Nat : Grown(cap) \in Nat /\ cap + 1 <= Grown(cap)
BY DEF Grown

\* The arrays and the slice r after appending op to s: one cell is written, behind
\* the end of s or in a new array, and the slice shows s and the new operation.
WritesBehind(s, op, r) ==
  /\ r.arrays \in Seq(Seq(Commands))
  /\ Len(arrays) <= Len(r.arrays)
  /\ r.slice \in Slices
  /\ r.slice.len = s.len + 1
  /\ r.slice.arr \in 1..Len(r.arrays)
  /\ r.slice.arr = s.arr \/ r.slice.arr > Len(arrays)
  /\ r.slice.len <= Len(r.arrays[r.slice.arr])
  /\ r.arrays[r.slice.arr][s.len + 1] = op
  /\ \A i \in 1..s.len : r.arrays[r.slice.arr][i] = arrays[s.arr][i]
  /\ \A a \in 1..Len(arrays) :
       /\ Len(r.arrays[a]) = Len(arrays[a])
       /\ \A i \in 1..Len(arrays[a]) :
            a # s.arr \/ i # s.len + 1 => r.arrays[a][i] = arrays[a][i]

\* append does just that.
LEMMA AppendWritesBehind ==
  ASSUME arrays \in Seq(Seq(Commands)), NEW s \in Slices, Sound(s), NEW op \in Commands
  PROVE  WritesBehind(s, op, AppendTo(s, op))
<1> DEFINE r == AppendTo(s, op)
<1> SUFFICES WritesBehind(s, op, r)
  OBVIOUS
<1>0. s.arr \in Nat /\ s.len \in Nat /\ Capacity(s) \in Nat /\ s.len <= Capacity(s)
  BY DEF Slices, Sound, Capacity
<1>1. CASE s.len < Capacity(s)
  <2>1. s.arr \in 1..Len(arrays) /\ arrays[s.arr] \in Seq(Commands)
    BY <1>0, <1>1 DEF Capacity, Sound
  <2>2. s.len + 1 \in 1..Len(arrays[s.arr])
    BY <1>0, <1>1 DEF Capacity
  <2> DEFINE new == [arrays[s.arr] EXCEPT ![s.len + 1] = op]
  <2>3. new \in Seq(Commands) /\ Len(new) = Len(arrays[s.arr])
    BY <2>1, <2>2
  <2>4. r.arrays = [arrays EXCEPT ![s.arr] = new] /\ r.slice = [arr |-> s.arr, len |-> s.len + 1]
    BY <1>1 DEF AppendTo
  <2>5. r.arrays \in Seq(Seq(Commands)) /\ Len(r.arrays) = Len(arrays)
    BY <2>1, <2>3, <2>4
  <2>6. r.arrays[s.arr] = new /\ \A a \in 1..Len(arrays) : a # s.arr => r.arrays[a] = arrays[a]
    BY <2>1, <2>4
  <2>7. new[s.len + 1] = op /\ \A i \in 1..Len(arrays[s.arr]) : i # s.len + 1 => new[i] = arrays[s.arr][i]
    BY <2>1, <2>2
  <2> HIDE DEF new, r
  <2>8. r.slice.arr = s.arr /\ r.slice.len = s.len + 1 /\ r.slice \in Slices
    BY <1>0, <2>4 DEF Slices
  <2>9. /\ r.slice.len <= Len(r.arrays[r.slice.arr])
        /\ r.arrays[r.slice.arr][s.len + 1] = op
        /\ \A i \in 1..s.len : r.arrays[r.slice.arr][i] = arrays[s.arr][i]
    <3>1. 1..s.len \subseteq 1..Len(arrays[s.arr]) /\ s.len + 1 \notin 1..s.len
      BY <1>0, <2>2
    <3>2. r.arrays[r.slice.arr] = new
      BY <2>6, <2>8
    <3>3. s.len + 1 <= Len(new)
      BY <2>2, <2>3
    <3>4. \A i \in 1..s.len : new[i] = arrays[s.arr][i]
      BY <2>7, <3>1
    <3> QED
      BY <2>7, <2>8, <3>2, <3>3, <3>4
  <2>10. \A a \in 1..Len(arrays) :
           /\ Len(r.arrays[a]) = Len(arrays[a])
           /\ \A i \in 1..Len(arrays[a]) :
                a # s.arr \/ i # s.len + 1 => r.arrays[a][i] = arrays[a][i]
    BY <2>3, <2>6, <2>7
  <2>11. Len(arrays) <= Len(r.arrays) /\ r.slice.arr \in 1..Len(r.arrays)
    BY <2>1, <2>5, <2>8
  <2> QED
    BY <2>5, <2>8, <2>9, <2>10, <2>11 DEF WritesBehind
<1>2. CASE s.len = Capacity(s)
  <2> DEFINE cap == Grown(Capacity(s))
             new == [i \in 1..cap |-> IF i <= s.len THEN arrays[s.arr][i]
                                      ELSE IF i = s.len + 1 THEN op ELSE ZeroOp]
  <2>1. cap \in Nat /\ s.len + 1 <= cap
    BY <1>0, <1>2, GrownIsMore
  <2>2. ZeroOp \in Commands
    BY DEF ZeroOp, Commands
  <2>3. \A i \in 1..s.len : arrays[s.arr][i] \in Commands
    <3>1. CASE s.arr = 0
      BY <1>0, <1>2, <3>1 DEF Capacity
    <3>2. CASE s.arr # 0
      BY <1>0, <1>2, <3>2 DEF Capacity, Sound
    <3> QED
      BY <3>1, <3>2
  <2>4. new \in Seq(Commands) /\ Len(new) = cap
    <3>1. new \in [1..cap -> Commands]
      BY <1>0, <2>1, <2>2, <2>3
    <3> HIDE DEF new, cap
    <3> QED
      BY <2>1, <3>1
  <2>5. /\ r.arrays = Append(arrays, new)
        /\ r.slice = [arr |-> Len(arrays) + 1, len |-> s.len + 1]
    BY <1>0, <1>2 DEF AppendTo
  <2>6. new[s.len + 1] = op /\ \A i \in 1..s.len : new[i] = arrays[s.arr][i]
    BY <1>0, <2>1
  <2> HIDE DEF new, cap, r
  <2>7. r.arrays \in Seq(Seq(Commands)) /\ Len(r.arrays) = Len(arrays) + 1
    BY <2>4, <2>5
  <2>8. r.arrays[Len(arrays) + 1] = new /\ \A a \in 1..Len(arrays) : r.arrays[a] = arrays[a]
    BY <2>4, <2>5
  <2>9. Len(arrays) \in Nat
    OBVIOUS
  <2>10. r.slice.arr = Len(arrays) + 1 /\ r.slice.len = s.len + 1 /\ r.slice \in Slices
    BY <1>0, <2>5, <2>9 DEF Slices
  <2>11. /\ r.slice.len <= Len(r.arrays[r.slice.arr])
         /\ r.arrays[r.slice.arr][s.len + 1] = op
         /\ \A i \in 1..s.len : r.arrays[r.slice.arr][i] = arrays[s.arr][i]
    BY <2>1, <2>4, <2>6, <2>8, <2>10
  <2>12. \A a \in 1..Len(arrays) : r.arrays[a] = arrays[a]
    BY <2>8
  <2>13. /\ Len(arrays) <= Len(r.arrays)
         /\ r.slice.arr \in 1..Len(r.arrays)
         /\ r.slice.arr > Len(arrays)
    BY <2>7, <2>9, <2>10
  <2> QED
    BY <2>7, <2>10, <2>11, <2>12, <2>13 DEF WritesBehind
<1> QED
  BY <1>0, <1>1, <1>2

-----------------------------------------------------------------------------
(***************************************************************************)
(* The invariant.                                                          *)
(***************************************************************************)

\* Every method queues one command and answers one of two errors.
MethodRecords ==
  \E c \in Calls :
    /\ Record(Log!CommandOf(c))
    /\ err' = IF c.op \in {"Get", "List"} THEN "ErrDeferred" ELSE "nil"

\* The six methods, read as one.
LEMMA MethodIsRecord == Method => MethodRecords
<1> SUFFICES ASSUME NEW uri \in URIs,
                    \/ Get(uri) \/ List(uri) \/ Delete(uri)
                    \/ \E v \in Payloads : Add(uri, v) \/ Replace(uri, v) \/ Exec(uri, v)
             PROVE  MethodRecords
  BY DEF Method
<1> DEFINE C(o, v) == [op |-> o, uri |-> uri, value |-> v]
<1>1. \A o \in {"Get", "List", "Delete"} : C(o, Zero) \in Calls
  BY DEF Calls
<1>2. \A o \in {"Add", "Replace", "Exec"}, v \in Payloads : C(o, v) \in Calls
  BY DEF Calls
<1>3. CASE Get(uri)
  <2>1. Log!CommandOf(C("Get", Zero)) = [verb |-> "Get", uri |-> uri, value |-> Zero]
    BY DEF Log!CommandOf, Log!Reads
  <2> QED
    BY <1>1, <1>3, <2>1 DEF Get, MethodRecords
<1>4. CASE List(uri)
  <2>1. Log!CommandOf(C("List", Zero)) = [verb |-> "Get", uri |-> uri, value |-> Zero]
    BY DEF Log!CommandOf, Log!Reads
  <2> QED
    BY <1>1, <1>4, <2>1 DEF List, MethodRecords
<1>5. CASE Delete(uri)
  <2>1. Log!CommandOf(C("Delete", Zero)) = [verb |-> "Delete", uri |-> uri, value |-> Zero]
    BY DEF Log!CommandOf, Log!Reads
  <2> QED
    BY <1>1, <1>5, <2>1 DEF Delete, MethodRecords
<1>6. ASSUME NEW v \in Payloads, Add(uri, v) \/ Replace(uri, v) \/ Exec(uri, v)
      PROVE  MethodRecords
  <2>1. \A o \in {"Add", "Replace", "Exec"} :
          Log!CommandOf(C(o, v)) = [verb |-> o, uri |-> uri, value |-> v]
    BY DEF Log!CommandOf, Log!Reads
  <2>2. CASE Add(uri, v)
    BY <1>2, <2>1, <2>2 DEF Add, MethodRecords
  <2>3. CASE Replace(uri, v)
    BY <1>2, <2>1, <2>3 DEF Replace, MethodRecords
  <2>4. CASE Exec(uri, v)
    BY <1>2, <2>1, <2>4 DEF Exec, MethodRecords
  <2> QED
    BY <1>6, <2>2, <2>3, <2>4
<1> QED
  BY <1>3, <1>4, <1>5, <1>6

\* A call stands for a command the recorder can queue.
LEMMA CommandType == \A c \in Calls : Log!CommandOf(c) \in Commands
BY DEF Calls, Commands, Log!CommandOf, Log!Reads

\* A new recorder has no array and no views.
LEMMA InitIInv == Init => IInv
BY DEF Init, IInv, TypeOK, Slices, ViewsBehindQueue, Sound, Capacity

\* Queueing an operation leaves every view behind the queue.
LEMMA RecordStep ==
  ASSUME IInv, MethodRecords
  PROVE  IInv'
<1> USE DEF IInv, TypeOK
<1>1. PICK c \in Calls : /\ Record(Log!CommandOf(c))
                         /\ err' \in {"nil", "ErrDeferred"}
  BY DEF MethodRecords
<1> DEFINE op == Log!CommandOf(c)
           r  == AppendTo(ops, op)
<1>2. op \in Commands
  BY CommandType
<1>3. WritesBehind(ops, op, r)
  BY <1>2, AppendWritesBehind DEF ViewsBehindQueue
<1>4. arrays' = r.arrays /\ ops' = r.slice /\ views' = views
  BY <1>1 DEF Record
<1> HIDE DEF op, r
<1>5. TypeOK'
  BY <1>1, <1>3, <1>4 DEF WritesBehind
<1>6. Sound(ops)'
  BY <1>3, <1>4 DEF WritesBehind, Sound, Capacity, Slices
<1>7. ASSUME NEW k \in 1..Len(views)
      PROVE  /\ Sound(views[k])'
             /\ views[k].arr = ops'.arr => views[k].len <= ops'.len
  <2>1. views[k].arr \in Nat /\ views[k].len \in Nat /\ ops.len \in Nat /\ ops.arr \in Nat
    <3>1. views[k] \in Slices /\ ops \in Slices
      OBVIOUS
    <3> QED
      BY <3>1 DEF Slices
  <2>2. Sound(views[k]) /\ (views[k].arr = ops.arr => views[k].len <= ops.len)
    BY DEF ViewsBehindQueue
  <2>3. Capacity(views[k])' = Capacity(views[k])
    <3>1. CASE views[k].arr = 0
      BY <1>4, <3>1 DEF Capacity
    <3>2. CASE views[k].arr # 0
      <4>1. views[k].arr \in 1..Len(arrays)
        BY <2>1, <2>2, <3>2 DEF Sound
      <4> QED
        BY <1>3, <1>4, <3>2, <4>1 DEF Capacity, WritesBehind
    <3> QED
      BY <3>1, <3>2
  <2>4. Sound(views[k])'
    BY <1>3, <1>4, <2>1, <2>2, <2>3 DEF Sound, WritesBehind
  <2>5. views[k].arr = ops'.arr => views[k].len <= ops'.len
    BY <1>3, <1>4, <2>1, <2>2 DEF WritesBehind, Sound
  <2> QED
    BY <2>4, <2>5
<1>8. ViewsBehindQueue'
  BY <1>4, <1>6, <1>7 DEF ViewsBehindQueue
<1> QED
  BY <1>5, <1>8

\* A slice that Ops hands out is the queue itself.
LEMMA OpsStep ==
  ASSUME IInv, Ops
  PROVE  IInv'
<1> USE DEF IInv, TypeOK
<1>1. views' = Append(views, ops) /\ UNCHANGED <<arrays, ops, err>>
  BY DEF Ops
<1>2. TypeOK'
  BY <1>1
<1>3. \A k \in 1..Len(views') : views'[k] = ops \/ (k \in 1..Len(views) /\ views'[k] = views[k])
  BY <1>1
<1>4. ops.len <= ops.len
  BY DEF Slices
<1>5. Sound(ops)' /\ \A s : Sound(s)' <=> Sound(s)
  BY <1>1 DEF ViewsBehindQueue, Sound, Capacity
<1>6. ASSUME NEW k \in 1..Len(views')
      PROVE  /\ Sound(views'[k])
             /\ views'[k].arr = ops.arr => views'[k].len <= ops.len
  BY <1>3, <1>4 DEF ViewsBehindQueue
<1>7. ViewsBehindQueue'
  BY <1>1, <1>5, <1>6 DEF ViewsBehindQueue
<1> QED
  BY <1>2, <1>7

\* In every reachable state the views are behind the queue.
THEOREM Invariance == Spec => []IInv
<1>1. IInv /\ [Next]_vars => IInv'
  <2> SUFFICES ASSUME IInv, [Next]_vars PROVE IInv'
    OBVIOUS
  <2>1. CASE UNCHANGED vars
    BY <2>1 DEF vars, IInv, TypeOK, ViewsBehindQueue, Sound, Capacity
  <2>2. CASE Method
    BY <2>2, MethodIsRecord, RecordStep
  <2>3. CASE Ops
    BY <2>3, OpsStep
  <2> QED
    BY <2>1, <2>2, <2>3 DEF Next
<1> QED
  BY InitIInv, <1>1, PTL DEF Spec

\* Every variable keeps its type, the arrays above all: each holds commands only.
THEOREM TypeCorrect == Spec => []TypeOK
BY Invariance, PTL DEF IInv

\* No append to the queue writes where a slice returned by Ops looks.
THEOREM ViewsAreSafe == Spec => []ViewsBehindQueue
BY Invariance, PTL DEF IInv

-----------------------------------------------------------------------------
(***************************************************************************)
(* The queue implements the log of calls.                                  *)
(***************************************************************************)

\* A function on 1..n is a sequence.
LEMMA FunctionIsSeq ==
  ASSUME NEW S, NEW n \in Nat, NEW f \in [1..n -> S]
  PROVE  f \in Seq(S) /\ Len(f) = n
OBVIOUS

\* What a slice shows is a sequence of commands.
LEMMA ContentsType ==
  ASSUME arrays \in Seq(Seq(Commands)), NEW s \in Slices, Sound(s)
  PROVE  Contents(s) \in Seq(Commands) /\ Len(Contents(s)) = s.len
<1>1. s.arr \in Nat /\ s.len \in Nat
  BY DEF Slices
<1>2. ASSUME NEW i \in 1..s.len PROVE arrays[s.arr][i] \in Commands
  <2>1. s.arr \in 1..Len(arrays)
    BY <1>1 DEF Sound, Capacity
  <2>2. arrays[s.arr] \in Seq(Commands)
    BY <2>1
  <2>3. i \in 1..Len(arrays[s.arr])
    BY <1>1, <2>1 DEF Sound, Capacity
  <2> QED
    BY <2>2, <2>3, ElementOfSeq
<1>3. Contents(s) \in [1..s.len -> Commands]
  BY <1>2 DEF Contents
<1> QED
  BY <1>1, <1>3, FunctionIsSeq

\* A view shows the same before and after an append to the queue.
LEMMA ViewsKeep ==
  ASSUME IInv, NEW op \in Commands, WritesBehind(ops, op, AppendTo(ops, op)),
         arrays' = AppendTo(ops, op).arrays, views' = views,
         NEW k \in 1..Len(views)
  PROVE  Contents(views[k])' = Contents(views[k])
<1> USE DEF IInv, TypeOK
<1>1. views[k].arr \in Nat /\ views[k].len \in Nat /\ ops.len \in Nat /\ ops.arr \in Nat
  <2>1. views[k] \in Slices /\ ops \in Slices
    OBVIOUS
  <2> QED
    BY <2>1 DEF Slices
<1>2. Sound(views[k]) /\ (views[k].arr = ops.arr => views[k].len <= ops.len)
  BY DEF ViewsBehindQueue
<1>3. ASSUME NEW i \in 1..views[k].len
      PROVE  arrays'[views[k].arr][i] = arrays[views[k].arr][i]
  <2>1. views[k].arr # 0
    BY <1>1, <1>2 DEF Sound, Capacity
  <2>2. views[k].arr \in 1..Len(arrays) /\ i \in 1..Len(arrays[views[k].arr])
    BY <1>1, <1>2, <2>1 DEF Sound, Capacity
  <2>3. views[k].arr # ops.arr \/ i # ops.len + 1
    BY <1>1, <1>2
  <2> QED
    BY <2>2, <2>3 DEF WritesBehind
<1> QED
  BY <1>3 DEF Contents

\* Recorder implements CommandLog: the queue is the calls in call order, and what
\* Ops returned never changes.
THEOREM Refinement == Spec => RecordsCalls
<1> DEFINE taken == [k \in 1..Len(views) |-> Contents(views[k])]
<1>1. Init => Log!Init
  BY DEF Init, Log!Init, Contents
<1>2. ASSUME IInv, MethodRecords, views' = views
      PROVE  Log!Next
  <2> USE DEF IInv, TypeOK
  <2>1. PICK c \in Calls : /\ Record(Log!CommandOf(c))
                           /\ err' = IF c.op \in {"Get", "List"} THEN "ErrDeferred" ELSE "nil"
    BY <1>2 DEF MethodRecords
  <2> DEFINE op == Log!CommandOf(c)
             r  == AppendTo(ops, op)
  <2>2. op \in Commands
    BY CommandType
  <2>3. WritesBehind(ops, op, r)
    BY <1>2, <2>2, AppendWritesBehind DEF ViewsBehindQueue
  <2>4. arrays' = r.arrays /\ ops' = r.slice
    BY <2>1 DEF Record
  <2>5. taken' = taken
    BY <1>2, <2>2, <2>3, <2>4, ViewsKeep
  <2> HIDE DEF op, r
  <2>6. ops.len \in Nat
    BY <1>2 DEF Slices
  <2>7. Contents(ops)' = Append(Contents(ops), op)
    <3>1. Contents(ops)' = [i \in 1..ops.len + 1 |-> arrays'[ops'.arr][i]]
      BY <2>3, <2>4 DEF Contents, WritesBehind
    <3>2. \A i \in 1..ops.len : arrays'[ops'.arr][i] = arrays[ops.arr][i]
      BY <2>3, <2>4 DEF WritesBehind
    <3>3. arrays'[ops'.arr][ops.len + 1] = op
      BY <2>3, <2>4 DEF WritesBehind
    <3>4. Contents(ops) \in Seq(Commands) /\ Len(Contents(ops)) = ops.len
      BY <1>2, ContentsType DEF ViewsBehindQueue
    <3>5. \A i \in 1..ops.len : Contents(ops)[i] = arrays[ops.arr][i]
      BY DEF Contents
    <3> DEFINE new == [i \in 1..ops.len + 1 |-> arrays'[ops'.arr][i]]
               app == Append(Contents(ops), op)
    <3>6. /\ app \in Seq(Commands) /\ Len(app) = ops.len + 1
          /\ app[ops.len + 1] = op
          /\ \A i \in 1..ops.len : app[i] = Contents(ops)[i]
      BY <2>2, <2>6, <3>4
    <3>7. \A i \in 1..ops.len + 1 : i \in 1..ops.len \/ i = ops.len + 1
      BY <2>6
    <3>8. \A i \in 1..ops.len + 1 : new[i] = app[i]
      BY <3>2, <3>3, <3>5, <3>6, <3>7
    <3> HIDE DEF app
    <3>9. new \in [1..ops.len + 1 -> Commands]
      BY <2>6, <3>6, <3>8, ElementOfSeq
    <3> HIDE DEF new
    <3>10. new \in Seq(Commands) /\ Len(new) = ops.len + 1
      BY <2>6, <3>9
    <3>11. new = app
      BY <3>6, <3>8, <3>10, SeqEqual
    <3> QED
      BY <3>1, <3>11 DEF new, app
  <2>8. Log!Queue(c)
    BY <2>1, <2>5, <2>7 DEF Log!Queue, Log!Reads, op
  <2> QED
    BY <2>8 DEF Log!Next
<1>3. ASSUME IInv, Ops PROVE Log!Take
  <2> USE DEF IInv, TypeOK
  <2>1. views' = Append(views, ops) /\ UNCHANGED <<arrays, ops, err>>
    BY <1>3 DEF Ops
  <2>2. Contents(ops)' = Contents(ops)
    BY <2>1 DEF Contents
  <2>3. /\ Len(views') = Len(views) + 1 /\ Len(views) \in Nat
        /\ views'[Len(views) + 1] = ops
        /\ \A k \in 1..Len(views) : views'[k] = views[k]
    BY <1>3, <2>1
  <2>4. taken' = Append(taken, Contents(ops))
    <3> DEFINE app == Append(taken, Contents(ops))
    <3>1. Contents(ops) \in Seq(Commands) /\ taken \in Seq(Seq(Commands)) /\ Len(taken) = Len(views)
      <4>1. \A k \in 1..Len(views) : Contents(views[k]) \in Seq(Commands)
        BY <1>3, ContentsType DEF ViewsBehindQueue
      <4>2. taken \in [1..Len(views) -> Seq(Commands)]
        BY <4>1
      <4>3. Contents(ops) \in Seq(Commands)
        BY <1>3, ContentsType DEF ViewsBehindQueue
      <4> QED
        BY <2>3, <4>2, <4>3
    <3>2. \A k \in 1..Len(views) : taken[k] = Contents(views[k])
      OBVIOUS
    <3>3. taken' = [k \in 1..Len(views) + 1 |-> IF k = Len(views) + 1 THEN Contents(ops)
                                                ELSE Contents(views[k])]
      <4>1. \A k \in 1..Len(views) + 1 :
              [i \in 1..views'[k].len |-> arrays[views'[k].arr][i]] =
                IF k = Len(views) + 1 THEN Contents(ops) ELSE Contents(views[k])
        <5>1. \A k \in 1..Len(views) + 1 : k = Len(views) + 1 \/ k \in 1..Len(views)
          BY <2>3
        <5> QED
          BY <2>3, <5>1 DEF Contents
      <4>2. taken' = [k \in 1..Len(views) + 1 |->
                        [i \in 1..views'[k].len |-> arrays[views'[k].arr][i]]]
        BY <2>1, <2>3 DEF Contents
      <4> HIDE DEF taken
      <4> QED
        BY <4>1, <4>2
    <3> HIDE DEF taken
    <3>4. /\ app \in Seq(Seq(Commands)) /\ Len(app) = Len(views) + 1
          /\ app[Len(views) + 1] = Contents(ops)
          /\ \A k \in 1..Len(views) : app[k] = taken[k]
      BY <2>3, <3>1
    <3>5. \A k \in 1..Len(views) + 1 : k \in 1..Len(views) \/ k = Len(views) + 1
      BY <2>3
    <3> DEFINE new == [k \in 1..Len(views) + 1 |-> IF k = Len(views) + 1 THEN Contents(ops)
                                                    ELSE Contents(views[k])]
    <3>6. \A k \in 1..Len(views) + 1 : new[k] = app[k]
      BY <2>3, <3>2, <3>4, <3>5
    <3> HIDE DEF app
    <3>7. new \in [1..Len(views) + 1 -> Seq(Commands)]
      BY <2>3, <3>4, <3>6, ElementOfSeq
    <3>8. taken' = new
      BY <3>3
    <3> HIDE DEF new
    <3>9. new \in Seq(Seq(Commands)) /\ Len(new) = Len(views) + 1
      BY <2>3, <3>7
    <3>10. new = app
      BY <3>4, <3>6, <3>9, SeqEqual
    <3> QED
      BY <3>8, <3>10 DEF app
  <2> QED
    BY <2>1, <2>2, <2>4 DEF Log!Take
<1>4. IInv /\ [Next]_vars => [Log!Next]_(Log!vars)
  <2> SUFFICES ASSUME IInv, [Next]_vars
               PROVE  Log!Next \/ UNCHANGED Log!vars
    OBVIOUS
  <2>1. CASE UNCHANGED vars
    BY <2>1 DEF vars, Log!vars, Contents
  <2>2. CASE Method
    <3>1. views' = views
      BY <2>2 DEF Method, Get, List, Delete, Add, Replace, Exec, Record
    <3> QED
      BY <1>2, <2>2, <3>1, MethodIsRecord
  <2>3. CASE Ops
    BY <1>3, <2>3 DEF Log!Next
  <2> QED
    BY <2>1, <2>2, <2>3 DEF Next
<1> QED
  BY <1>1, <1>4, Invariance, PTL DEF Spec, RecordsCalls, Log!Spec

-----------------------------------------------------------------------------
(***************************************************************************)
(* What a device reads out of the queue's document.                        *)
(***************************************************************************)

\* The commands calls stand for.
Queued == {Log!CommandOf(c) : c \in Calls}

\* The queue holds nothing else: no cell that append has only made room in.
QueueIsCalls == \A i \in 1..ops.len : arrays[ops.arr][i] \in Queued

\* Rendering a call's command and reading it back changes nothing but a value that is
\* not sent, which comes back as null.
LEMMA CommandReadsBack ==
  ASSUME NEW op \in Queued, NEW i
  PROVE  Received(WriteOp(i, op)) = [op EXCEPT !.value = IF @ = Zero THEN Null ELSE @]
<1>1. PICK c \in Calls : op = Log!CommandOf(c)
  BY DEF Queued
<1>2. /\ op = [verb |-> op.verb, uri |-> op.uri, value |-> op.value]
      /\ op.verb \in {"Get", "Add", "Replace", "Delete", "Exec"}
      /\ \/ op.verb \in {"Get", "Delete"} /\ op.value = Zero
         \/ op.verb \notin {"Get", "Delete"} /\ op.value \in Payloads
  <2>1. CASE c.op \in {"Get", "List", "Delete"}
    BY <1>1, <2>1 DEF Log!CommandOf, Log!Reads
  <2>2. CASE c.op \in {"Add", "Replace", "Exec"} /\ c.value \in Payloads
    BY <1>1, <2>2 DEF Log!CommandOf, Log!Reads
  <2> QED
    BY <2>1, <2>2 DEF Calls
<1> DEFINE cmd == WriteOp(i, op)
           v   == op.value
<1>3. cmd.verb = op.verb /\ cmd.uri = op.uri
  BY DEF WriteOp
<1>4. CASE op.verb \in {"Get", "Delete"} /\ v = Zero
  <2>1. cmd.format = <<>> /\ cmd.data = <<>>
    BY <1>4 DEF WriteOp, Opt, HasPayloadMeta, HasData
  <2> QED
    BY <1>2, <1>3, <1>4, <2>1 DEF Received, Null
<1>5. CASE op.verb \notin {"Get", "Delete"} /\ v \in Payloads
  <2>1. /\ v = [format |-> v.format, data |-> v.data] /\ v.format # ""
        /\ v.format \in {"null", "node"} => v.data = <<>>
    BY <1>5, PayloadsAssumption DEF Constructed
  <2>2. v # Zero
    <3>1. Zero.format = ""
      BY DEF Zero
    <3> QED
      BY <2>1, <3>1
  <2>3. Received(cmd).value = v
    <3>1. CASE v.format = "null"
      BY <2>1, <3>1 DEF WriteOp, Opt, HasPayloadMeta, HasData, Received
    <3>2. CASE v.format = "node"
      <4>1. cmd.format = <<"node">> /\ cmd.data = <<>>
        BY <1>5, <3>2 DEF WriteOp, Opt, HasPayloadMeta, HasData
      <4> QED
        BY <2>1, <3>2, <4>1 DEF Received
    <3>3. CASE v.format \notin {"null", "node"}
      <4>1. cmd.format = <<v.format>> /\ cmd.data = <<v.data>>
        BY <1>5, <2>1, <3>3 DEF WriteOp, Opt, HasPayloadMeta, HasData
      <4> HIDE DEF cmd, v
      <4>2. Received(cmd).value = [format |-> v.format, data |-> v.data]
        BY <4>1 DEF Received
      <4> QED
        BY <2>1, <4>2
    <3> QED
      BY <3>1, <3>2, <3>3
  <2> QED
    BY <1>2, <1>3, <2>2, <2>3 DEF Received
<1> QED
  BY <1>2, <1>4, <1>5

\* A method queues a call's command, and moves those before it at most.
LEMMA RecordQueuesCall ==
  ASSUME IInv, QueueIsCalls, MethodRecords
  PROVE  QueueIsCalls'
<1> USE DEF IInv, TypeOK
<1>1. PICK c \in Calls : Record(Log!CommandOf(c))
  BY DEF MethodRecords
<1> DEFINE op == Log!CommandOf(c)
           r  == AppendTo(ops, op)
<1>2. op \in Commands /\ op \in Queued
  BY CommandType DEF Queued
<1>3. WritesBehind(ops, op, r)
  BY <1>2, AppendWritesBehind DEF ViewsBehindQueue
<1>4. arrays' = r.arrays /\ ops' = r.slice
  BY <1>1 DEF Record
<1> HIDE DEF op, r
<1>5. ops.len \in Nat
  BY DEF Slices
<1>6. ASSUME NEW i \in 1..ops'.len PROVE arrays'[ops'.arr][i] \in Queued
  <2>1. i \in 1..ops.len \/ i = ops.len + 1
    <3>1. ops'.len = ops.len + 1
      BY <1>3, <1>4 DEF WritesBehind
    <3> QED
      BY <1>5, <1>6, <3>1
  <2> QED
    BY <1>2, <1>3, <1>4, <2>1 DEF WritesBehind, QueueIsCalls
<1>7. Queued' = Queued
  BY DEF Queued, Log!CommandOf, Calls
<1> QED
  BY <1>6, <1>7 DEF QueueIsCalls

\* The document of the queue reads back as the queue, however the arrays behind it have
\* been outgrown (syncml.go:54-94).
THEOREM DocumentReadsBack == Spec => []DocumentCarriesQueue
<1>1. Init => QueueIsCalls
  BY DEF Init, QueueIsCalls
<1>2. IInv /\ QueueIsCalls /\ [Next]_vars => QueueIsCalls'
  <2> SUFFICES ASSUME IInv, QueueIsCalls, [Next]_vars PROVE QueueIsCalls'
    OBVIOUS
  <2>1. CASE Ops \/ UNCHANGED vars
    BY <2>1 DEF Ops, vars, QueueIsCalls, Queued
  <2>2. CASE Method
    BY <2>2, MethodIsRecord, RecordQueuesCall
  <2> QED
    BY <2>1, <2>2 DEF Next
<1>3. IInv /\ QueueIsCalls => DocumentCarriesQueue
  <2> SUFFICES ASSUME IInv, QueueIsCalls PROVE DocumentCarriesQueue
    OBVIOUS
  <2> DEFINE queue == Contents(ops)
             doc   == Document(queue)
  <2>1. Len(queue) = ops.len /\ ops.len \in Nat
    BY ContentsType DEF IInv, TypeOK, ViewsBehindQueue, Slices
  <2>2. Len(doc) = ops.len /\ \A i \in 1..ops.len : doc[i] = WriteOp(i, queue[i])
    BY <2>1 DEF Document
  <2>3. \A i \in 1..ops.len : queue[i] \in Queued
    BY DEF Contents, QueueIsCalls
  <2> HIDE DEF queue, doc
  <2>4. \A i \in 1..ops.len : doc[i].id = i
    <3>1. \A i, op : WriteOp(i, op).id = i
      BY DEF WriteOp
    <3> QED
      BY <2>2, <3>1
  <2>5. \A i \in 1..ops.len :
          Received(doc[i]) = [queue[i] EXCEPT !.value = IF @ = Zero THEN Null ELSE @]
    BY <2>2, <2>3, CommandReadsBack
  <2> QED
    BY <2>1, <2>2, <2>4, <2>5 DEF DocumentCarriesQueue, queue, doc
<1> QED
  BY <1>1, <1>2, <1>3, Invariance, PTL DEF Spec

=============================================================================
