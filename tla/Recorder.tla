------------------------------ MODULE Recorder ------------------------------
(***************************************************************************)
(* syncml.Recorder: a queue of operations in a Go slice.  The slice and    *)
(* every slice that Ops has returned are views of backing arrays, and an   *)
(* append writes into the spare room of the array when there is any, so    *)
(* views share memory until the array is outgrown.                         *)
(***************************************************************************)
EXTENDS SyncML

CONSTANTS
  URIs,      \* OMA-URIs
  Payloads,  \* values the caller passes
  MaxOps,    \* bound: operations in the queue
  MaxViews   \* bound: calls of Ops

ASSUME BoundsAssumption == MaxOps \in Nat /\ MaxViews \in Nat

\* The values are made by their constructors.
ASSUME PayloadsAssumption == \A v \in Payloads : Constructed(v)

VARIABLES
  arrays,  \* the backing arrays made so far, each a function on 1..capacity
  ops,     \* the queue: a slice [arr, len], array 0 being none
  views,   \* the slices Ops has returned
  err      \* the error of the last call

vars == <<arrays, ops, views, err>>

ZeroOp == [verb |-> "", uri |-> <<>>, value |-> Zero]

\* The operations a slice shows.
Contents(s) == [i \in 1..s.len |-> arrays[s.arr][i]]

Capacity(s) == IF s.arr = 0 THEN 0 ELSE Len(arrays[s.arr])

\* The capacity append moves to when the array is full: it doubles.
Grown(cap) == IF cap = 0 THEN 1 ELSE 2 * cap

Init ==
  /\ arrays = <<>>
  /\ ops = [arr |-> 0, len |-> 0]
  /\ views = <<>>
  /\ err = "nil"

\* append(s, op): the arrays afterwards, and the slice it returns.
AppendTo(s, op) ==
  IF s.len < Capacity(s)
  THEN [arrays |-> [arrays EXCEPT ![s.arr] = [@ EXCEPT ![s.len + 1] = op]],
        slice  |-> [arr |-> s.arr, len |-> s.len + 1]]
  ELSE [arrays |-> Append(arrays, [i \in 1..Grown(Capacity(s)) |->
                                     IF i <= s.len THEN arrays[s.arr][i]
                                     ELSE IF i = s.len + 1 THEN op ELSE ZeroOp]),
        slice  |-> [arr |-> Len(arrays) + 1, len |-> s.len + 1]]

\* r.ops = append(r.ops, op)
Record(op) ==
  /\ ops.len < MaxOps
  /\ arrays' = AppendTo(ops, op).arrays
  /\ ops' = AppendTo(ops, op).slice
  /\ UNCHANGED views

\* Get and List queue a Get and have nothing to return.
Get(uri) ==
  /\ Record([verb |-> "Get", uri |-> uri, value |-> Zero])
  /\ err' = "ErrDeferred"

\* A List recorded under a verb of its own.
ListVerb(uri) ==
  /\ Record([verb |-> "List", uri |-> uri, value |-> Zero])
  /\ err' = "ErrDeferred"

\* A List that leaves the queue alone.
ListUnqueued(uri) ==
  /\ err' = "ErrDeferred"
  /\ UNCHANGED <<arrays, ops, views>>

List(uri) ==
  /\ Record([verb |-> "Get", uri |-> uri, value |-> Zero])
  /\ err' = "ErrDeferred"

Add(uri, v) ==
  /\ Record([verb |-> "Add", uri |-> uri, value |-> v])
  /\ err' = "nil"

Replace(uri, v) ==
  /\ Record([verb |-> "Replace", uri |-> uri, value |-> v])
  /\ err' = "nil"

Delete(uri) ==
  /\ Record([verb |-> "Delete", uri |-> uri, value |-> Zero])
  /\ err' = "nil"

Exec(uri, v) ==
  /\ Record([verb |-> "Exec", uri |-> uri, value |-> v])
  /\ err' = "nil"

\* Ops returning the slice with its spare room.
OpsFullCapacity ==
  /\ Len(views) < MaxViews
  /\ views' = Append(views, [ops EXCEPT !.len = Capacity(ops)])
  /\ UNCHANGED <<arrays, ops, err>>

\* Ops returns the slice itself.
Ops ==
  /\ Len(views) < MaxViews
  /\ views' = Append(views, ops)
  /\ UNCHANGED <<arrays, ops, err>>

Method ==
  \E uri \in URIs :
    \/ Get(uri) \/ List(uri) \/ Delete(uri)
    \/ \E v \in Payloads : Add(uri, v) \/ Replace(uri, v) \/ Exec(uri, v)

Next == Method \/ Ops

Spec == Init /\ [][Next]_vars

-----------------------------------------------------------------------------
(***************************************************************************)
(* Invariants.                                                             *)
(***************************************************************************)

Commands == [verb  : {"", "Get", "Add", "Replace", "Delete", "Exec"},
             uri   : URIs \cup {<<>>},
             value : Payloads \cup {Zero}]

Slices == [arr : Nat, len : Nat]

\* Every variable has its type: the one type invariant of the module.
TypeOK ==
  /\ arrays \in Seq(Seq(Commands))
  /\ ops \in Slices
  /\ views \in Seq(Slices)
  /\ err \in {"nil", "ErrDeferred"}

\* A slice shows no more than there is.
Sound(s) == s.arr <= Len(arrays) /\ s.len <= Capacity(s)

\* No slice shows more than its array holds, and no view of the array that the
\* queue grows in reaches past the end of the queue: an append to the queue never
\* writes where a view looks.
ViewsBehindQueue ==
  /\ Sound(ops)
  /\ \A k \in 1..Len(views) :
       /\ Sound(views[k])
       /\ views[k].arr = ops.arr => views[k].len <= ops.len

IInv == TypeOK /\ ViewsBehindQueue

-----------------------------------------------------------------------------
\* The calls of client.Client that a program makes on the recorder.
Calls == [op : {"Get", "List", "Delete"}, uri : URIs, value : {Zero}]
           \cup [op : {"Add", "Replace", "Exec"}, uri : URIs, value : Payloads]

Log == INSTANCE CommandLog WITH
         log   <- Contents(ops),
         taken <- [k \in 1..Len(views) |-> Contents(views[k])]

\* The queue is the calls in call order, reads included, and a slice that Ops
\* returned never changes under its reader although it shares the array the queue
\* grows in (syncml.go:120).
RecordsCalls == Log!Spec

\* Document numbers the commands from 1 in queue order, and a device reads back out
\* of each the verb, URI and value that was queued, the empty value where the call
\* carries none (syncml.go:54-94).
DocumentCarriesQueue ==
  LET queue == Contents(ops)
      doc   == Document(queue)
  IN  /\ Len(doc) = Len(queue)
      /\ \A i \in 1..Len(queue) :
           /\ doc[i].id = i
           /\ Received(doc[i]) =
                [queue[i] EXCEPT !.value = IF @ = Zero THEN Null ELSE @]

=============================================================================
