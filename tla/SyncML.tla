------------------------------- MODULE SyncML -------------------------------
(***************************************************************************)
(* The wire format: the commands a batch of operations is rendered to, and *)
(* what is read out of a device's response.  Text is abstract: a document  *)
(* is the sequence of its commands, a response its Status and Results      *)
(* elements.  An element that may be missing is a sequence of at most one. *)
(***************************************************************************)
EXTENDS OmaUri

\* The values of client.Value{}, Null() and Node(); text is a sequence.
Zero == [format |-> "", data |-> <<>>]
Null == [format |-> "null", data |-> <<>>]
Node == [format |-> "node", data |-> <<>>]

\* A value as the constructors of client.Value make it: it has a format, and a text
\* unless it is null or a container.
Constructed(v) ==
  /\ v = [format |-> v.format, data |-> v.data] /\ v.data \in Text
  /\ v.format # ""
  /\ v.format \in {"null", "node"} => v.data = <<>>

\* The element, if the condition holds.
Opt(present, x) == IF present THEN <<x>> ELSE <<>>

-----------------------------------------------------------------------------
(***************************************************************************)
(* Rendering.                                                              *)
(***************************************************************************)

\* Meta only where there is data: a container is created without its format.
HasPayloadMetaNoNode(op) ==
  /\ op.verb \notin {"Get", "Delete"}
  /\ op.value.format \notin {"", "null", "node"}

HasPayloadMeta(op) ==
  /\ op.verb \notin {"Get", "Delete"}
  /\ op.value.format \notin {"", "null"}

HasData(op) == HasPayloadMeta(op) /\ op.value.format # "node"

WriteOp(id, op) ==
  [id |-> id, verb |-> op.verb, uri |-> op.uri,
   format |-> Opt(HasPayloadMeta(op), op.value.format),
   data   |-> Opt(HasData(op), op.value.data)]

\* CmdIDs counted from zero, as the loop variable is.
DocumentFromZero(ops) == [i \in 1..Len(ops) |-> WriteOp(i - 1, ops[i])]

\* The commands of the SyncBody, in order.
Document(ops) == [i \in 1..Len(ops) |-> WriteOp(i, ops[i])]

\* What a device reads in a command: no Meta means the null format.
Received(cmd) ==
  [verb |-> cmd.verb, uri |-> cmd.uri,
   value |-> [format |-> IF cmd.format = <<>> THEN "null" ELSE cmd.format[1],
              data   |-> IF cmd.data = <<>> THEN <<>> ELSE cmd.data[1]]]

-----------------------------------------------------------------------------
(***************************************************************************)
(* Responses: [form, status, results].  form is "xml" for a document that  *)
(* parses and "bad" for an empty or malformed one.  A Status is            *)
(* [ref, hdr, code]: the CmdRef, whether its Cmd is SyncHdr, and the code  *)
(* when the data is an integer.  A Results is [ref, items], an item        *)
(* [format, data].                                                         *)
(***************************************************************************)

\* The code of the first Status, whatever command it is about.
StatusForAny(resp, ref) ==
  LET hits == {i \in 1..Len(resp.status) : resp.status[i].code # <<>>}
  IN  IF hits = {} THEN <<>> ELSE resp.status[Min(hits)].code

\* The code of the first Status of a command that is an integer, leaving out
\* the SyncHdr's.
StatusFor(resp, ref) ==
  LET hits == {i \in 1..Len(resp.status) :
                 /\ resp.status[i].ref = ref
                 /\ ~resp.status[i].hdr
                 /\ resp.status[i].code # <<>>}
  IN  IF hits = {} THEN <<>> ELSE resp.status[Min(hits)].code

\* The first item of the first Results that has items, whatever command it is of.
ResultForAny(resp, ref) ==
  LET hits == {i \in 1..Len(resp.results) : resp.results[i].items # <<>>}
      item == resp.results[Min(hits)].items[1]
  IN  Opt(hits # {}, item)

\* The first item of the first Results of a command that has items; a format
\* that is missing is chr.
ResultFor(resp, ref) ==
  LET hits == {i \in 1..Len(resp.results) :
                 resp.results[i].ref = ref /\ resp.results[i].items # <<>>}
      item == resp.results[Min(hits)].items[1]
  IN  Opt(hits # {},
          [format |-> IF item.format = "" THEN "chr" ELSE item.format,
           data   |-> item.data])

\* Every segment of the text, the empty one of an empty text too.
SplitKeepsEmpty(text) == Segments(text)

\* The names in the text of a container's item: its segments that are not empty.
SplitNames(text) ==
  LET segs == Segments(text)
      names[k \in 0..Len(segs)] ==
        IF k = 0 THEN <<>>
        ELSE IF segs[k] = <<>> THEN names[k - 1]
        ELSE Append(names[k - 1], segs[k])
  IN  names[Len(segs)]

=============================================================================
