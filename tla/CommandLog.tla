----------------------------- MODULE CommandLog -----------------------------
(***************************************************************************)
(* What a Recorder promises: every call is queued as one command, in call  *)
(* order, reads included; a read is answered ErrDeferred; and what Ops     *)
(* returned stays what it was when it returned.                            *)
(***************************************************************************)
EXTENDS Naturals, Sequences

CONSTANTS
  Calls,   \* the calls of the client: [op, uri, value]
  Zero     \* the value of a command that carries none

VARIABLES
  log,     \* the commands queued
  taken,   \* what each call of Ops returned
  err      \* the error of the last call

vars == <<log, taken, err>>

Reads == {"Get", "List"}

\* The command a call stands for.
CommandOf(c) ==
  [verb  |-> IF c.op = "List" THEN "Get" ELSE c.op,
   uri   |-> c.uri,
   value |-> IF c.op \in Reads \cup {"Delete"} THEN Zero ELSE c.value]

Init == log = <<>> /\ taken = <<>> /\ err = "nil"

Queue(c) ==
  /\ log' = Append(log, CommandOf(c))
  /\ err' = IF c.op \in Reads THEN "ErrDeferred" ELSE "nil"
  /\ UNCHANGED taken

Take ==
  /\ taken' = Append(taken, log)
  /\ UNCHANGED <<log, err>>

Next == (\E c \in Calls : Queue(c)) \/ Take

Spec == Init /\ [][Next]_vars

=============================================================================
