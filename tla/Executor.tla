------------------------------ MODULE Executor ------------------------------
(***************************************************************************)
(* syncml.Executor: every call renders one command, hands the document to  *)
(* the sender and reads the outcome from the response.  The executor has   *)
(* no state, so goroutines share it freely; the sender may fail at any     *)
(* time, before or after the device has acted on the request.              *)
(***************************************************************************)
EXTENDS Device

CONSTANT MaxCalls   \* bound: calls in a behaviour

ASSUME MaxCallsAssumption == MaxCalls \in Nat

VARIABLES
  tree,    \* the device's tree
  issued,  \* calls made so far
  pc,      \* where each goroutine is in roundTrip
  id,      \* the number of its call
  call,    \* its call
  wire,    \* its request on the way to the device, <<>> when it is not
  out,     \* what it will return
  late,    \* requests on the way whose sender has given up
  log      \* the device's reply to each request, by number, <<>> when there is none

vars == <<tree, issued, pc, id, call, wire, out, late, log>>

\* The operation of a call, in the methods' terms: only some carry a value.
OpOf(c) ==
  [verb  |-> VerbOf(c),
   uri   |-> c.uri,
   value |-> IF c.op \in {"Add", "Replace", "Exec"} THEN c.val ELSE Zero]

\* The document of a call.
Request(c) == Document(<<OpOf(c)>>)

-----------------------------------------------------------------------------
(***************************************************************************)
(* What a device or a proxy writes into a response.                        *)
(***************************************************************************)

Status(ref, hdr, code)  == [ref |-> ref, hdr |-> hdr, code |-> code]
ResultsOf(ref, items)   == [ref |-> ref, items |-> items]

\* The Status elements about command 1 with code n, among others: the header's
\* before or after it, and one whose data is no integer.
StatusLists(n) ==
  LET right == Status("1", FALSE, <<n>>)
      hdr   == Status("0", TRUE, <<200>>)
  IN  {<<right, hdr>>, <<hdr, right>>, <<Status("1", FALSE, <<>>), right>>}

\* The Results with the item, after those of another command or an empty one; a
\* device may leave the format chr out.
ResultLists(item) ==
  LET shown == {item} \cup (IF item.format = "chr" THEN {[item EXCEPT !.format = ""]} ELSE {})
  IN  UNION {{<<ResultsOf("1", <<i>>)>>,
              <<ResultsOf("2", <<Node>>), ResultsOf("1", <<i>>)>>,
              <<ResultsOf("1", <<>>), ResultsOf("1", <<i>>)>>} : i \in shown}

\* What send may return for a reply of the device: the response, or one damaged on
\* the way, that does not parse or lacks an element.
Arriving(reply) ==
  [form    : {"xml", "bad"},
   status  : {<<>>} \cup StatusLists(reply.code),
   results : {<<>>} \cup (IF reply.item = <<>> THEN {} ELSE ResultLists(reply.item[1]))]

-----------------------------------------------------------------------------
(***************************************************************************)
(* roundTrip after send has returned a response.                           *)
(***************************************************************************)

\* roundTrip's test of the status code.
SuccessCode(n) == n >= 200 /\ n <= 299

\* The outcome read from a response.
Interpret(c, resp) ==
  LET code  == StatusFor(resp, "1")
      value == ResultFor(resp, "1")
  IN  IF resp.form = "bad" \/ code = <<>> THEN Unknown
      ELSE IF ~SuccessCode(code[1]) THEN Refused(code[1])
      ELSE IF c.op \notin {"Get", "List"} THEN Success
      ELSE IF value = <<>> THEN Unknown
      ELSE IF c.op = "Get" THEN Read(value[1])
      ELSE Listed(SplitNames(value[1].data))

-----------------------------------------------------------------------------

\* An Executor over a device that has been in use.
Init ==
  /\ tree \in Trees
  /\ issued = 0
  /\ pc = [p \in Procs |-> "idle"]
  /\ id = [p \in Procs |-> 0]
  /\ call = [p \in Procs |-> NoCall]
  /\ wire = [p \in Procs |-> <<>>]
  /\ out = [p \in Procs |-> Underway]
  /\ late = {}
  /\ log = [n \in 1..MaxCalls |-> <<>>]

\* A method renders its operation and calls send.
Call(p, c) ==
  /\ pc[p] = "idle"
  /\ issued < MaxCalls
  /\ issued' = issued + 1
  /\ pc' = [pc EXCEPT ![p] = "sending"]
  /\ id' = [id EXCEPT ![p] = issued']
  /\ call' = [call EXCEPT ![p] = c]
  /\ wire' = [wire EXCEPT ![p] = Request(c)]
  /\ UNCHANGED <<tree, out, late, log>>

\* The device acts on the one command of a request, and its reply is noted.
Act(n, doc) ==
  LET cmd == Received(doc[1])
  IN  \E reply \in Replies(cmd.verb, Norm(cmd.uri), tree) :
        /\ tree' = TreeAfter(reply, cmd.verb, Norm(cmd.uri), cmd.value, tree)
        /\ log' = [log EXCEPT ![n] = <<reply>>]

Serve(p) ==
  /\ wire[p] # <<>>
  /\ Act(id[p], wire[p])
  /\ wire' = [wire EXCEPT ![p] = <<>>]
  /\ UNCHANGED <<issued, pc, id, call, out, late>>

ServeLate(l) ==
  /\ l \in late
  /\ Act(l.id, l.doc)
  /\ late' = late \ {l}
  /\ UNCHANGED <<issued, pc, id, call, wire, out>>

\* The call has its outcome.
Finish(p, o) ==
  /\ pc' = [pc EXCEPT ![p] = "done"]
  /\ out' = [out EXCEPT ![p] = o]
  /\ wire' = [wire EXCEPT ![p] = <<>>]
  /\ UNCHANGED <<tree, issued, id, call, log>>

\* A failed exchange is tried again.
SendFailsRetries(p) ==
  /\ pc[p] = "sending"
  /\ wire' = [wire EXCEPT ![p] = Request(call[p])]
  /\ UNCHANGED <<tree, issued, pc, id, call, out, late, log>>

\* send returns an error, whether or not the device has seen the request; one
\* still on the way is lost or arrives later.
SendFails(p) ==
  /\ pc[p] = "sending"
  /\ Finish(p, Unknown)
  /\ \/ late' = late
     \/ /\ wire[p] # <<>>
        /\ late' = late \cup {[id |-> id[p], doc |-> wire[p]]}

\* send returns the response, and roundTrip reads it.
Receive(p) ==
  /\ pc[p] = "sending"
  /\ wire[p] = <<>>
  /\ \E o \in {Interpret(call[p], resp) : resp \in Arriving(log[id[p]][1])} : Finish(p, o)
  /\ UNCHANGED late

Return(p) ==
  /\ pc[p] = "done"
  /\ pc' = [pc EXCEPT ![p] = "idle"]
  /\ id' = [id EXCEPT ![p] = 0]
  /\ call' = [call EXCEPT ![p] = NoCall]
  /\ out' = [out EXCEPT ![p] = Underway]
  /\ UNCHANGED <<tree, issued, wire, late, log>>

Next ==
  \/ \E p \in Procs : \/ \E c \in ClientCalls : Call(p, c)
                      \/ Serve(p) \/ SendFails(p) \/ Receive(p) \/ Return(p)
  \/ \E l \in late : ServeLate(l)

Spec == Init /\ [][Next]_vars

-----------------------------------------------------------------------------
(***************************************************************************)
(* Invariants.                                                             *)
(***************************************************************************)

\* Every variable has its type: the one type invariant of the module.
TypeOK ==
  /\ tree \in Trees
  /\ issued \in 0..MaxCalls
  /\ pc \in [Procs -> {"idle", "sending", "done"}]
  /\ id \in [Procs -> 0..MaxCalls]
  /\ call \in [Procs -> ClientCalls \cup {NoCall}]
  /\ wire \in [Procs -> {<<>>} \cup {Request(c) : c \in ClientCalls}]
  /\ \A p \in Procs : /\ out[p].err \in {"pending", "nil", "status", "exchange"}
                       /\ \A i \in DOMAIN out[p].names : out[p].names[i] # <<>>
  /\ \A l \in late : l.id \in 1..issued
  /\ DOMAIN log = 1..MaxCalls

\* Calls have numbers of their own, and a request without a reply is in one place
\* at most: on the wire of its call, or late once its call has failed.  So no reply
\* overwrites another, whatever the goroutines, the sender and the device do when.
InFlight ==
  /\ \A p \in Procs :
       /\ pc[p] # "idle" => id[p] \in 1..issued
       /\ pc[p] # "sending" => wire[p] = <<>>
       /\ pc[p] = "sending" => (wire[p] = <<>> <=> log[id[p]] # <<>>)
       /\ pc[p] = "sending" => \A l \in late : l.id # id[p]
  /\ \A p, q \in Procs : pc[p] # "idle" /\ pc[q] # "idle" /\ id[p] = id[q] => p = q
  /\ \A l \in late : l.id \in 1..issued /\ log[l.id] = <<>>
  /\ \A k, l \in late : k.id = l.id => k = l
  /\ \A n \in 1..MaxCalls : n > issued => log[n] = <<>>

\* What a call reports is what the device did with that very call: success of a
\* write, and the contents of a read, only if the device accepted it; a status error
\* only if the device refused it with that code (executor.go:85-110).
AnswersAreTrue ==
  \A p \in Procs : pc[p] = "done" =>
    LET told == log[id[p]]
    IN  /\ out[p].err \in {"nil", "status"} => told # <<>>
        /\ out[p].err = "nil" => Accepted(told[1])
        /\ out[p].err = "status" => told[1].code = out[p].code /\ ~Accepted(told[1])

\* The first reply to a request is the only one, and the tree changes only with it: a
\* request whose sender has given up on it may arrive late, but the executor never
\* sends a call again, so no node changes twice for one call.
ActsOnce ==
  /\ \A n \in 1..MaxCalls : log[n] # <<>> => log'[n] = log[n]
  /\ tree' # tree => \E n \in 1..MaxCalls : log[n] = <<>> /\ log'[n] # <<>>

AtMostOnce == [][ActsOnce]_vars

-----------------------------------------------------------------------------
(***************************************************************************)
(* The calls a goroutine makes, without the wire.  A request that nobody   *)
(* waits for any more is a stray call.                                     *)
(***************************************************************************)

StateOf(p) ==
  CASE pc[p] = "idle"    -> "idle"
    [] pc[p] = "done"    -> "done"
    [] pc[p] = "sending" -> IF log[id[p]] = <<>> THEN "called" ELSE "executed"

slotBar ==
  [p \in Procs |->
     [st    |-> StateOf(p), id |-> id[p], call |-> call[p],
      reply |-> IF pc[p] = "sending" THEN log[id[p]] ELSE <<>>,
      out   |-> out[p]]]

StrayOf(l) ==
  LET cmd == Received(l.doc[1])
  IN  [id |-> l.id, verb |-> cmd.verb, target |-> Norm(cmd.uri),
       val |-> IF cmd.verb \in {"Add", "Replace", "Exec"} THEN cmd.value ELSE NoValue]

Remote == INSTANCE RemoteTree WITH
            slot <- slotBar, stray <- {StrayOf(l) : l \in late}

\* SyncML is transparent: rendering, the wire and the reading of responses carry
\* every call to the device as it was made and every reply back as it was given, or
\* the call fails without claiming anything (executor.go:20-23).
Transparent == Remote!Spec

=============================================================================
