--------------------------- MODULE Executor_proof ---------------------------
(***************************************************************************)
(* Proofs about Executor, for any goroutines, URIs, values, status codes   *)
(* and number of calls: no request is acted on twice, and no call reports  *)
(* what the device did not do.                                             *)
(***************************************************************************)
EXTENDS Executor, FiniteSetTheorems, TLAPS

-----------------------------------------------------------------------------
(***************************************************************************)
(* What is read out of a response.                                         *)
(***************************************************************************)

\* The least member of a set of one.
LEMMA OnlyIsMin ==
  ASSUME NEW S, NEW n \in S, n \in Int, \A i \in S : i = n
  PROVE  Min(S) = n
<1>1. S = {n}
  OBVIOUS
<1>2. n <= n
  OBVIOUS
<1> QED
  BY <1>1, <1>2, Zenon DEF Min

\* The status found in what arrives of a reply is the reply's, or there is none.
LEMMA StatusIsReplys ==
  ASSUME NEW reply, NEW resp \in Arriving(reply)
  PROVE  StatusFor(resp, "1") \in {<<>>, <<reply.code>>}
<1> DEFINE right == Status("1", FALSE, <<reply.code>>)
           hdr   == Status("0", TRUE, <<200>>)
           none  == Status("1", FALSE, <<>>)
           hits  == {i \in 1..Len(resp.status) :
                       /\ resp.status[i].ref = "1"
                       /\ ~resp.status[i].hdr
                       /\ resp.status[i].code # <<>>}
<1>1. resp.status \in {<<>>, <<right, hdr>>, <<hdr, right>>, <<none, right>>}
  BY DEF Arriving, StatusLists
<1>2. StatusFor(resp, "1") = IF hits = {} THEN <<>> ELSE resp.status[Min(hits)].code
  BY DEF StatusFor
<1>3. right.ref = "1" /\ ~right.hdr /\ right.code = <<reply.code>> /\ hdr.ref = "0"
      /\ none.code = <<>> /\ right.code # <<>>
  BY DEF Status
<1> HIDE DEF right, hdr, none
<1>4. CASE resp.status = <<>>
  BY <1>2, <1>4
<1>5. CASE resp.status = <<right, hdr>>
  <2>1. Len(resp.status) = 2 /\ resp.status[1] = right /\ resp.status[2] = hdr
    BY <1>5
  <2>2. 1 \in hits
    <3>1. 1 \in 1..Len(resp.status)
      BY <2>1
    <3>2. resp.status[1] = right
      BY <2>1
    <3> QED
      BY <1>3, <3>1, <3>2, Zenon
  <2>3. ~(2 \in hits) /\ hits \subseteq {1, 2}
    BY <1>3, <2>1
  <2>4. Min(hits) = 1
    <3> HIDE DEF hits
    <3>1. \A i \in hits : i = 1
      BY <2>3
    <3> QED
      BY <2>2, <3>1, OnlyIsMin
  <2> QED
    BY <1>2, <1>3, <2>1, <2>2, <2>4
<1>6. CASE resp.status = <<hdr, right>> \/ resp.status = <<none, right>>
  <2>1. Len(resp.status) = 2 /\ resp.status[2] = right /\ resp.status[1] \in {hdr, none}
    BY <1>6
  <2>2. 2 \in hits
    <3>1. 2 \in 1..Len(resp.status)
      BY <2>1
    <3>2. resp.status[2] = right
      BY <2>1
    <3> QED
      BY <1>3, <3>1, <3>2, Zenon
  <2>3. ~(1 \in hits) /\ hits \subseteq {1, 2}
    BY <1>3, <2>1
  <2>4. Min(hits) = 2
    <3> HIDE DEF hits
    <3>1. \A i \in hits : i = 2
      BY <2>3
    <3> QED
      BY <2>2, <3>1, OnlyIsMin
  <2> QED
    BY <1>2, <1>3, <2>1, <2>2, <2>4
<1> QED
  BY <1>1, <1>4, <1>5, <1>6

\* So an outcome read from it claims success, or a status, only if the reply says so.
LEMMA InterpretIsTrue ==
  ASSUME NEW reply, reply.code \in Nat, NEW resp \in Arriving(reply), NEW c
  PROVE  /\ Interpret(c, resp).err = "nil" => Accepted(reply)
         /\ Interpret(c, resp).err = "status" =>
              Interpret(c, resp).code = reply.code /\ ~Accepted(reply)
<1> DEFINE code == StatusFor(resp, "1")
           o    == Interpret(c, resp)
<1>1. code \in {<<>>, <<reply.code>>}
  BY StatusIsReplys
<1>2. Unknown.err = "exchange" /\ Success.err = "nil"
  BY DEF Unknown, Success, Outcome
<1>3. Refused(reply.code).err = "status" /\ Refused(reply.code).code = reply.code
  BY DEF Refused, Outcome
<1>4. \A v : Read(v).err = "nil" /\ Listed(v).err = "nil"
  BY DEF Read, Listed, Outcome
<1>5. CASE resp.form = "bad" \/ code = <<>>
  BY <1>2, <1>5 DEF Interpret
<1>6. CASE resp.form # "bad" /\ code = <<reply.code>> /\ ~SuccessCode(reply.code)
  <2>1. o = Refused(reply.code)
    BY <1>6 DEF Interpret
  <2>2. ~Accepted(reply)
    BY <1>6 DEF SuccessCode, Accepted
  <2> QED
    BY <1>3, <2>1, <2>2
<1>7. CASE resp.form # "bad" /\ code = <<reply.code>> /\ SuccessCode(reply.code)
  <2>1. Accepted(reply)
    BY <1>7 DEF SuccessCode, Accepted
  <2>2. o.err \in {"nil", "exchange"}
    BY <1>2, <1>4, <1>7 DEF Interpret
  <2> QED
    BY <2>1, <2>2
<1> QED
  BY <1>1, <1>5, <1>6, <1>7

\* Whatever the device replies has a code.
LEMMA RepliesHaveCodes ==
  ASSUME NEW verb, NEW target, NEW t, NEW reply \in Replies(verb, target, t)
  PROVE  reply.code \in Nat
<1>1. \A r \in Refusals(t, target) : r.code \in Nat
  BY CodesAssumption DEF Refusals, Reply
<1>2. \A r \in ReadReplies(t, target) : r.code \in Nat
  BY CodesAssumption DEF ReadReplies, Reply
<1>3. \A a \in AcceptCodes : Reply(a, <<>>, <<>>).code \in Nat
  BY CodesAssumption DEF Reply
<1> QED
  BY <1>1, <1>2, <1>3 DEF Replies

\* A request that is sent is there.
LEMMA RequestIsSome == \A c : Request(c) # <<>>
<1> TAKE c
<1>1. DOMAIN Request(c) = 1..1
  BY DEF Request, Document
<1> QED
  BY <1>1

-----------------------------------------------------------------------------
(***************************************************************************)
(* The inductive invariant: InFlight and AnswersAreTrue, the types they    *)
(* need, and that every reply noted has a code.                            *)
(***************************************************************************)

Shape ==
  /\ issued \in 0..MaxCalls
  /\ pc \in [Procs -> {"idle", "sending", "done"}]
  /\ id \in [Procs -> 0..MaxCalls]
  /\ DOMAIN wire = Procs
  /\ DOMAIN out = Procs
  /\ DOMAIN log = 1..MaxCalls
  /\ \A n \in 1..MaxCalls : log[n] # <<>> => log[n][1].code \in Nat

IInv == Shape /\ InFlight /\ AnswersAreTrue

\* The invariant holds of an Executor that has made no call.
LEMMA InitIInv == Init => IInv
<1> SUFFICES ASSUME Init PROVE IInv
  OBVIOUS
<1>1. Shape
  BY MaxCallsAssumption DEF Init, Shape
<1>2. InFlight
  BY MaxCallsAssumption DEF Init, InFlight
<1>3. AnswersAreTrue
  BY DEF Init, AnswersAreTrue
<1> QED
  BY <1>1, <1>2, <1>3 DEF IInv

\* A call takes the next number, which nothing else has.
LEMMA CallStep ==
  ASSUME IInv, NEW p \in Procs, NEW c \in ClientCalls, Call(p, c)
  PROVE  IInv'
<1> USE DEF IInv
<1>0. issued + 1 \in 1..MaxCalls
  BY MaxCallsAssumption DEF Call, Shape
<1>1. Shape'
  BY <1>0 DEF Call, Shape
<1>2. log[issued + 1] = <<>>
  BY <1>0 DEF InFlight, Shape
<1>3. InFlight'
  BY <1>0, <1>2, RequestIsSome DEF Call, Shape, InFlight
<1>4. AnswersAreTrue'
  BY DEF Call, Shape, AnswersAreTrue
<1> QED
  BY <1>1, <1>3, <1>4

\* What the device replies is noted under the number of the request.
LEMMA ActReplies ==
  ASSUME NEW n, NEW doc, Act(n, doc)
  PROVE  \E r : r.code \in Nat /\ log' = [log EXCEPT ![n] = <<r>>]
BY RepliesHaveCodes DEF Act

\* A reply to a request that is on its way to the device disturbs no other call.
LEMMA ServeStep ==
  ASSUME IInv, NEW p \in Procs, Serve(p)
  PROVE  IInv'
<1> USE DEF IInv
<1>0. pc[p] = "sending" /\ id[p] \in 1..issued /\ id[p] \in 1..MaxCalls /\ log[id[p]] = <<>>
  BY DEF Serve, Shape, InFlight
<1>1. PICK r : r.code \in Nat /\ log' = [log EXCEPT ![id[p]] = <<r>>]
  BY ActReplies DEF Serve
<1>2. log'[id[p]] = <<r>> /\ \A n \in 1..MaxCalls : n # id[p] => log'[n] = log[n]
  BY <1>0, <1>1 DEF Shape
<1>3. Shape'
  BY <1>0, <1>1, <1>2 DEF Serve, Shape
<1>4. InFlight'
  <2>1. \A q \in Procs : q # p /\ pc[q] # "idle" => id[q] # id[p]
    BY <1>0 DEF InFlight
  <2>2. wire' = [wire EXCEPT ![p] = <<>>] /\ wire'[p] = <<>>
        /\ \A q \in Procs : q # p => wire'[q] = wire[q]
    BY DEF Serve, Shape
  <2>3. \A q \in Procs : pc[q] = "sending" => (wire'[q] = <<>> <=> log'[id[q]] # <<>>)
    <3> SUFFICES ASSUME NEW q \in Procs, pc[q] = "sending"
                 PROVE  wire'[q] = <<>> <=> log'[id[q]] # <<>>
      OBVIOUS
    <3>1. CASE q = p
      BY <1>2, <2>2, <3>1
    <3>2. CASE q # p
      <4>1. id[q] # id[p] /\ id[q] \in 1..MaxCalls
        BY <2>1, <3>2 DEF Shape, InFlight
      <4> QED
        BY <1>2, <2>2, <3>2, <4>1 DEF InFlight
    <3> QED
      BY <3>1, <3>2
  <2>4. \A l \in late : log'[l.id] = <<>>
    <3>1. \A l \in late : l.id # id[p] /\ l.id \in 1..MaxCalls /\ log[l.id] = <<>>
      BY <1>0, MaxCallsAssumption DEF Shape, InFlight
    <3> QED
      BY <1>2, <3>1
  <2>5. \A n \in 1..MaxCalls : n > issued => log'[n] = <<>>
    BY <1>0, <1>2 DEF Shape, InFlight
  <2> QED
    BY <1>0, <2>2, <2>3, <2>4, <2>5 DEF Serve, InFlight
<1>5. AnswersAreTrue'
  BY <1>0, <1>2 DEF Serve, Shape, InFlight, AnswersAreTrue
<1> QED
  BY <1>3, <1>4, <1>5

\* A late request belongs to a call that claims nothing.
LEMMA ServeLateStep ==
  ASSUME IInv, NEW l \in late, ServeLate(l)
  PROVE  IInv'
<1> USE DEF IInv
<1>0. l.id \in 1..issued /\ l.id \in 1..MaxCalls /\ log[l.id] = <<>>
  <2>1. l.id \in 1..issued /\ log[l.id] = <<>>
    BY DEF InFlight
  <2> QED
    BY <2>1, MaxCallsAssumption DEF Shape
<1>1. PICK r : r.code \in Nat /\ log' = [log EXCEPT ![l.id] = <<r>>]
  BY ActReplies DEF ServeLate
<1>2. log'[l.id] = <<r>> /\ \A n \in 1..MaxCalls : n # l.id => log'[n] = log[n]
  BY <1>0, <1>1 DEF Shape
<1>3. Shape'
  BY <1>0, <1>1, <1>2 DEF ServeLate, Shape
<1>4. InFlight'
  <2>1. \A q \in Procs : pc[q] = "sending" => id[q] # l.id /\ log'[id[q]] = log[id[q]]
    BY <1>2 DEF Shape, InFlight
  <2>2. \A k \in late' : k \in late /\ log'[k.id] = <<>>
    BY <1>2, MaxCallsAssumption DEF ServeLate, Shape, InFlight
  <2>3. \A n \in 1..MaxCalls : n > issued => log'[n] = <<>>
    BY <1>0, <1>2 DEF Shape, InFlight
  <2> QED
    BY <2>1, <2>2, <2>3 DEF ServeLate, InFlight
<1>5. AnswersAreTrue'
  BY <1>0, <1>2 DEF ServeLate, Shape, InFlight, AnswersAreTrue
<1> QED
  BY <1>3, <1>4, <1>5

\* A call that failed claims nothing, and its request is lost or late.
LEMMA SendFailsStep ==
  ASSUME IInv, NEW p \in Procs, SendFails(p)
  PROVE  IInv'
<1> USE DEF IInv
<1>0. Unknown.err = "exchange"
  BY DEF Unknown, Outcome
<1>1. Shape'
  BY DEF SendFails, Finish, Shape
<1>2. InFlight'
  <2>1. CASE late' = late
    BY <2>1 DEF SendFails, Finish, Shape, InFlight
  <2>2. CASE wire[p] # <<>> /\ late' = late \cup {[id |-> id[p], doc |-> wire[p]]}
    BY <2>2 DEF SendFails, Finish, Shape, InFlight
  <2> QED
    BY <2>1, <2>2 DEF SendFails
<1>3. AnswersAreTrue'
  BY <1>0 DEF SendFails, Finish, Shape, AnswersAreTrue
<1> QED
  BY <1>1, <1>2, <1>3

\* A call that reads a response reports what the device did.
LEMMA ReceiveStep ==
  ASSUME IInv, NEW p \in Procs, Receive(p)
  PROVE  IInv'
<1> USE DEF IInv
<1> DEFINE told == log[id[p]]
<1>0. pc[p] = "sending" /\ id[p] \in 1..MaxCalls /\ told # <<>> /\ told[1].code \in Nat
  BY DEF Receive, Shape, InFlight
<1>1. PICK resp \in Arriving(told[1]) : Finish(p, Interpret(call[p], resp))
  BY DEF Receive
<1> DEFINE o == Interpret(call[p], resp)
<1>2. /\ o.err = "nil" => Accepted(told[1])
      /\ o.err = "status" => o.code = told[1].code /\ ~Accepted(told[1])
  BY <1>0, <1>1, InterpretIsTrue
<1> HIDE DEF o
<1>3. Finish(p, o) /\ late' = late
  BY <1>1 DEF Receive, o
<1>4. Shape'
  BY <1>0, <1>3 DEF Finish, Shape
<1>5. InFlight'
  BY <1>0, <1>3 DEF Receive, Finish, Shape, InFlight
<1>6. AnswersAreTrue'
  BY <1>0, <1>2, <1>3 DEF Finish, Shape, AnswersAreTrue
<1> QED
  BY <1>4, <1>5, <1>6

\* A goroutine between two calls has no number.
LEMMA ReturnStep ==
  ASSUME IInv, NEW p \in Procs, Return(p)
  PROVE  IInv'
<1> USE DEF IInv
<1>1. Shape'
  BY MaxCallsAssumption DEF Return, Shape
<1>2. InFlight'
  BY DEF Return, Shape, InFlight
<1>3. AnswersAreTrue'
  BY DEF Return, Shape, AnswersAreTrue
<1> QED
  BY <1>1, <1>2, <1>3

-----------------------------------------------------------------------------
(***************************************************************************)
(* The theorems.                                                           *)
(***************************************************************************)

\* Every step keeps the invariant.
LEMMA NextIInv == IInv /\ [Next]_vars => IInv'
<1> SUFFICES ASSUME IInv, [Next]_vars PROVE IInv'
  OBVIOUS
<1>1. ASSUME NEW p \in Procs, NEW c \in ClientCalls, Call(p, c) PROVE IInv'
  BY <1>1, CallStep
<1>2. ASSUME NEW p \in Procs, Serve(p) PROVE IInv'
  BY <1>2, ServeStep
<1>3. ASSUME NEW p \in Procs, SendFails(p) PROVE IInv'
  BY <1>3, SendFailsStep
<1>4. ASSUME NEW p \in Procs, Receive(p) PROVE IInv'
  BY <1>4, ReceiveStep
<1>5. ASSUME NEW p \in Procs, Return(p) PROVE IInv'
  BY <1>5, ReturnStep
<1>6. ASSUME NEW l \in late, ServeLate(l) PROVE IInv'
  BY <1>6, ServeLateStep
<1>7. CASE UNCHANGED vars
  BY <1>7 DEF vars, IInv, Shape, InFlight, AnswersAreTrue
<1> QED
  BY <1>1, <1>2, <1>3, <1>4, <1>5, <1>6, <1>7 DEF Next

\* Requests are in one place at most, and answers are true, always.
THEOREM Invariance == Spec => []IInv
<1>1. Init => IInv
  BY InitIInv
<1>2. IInv /\ [Next]_vars => IInv'
  BY NextIInv
<1> QED
  BY <1>1, <1>2, PTL DEF Spec

\* A call that returns success, a value or a status reports what the device did with
\* that very request, whatever the sender loses, delays or damages
\* (executor.go:85-110).
THEOREM TrueAnswers == Spec => []AnswersAreTrue
<1>1. IInv => AnswersAreTrue
  BY DEF IInv
<1> QED
  BY <1>1, Invariance, PTL

\* A request without a reply is in one place: on the wire of its call, or late.
THEOREM OnePlace == Spec => []InFlight
<1>1. IInv => InFlight
  BY DEF IInv
<1> QED
  BY <1>1, Invariance, PTL

\* No step overwrites a reply, or changes the tree without a first one.
LEMMA StepActsOnce ==
  ASSUME IInv, [Next]_vars
  PROVE  ActsOnce
<1>1. ASSUME NEW p \in Procs, Serve(p) PROVE ActsOnce
  <2>1. id[p] \in 1..MaxCalls /\ log[id[p]] = <<>>
    BY <1>1, MaxCallsAssumption DEF IInv, Shape, InFlight, Serve
  <2>2. PICK r : log' = [log EXCEPT ![id[p]] = <<r>>]
    BY <1>1, ActReplies DEF Serve
  <2> QED
    BY <2>1, <2>2 DEF IInv, Shape, ActsOnce
<1>2. ASSUME NEW l \in late, ServeLate(l) PROVE ActsOnce
  <2>1. l.id \in 1..MaxCalls /\ log[l.id] = <<>>
    BY <1>2, MaxCallsAssumption DEF IInv, Shape, InFlight
  <2>2. PICK r : log' = [log EXCEPT ![l.id] = <<r>>]
    BY <1>2, ActReplies DEF ServeLate
  <2> QED
    BY <2>1, <2>2 DEF IInv, Shape, ActsOnce
<1>3. ASSUME NEW p \in Procs, NEW c \in ClientCalls, Call(p, c) PROVE ActsOnce
  BY <1>3 DEF Call, ActsOnce
<1>4. ASSUME NEW p \in Procs, SendFails(p) \/ Receive(p) \/ Return(p) PROVE ActsOnce
  BY <1>4 DEF SendFails, Receive, Return, Finish, ActsOnce
<1>5. CASE UNCHANGED vars
  BY <1>5 DEF vars, ActsOnce
<1> QED
  BY <1>1, <1>2, <1>3, <1>4, <1>5 DEF Next

\* A request is acted on at most once, late ones too: nothing in the executor sends a
\* call again (executor.go:86-89).
THEOREM ActedOnOnce == Spec => AtMostOnce
<1>1. IInv /\ [Next]_vars => [ActsOnce]_vars
  BY StepActsOnce
<1> QED
  BY <1>1, Invariance, PTL DEF Spec, AtMostOnce

-----------------------------------------------------------------------------
(***************************************************************************)
(* Transparency: what the device reads is what was called, and what a call *)
(* reports is what the device replied.                                     *)
(***************************************************************************)

Writes == {"Add", "Replace", "Exec"}

\* A command as it arrives: the call's verb, URI and value, null where it has none.
Arrived(c) == [verb |-> VerbOf(c), uri |-> c.uri, value |-> IF c.op \in Writes THEN c.val ELSE Null]

\* What a call is made of.
LEMMA ClientCallType ==
  ASSUME NEW c \in ClientCalls
  PROVE  /\ c.uri \in Uris /\ Target(c) \in Paths
         /\ \/ c.op \in Writes /\ c.val \in Values /\ VerbOf(c) = c.op
            \/ c.op \in {"Get", "List"} /\ c.val = NoValue /\ VerbOf(c) = "Get"
            \/ c.op = "Delete" /\ c.val = NoValue /\ VerbOf(c) = "Delete"
BY DEF ClientCalls, Calls, Reads, Stores, Writes, VerbOf, Target, Paths

\* Rendering a call and reading the command back loses nothing.
LEMMA RequestReadsBack ==
  ASSUME NEW c \in ClientCalls
  PROVE  Received(Request(c)[1]) = Arrived(c)
<1> DEFINE op  == OpOf(c)
           cmd == WriteOp(1, op)
           v   == c.val
<1>1. Request(c)[1] = cmd
  <2> HIDE DEF op
  <2>1. Len(<<op>>) = 1 /\ <<op>>[1] = op
    OBVIOUS
  <2>2. Document(<<op>>)[1] = WriteOp(1, op)
    BY <2>1 DEF Document
  <2> QED
    BY <2>2 DEF Request, op
<1>2. cmd.verb = VerbOf(c) /\ cmd.uri = c.uri
  BY DEF WriteOp, OpOf
<1>3. CASE c.op \notin Writes
  <2>1. VerbOf(c) \in {"Get", "Delete"}
    BY <1>3, ClientCallType
  <2>2. cmd.format = <<>> /\ cmd.data = <<>>
    BY <2>1 DEF OpOf, WriteOp, Opt, HasPayloadMeta, HasData
  <2> QED
    BY <1>1, <1>2, <1>3, <2>2 DEF Received, Arrived, Null
<1>4. CASE c.op \in Writes
  <2>1. v \in Values /\ op.value = v /\ op.verb \notin {"Get", "Delete"}
    BY <1>4, ClientCallType DEF Writes, OpOf
  <2>2. /\ v = [format |-> v.format, data |-> v.data] /\ v.format # ""
        /\ v.format \in {"null", "node"} => v.data = <<>>
    BY <2>1, ValuesAssumption DEF Constructed
  <2> HIDE DEF op
  <2>3. Received(cmd).value = v
    <3>1. CASE v.format = "null"
      <4>1. cmd.format = <<>> /\ cmd.data = <<>>
        BY <2>1, <3>1 DEF WriteOp, Opt, HasPayloadMeta, HasData
      <4> HIDE DEF cmd, v
      <4> QED
        BY <2>2, <3>1, <4>1 DEF Received
    <3>2. CASE v.format = "node"
      <4>1. cmd.format = <<"node">> /\ cmd.data = <<>>
        BY <2>1, <3>2 DEF WriteOp, Opt, HasPayloadMeta, HasData
      <4> HIDE DEF cmd, v
      <4> QED
        BY <2>2, <3>2, <4>1 DEF Received
    <3>3. CASE v.format \notin {"null", "node"}
      <4>1. cmd.format = <<v.format>> /\ cmd.data = <<v.data>>
        BY <2>1, <2>2, <3>3 DEF WriteOp, Opt, HasPayloadMeta, HasData
      <4> HIDE DEF cmd, v
      <4>2. Received(cmd).value = [format |-> v.format, data |-> v.data]
        BY <4>1 DEF Received
      <4> QED
        BY <2>2, <4>2
    <3> QED
      BY <3>1, <3>2, <3>3
  <2> HIDE DEF cmd
  <2> QED
    BY <1>1, <1>2, <1>4, <2>3 DEF Received, Arrived
<1> QED
  BY <1>3, <1>4

\* So the device does with the command what it would do with the call.
LEMMA EffectIsTheCalls ==
  ASSUME NEW c \in ClientCalls, NEW r, NEW t
  PROVE  TreeAfter(r, VerbOf(c), Target(c), Arrived(c).value, t) =
           TreeAfter(r, VerbOf(c), Target(c), c.val, t)
<1>1. CASE c.op \in Writes
  BY <1>1 DEF Arrived
<1>2. CASE c.op \notin Writes
  BY <1>2, ClientCallType DEF Writes, TreeAfter, EffectOn
<1> QED
  BY <1>1, <1>2

\* A device's tree stays one of values on paths.
LEMMA TreeAfterType ==
  ASSUME NEW c \in ClientCalls, NEW r, NEW t \in Trees
  PROVE  TreeAfter(r, VerbOf(c), Target(c), c.val, t) \in Trees
<1>1. VerbOf(c) \in {"Add", "Replace"} => c.val \in Values
  BY ClientCallType DEF Writes
<1>2. WithoutSubtree(t, Target(c)) \in Trees
  BY DEF WithoutSubtree, Trees
<1> QED
  BY <1>1, <1>2 DEF TreeAfter, EffectOn, Trees

-----------------------------------------------------------------------------
(***************************************************************************)
(* Listings.  What is proved about texts holds here too.                   *)
(***************************************************************************)

\* Lengths are of no account to the lemmas about texts.
NoBound == [k \in {"uri", "name", "xml", "value"} |-> 0]

Texts == INSTANCE Text_proof WITH
           kind <- "uri", path <- <<>>, target <- <<>>, Reserved <- {}, IntBits <- 64,
           MaxLen <- NoBound

\* What that module assumes of its constants.
LEMMA TextsApply ==
  /\ \A k \in DOMAIN Texts!Chars : NoBound[k] \in Nat
  /\ 64 \in Nat \ {0}
  /\ {} \subseteq Seq(Nat) /\ \A w \in {} : w \o Texts!NameText \notin {}
BY DEF Texts!Chars, NoBound

\* Texts mean the same in the instance as here.
LEMMA SameTexts ==
  /\ Texts!Text = Text /\ Texts!Slash = <<Sep>> /\ Texts!Sep = Sep
  /\ \A s : Texts!Segments(s) = Segments(s)
  /\ \A s, t : Texts!Join(s, t) = Join(s, t)
  /\ \A u : Texts!Norm(u) = Norm(u)
  /\ \A p, t : Texts!Beneath(p, t) = Beneath(p, t)
  /\ \A p, t : Texts!ChildName(p, t) = ChildName(p, t)
<1>1. Texts!Text = Text /\ Texts!Slash = <<Sep>> /\ Texts!Sep = Sep
  BY DEF Texts!Text, Text, Texts!Slash, Sep, Texts!Sep
<1>2. \A s : Texts!Segments(s) = Segments(s)
  BY DEF Texts!Segments, Segments, Texts!Sep, Sep
<1>3. \A s, t : Texts!Join(s, t) = Join(s, t)
  BY DEF Texts!Join, Join
<1>4. \A u : Texts!Norm(u) = Norm(u)
  BY DEF Texts!Norm, Norm, Texts!Sep, Sep, Max, Texts!Max
<1>5. \A p, t : Texts!Beneath(p, t) = Beneath(p, t)
  BY DEF Texts!Beneath, Beneath, Texts!Sep, Sep, Texts!IsPrefix, IsPrefix
<1>6. \A p, t : Texts!ChildName(p, t) = ChildName(p, t)
  BY DEF Texts!ChildName, ChildName, Texts!Sep, Sep, Min, Texts!Min
<1> QED
  BY <1>1, <1>2, <1>3, <1>4, <1>5, <1>6

\* SplitNames leaves out the empty segments and nothing else.
LEMMA SplitNamesOf ==
  ASSUME NEW text \in Text
  PROVE  /\ SplitNames(text) \in Seq(Text \ {<<>>})
         /\ (\A i \in 1..Len(Segments(text)) : Segments(text)[i] # <<>>)
               => SplitNames(text) = Segments(text)
<1> DEFINE segs    == Segments(text)
           n       == Len(segs)
           V       == Seq(Text \ {<<>>})
           none    == <<>>
           Grow(x, i) == IF segs[i] = <<>> THEN x ELSE Append(x, segs[i])
           Is(f)   == f = [k \in 0..n |-> IF k = 0 THEN none ELSE Grow(f[k - 1], k)]
           d       == [x \in V \X (1..n) |-> Grow(x[1], x[2])]
<1>0. segs \in Seq(Text) /\ n \in Nat /\ \A i \in 1..n : segs[i] \in Text
  <2>1. Texts!Segments(text) \in Texts!Splittings
    BY Texts!SegmentsGrow, SameTexts, TextsApply
  <2>2. segs \in Seq(Text)
    BY <2>1, SameTexts DEF Texts!Splittings
  <2> HIDE DEF segs
  <2> QED
    BY <2>2
<1>1. none \in V
  OBVIOUS
<1> HIDE DEF segs
<1>2. \A i \in 1..n, x \in V : d[<<x, i>>] = Grow(x, i)
  OBVIOUS
<1>3. \A i \in 1..n, x \in V : Grow(x, i) \in V
  BY <1>0
<1> HIDE DEF n, d, none, V
<1>4. PICK g : Texts!Unfolds(g, n, V, none, d)
  <2>1. \A i \in 1..n, x \in V : d[<<x, i>>] \in V
    BY <1>2, <1>3
  <2> QED
    BY <1>0, <1>1, <2>1, Texts!Recursion, TextsApply
<1>5. g \in [0..n -> V] /\ g[0] = none /\ \A i \in 1..n : g[i] = Grow(g[i - 1], i)
  <2>1. g \in [0..n -> V] /\ g[0] = none /\ \A i \in 1..n : g[i] = d[<<g[i - 1], i>>]
    BY <1>4 DEF Texts!Unfolds
  <2>2. \A i \in 1..n : g[i - 1] \in V
    BY <1>0, <2>1
  <2> QED
    BY <1>2, <2>1, <2>2
<1>6. Is(g)
  <2>1. ASSUME NEW k \in 0..n PROVE g[k] = IF k = 0 THEN none ELSE Grow(g[k - 1], k)
    <3>1. k # 0 => k \in 1..n
      BY <1>0
    <3> QED
      BY <1>5, <3>1
  <2>2. g = [k \in 0..n |-> g[k]]
    BY <1>5
  <2> QED
    BY <2>1, <2>2, Zenon
<1> DEFINE names == CHOOSE f : Is(f)
<1>7. Is(names)
  <2> HIDE DEF Is
  <2> QED
    BY <1>6
<1>8. SplitNames(text) = names[n]
  BY DEF SplitNames, n, none, segs
<1> HIDE DEF names
<1>9. names[n] = g[n]
  <2>1. names[0] = g[0]
    BY <1>0, <1>5, <1>7
  <2>2. ASSUME NEW i \in 1..n, names[i - 1] = g[i - 1] PROVE names[i] = g[i]
    <3>1. i \in 0..n /\ i # 0
      BY <1>0
    <3>2. names[i] = Grow(names[i - 1], i)
      <4> HIDE DEF Grow
      <4> QED
        BY <1>7, <3>1
    <3> QED
      BY <1>5, <2>2, <3>2
  <2> HIDE DEF Is
  <2> QED
    BY <1>0, <2>1, <2>2, Texts!SameEnd, TextsApply
<1>10. g[n] \in V
  BY <1>0, <1>5
<1>11. ASSUME \A i \in 1..n : segs[i] # <<>> PROVE g[n] = segs
  <2> DEFINE h == [k \in 0..n |-> SubSeq(segs, 1, k)]
  <2>1. g[0] = h[0]
    BY <1>0, <1>5 DEF none
  <2>2. ASSUME NEW i \in 1..n, g[i - 1] = h[i - 1] PROVE g[i] = h[i]
    <3>1. SubSeq(segs, 1, i) = Append(SubSeq(segs, 1, i - 1), segs[i])
      BY <1>0 DEF n
    <3>2. i - 1 \in 0..n /\ i \in 0..n
      BY <1>0
    <3> QED
      BY <1>5, <1>11, <2>2, <3>1, <3>2
  <2>3. h[n] = segs
    BY <1>0 DEF n
  <2> HIDE DEF h
  <2>4. g[n] = h[n]
    BY <1>0, <2>1, <2>2, Texts!SameEnd, TextsApply
  <2> QED
    BY <2>3, <2>4
<1> QED
  BY <1>8, <1>9, <1>10, <1>11 DEF V, n, segs

\* So no name it finds is empty, and an empty text holds none.
LEMMA NamesAreNotEmpty ==
  /\ \A text \in Text : \A i \in DOMAIN SplitNames(text) : SplitNames(text)[i] # <<>>
  /\ SplitNames(<<>>) = <<>>
<1>1. ASSUME NEW text \in Text
      PROVE  \A i \in DOMAIN SplitNames(text) : SplitNames(text)[i] # <<>>
  <2> DEFINE s == SplitNames(text)
  <2>1. s \in Seq(Text \ {<<>>})
    BY SplitNamesOf
  <2> HIDE DEF s
  <2>2. \A i \in DOMAIN s : s[i] # <<>>
    BY <2>1
  <2> QED
    BY <2>2 DEF s
<1>2. SplitNames(<<>>) = <<>>
  <2>1. Segments(<<>>) = << <<>> >>
    BY Texts!SegmentsGrow, SameTexts, TextsApply
  <2> DEFINE segs  == Segments(<<>>)
             Is(f) == f = [k \in 0..Len(segs) |->
                             IF k = 0 THEN <<>>
                             ELSE IF segs[k] = <<>> THEN f[k - 1]
                             ELSE Append(f[k - 1], segs[k])]
             names == CHOOSE f : Is(f)
  <2>2. SplitNames(<<>>) = names[Len(segs)]
    BY DEF SplitNames
  <2>3. Len(segs) = 1 /\ segs[1] = <<>>
    BY <2>1
  <2> HIDE DEF segs
  <2>4. \E f : Is(f)
    <3>1. Is([k \in 0..1 |-> <<>>])
      BY <2>3
    <3> QED
      BY <3>1
  <2>5. Is(names)
    <3> HIDE DEF Is
    <3> QED
      BY <2>4
  <2> HIDE DEF names
  <2>6. names[1] = <<>>
    BY <2>3, <2>5
  <2> QED
    BY <2>2, <2>3, <2>6
<1> QED
  BY <1>1, <1>2

\* The names of a tree are plain and not empty.
LEMMA NamesArePlain ==
  ASSUME NEW t, NEW target \in Paths, NEW w \in ChildNames(Nodes(t), target)
  PROVE  Texts!Plain(w) /\ w # <<>> /\ w \in Text
<1>0. \A q \in Paths : q \in Text
  BY UrisAssumption, Texts!NormTwice, SameTexts, TextsApply DEF Paths, Text
<1>1. PICK q \in Nodes(t) : Beneath(q, target) /\ w = ChildName(q, target)
  BY DEF ChildNames
<1>2. q \in Paths /\ q \in Text /\ target \in Text
  BY <1>0, <1>1 DEF Nodes
<1>3. PICK r \in Text : q = target \o <<Sep>> \o r
  <2>1. q \in Texts!Text /\ target \in Texts!Text /\ Texts!Beneath(q, target)
    BY <1>1, <1>2, SameTexts
  <2>2. \E r \in Texts!Text : q = target \o Texts!Slash \o r
    BY <2>1, Texts!BeneathIsConcat, TextsApply
  <2> QED
    BY <2>2, SameTexts
<1>4. Texts!Plain(w)
  BY <1>1, <1>2, <1>3, Texts!FirstSegment, SameTexts, TextsApply
<1>5. w \in Names
  BY <1>1, <1>2 DEF Names, ChildNames
<1> QED
  BY <1>4, <1>5, NodesAssumption, SameTexts DEF Texts!Plain

\* A device has finitely many nodes, so a container finitely many names.
LEMMA NamesAreFinite ==
  ASSUME NEW t, NEW target
  PROVE  Cardinality(ChildNames(Nodes(t), target)) \in Nat
<1> DEFINE S == {q \in Nodes(t) : Beneath(q, target)}
           N == ChildNames(Nodes(t), target)
<1>1. IsFiniteSet(Paths)
  <2> DEFINE f == [u \in Uris |-> Norm(u)]
  <2>1. f \in Surjection(Uris, Paths)
    BY DEF Surjection, Paths
  <2> QED
    BY <2>1, NodesAssumption, FS_Surjection
<1>2. IsFiniteSet(S)
  <2>1. S \in SUBSET Paths
    BY DEF Nodes
  <2> QED
    BY <1>1, <2>1, FS_Subset
<1>3. IsFiniteSet(N)
  <2> DEFINE f == [q \in S |-> ChildName(q, target)]
  <2>1. f \in Surjection(S, N)
    BY DEF Surjection, ChildNames
  <2> QED
    BY <1>2, <2>1, FS_Surjection
<1> QED
  BY <1>3, FS_CardinalityType

\* A listing is read as it was written, whatever its names: joined by separators, the
\* names of a container split into themselves.
LEMMA ListingReadsBack ==
  ASSUME NEW t \in Trees, NEW target \in Paths, NEW l \in Listings(t, target)
  PROVE  SplitNames(Join(l, <<Sep>>)) = l /\ Join(l, <<Sep>>) \in Text
<1> DEFINE N    == ChildNames(Nodes(t), target)
           text == Join(l, <<Sep>>)
<1>1. l \in Seq(N)
  BY NamesAreFinite DEF Listings, SetToSeqs
<1>2. \A w \in N : Texts!Plain(w) /\ w # <<>> /\ w \in Text
  BY NamesArePlain
<1> HIDE DEF N
<1>3. l \in Seq(Text) /\ \A i \in 1..Len(l) : Texts!Plain(l[i]) /\ l[i] # <<>>
  BY <1>1, <1>2
<1>4. text \in Text
  <2>1. Texts!Slash \in Texts!Text
    BY Texts!SlashIsText, TextsApply
  <2> QED
    BY <1>3, <2>1, Texts!JoinGrows, SameTexts, TextsApply
<1>5. CASE l = <<>>
  <2>1. text = <<>>
    <3>1. Texts!Slash \in Texts!Text
      BY Texts!SlashIsText, TextsApply
    <3> QED
      BY <1>5, <3>1, Texts!JoinGrows, SameTexts, TextsApply
  <2> QED
    BY <1>4, <1>5, <2>1, NamesAreNotEmpty
<1>6. CASE l # <<>>
  <2>1. l \in Texts!Splittings
    BY <1>3, <1>6, SameTexts DEF Texts!Splittings
  <2>2. Segments(text) = l
    BY <1>3, <2>1, Texts!SegmentsJoin, SameTexts, TextsApply
  <2> HIDE DEF text
  <2>3. SplitNames(text) = l
    BY <1>3, <1>4, <2>2, SplitNamesOf
  <2> QED
    BY <1>4, <2>3 DEF text
<1> QED
  BY <1>5, <1>6

-----------------------------------------------------------------------------
(***************************************************************************)
(* What a call reports.                                                    *)
(***************************************************************************)

\* An item as a device answers a read with.
Item(i) == i = [format |-> i.format, data |-> i.data] /\ i.format # "" /\ i.data \in Text

\* A reply: refused, accepted without an item, or the one item of a read and its names.
WellFormed(c, r) ==
  /\ r.code \in Nat
  /\ \/ ~Accepted(r) /\ r.item = <<>>
     \/ Accepted(r) /\ c.op \notin {"Get", "List"} /\ r.item = <<>>
     \/ /\ Accepted(r) /\ c.op \in {"Get", "List"}
        /\ \E i : Item(i) /\ r.item = <<i>> /\ r.names = SplitNames(i.data)

\* The device answers no other way.
LEMMA RepliesAreWellFormed ==
  ASSUME NEW c \in ClientCalls, NEW t \in Trees, NEW r \in Replies(VerbOf(c), Target(c), t)
  PROVE  WellFormed(c, r)
<1> DEFINE target == Target(c)
<1>1. target \in Paths
  BY ClientCallType
<1>2. CASE r \in Refusals(t, target)
  <2>1. PICK n \in RefuseCodes \cup {404} : r = Reply(n, <<>>, <<>>)
    BY <1>2 DEF Refusals
  <2>2. r.code = n /\ r.item = <<>>
    BY <2>1 DEF Reply
  <2>3. n \in Nat /\ n \notin 200..299
    BY CodesAssumption
  <2> QED
    BY <2>2, <2>3 DEF WellFormed, Accepted
<1>3. CASE \E a \in AcceptCodes : r = Reply(a, <<>>, <<>>) /\ VerbOf(c) # "Get"
  <2>1. r.code \in Nat /\ r.code \in 200..299 /\ r.item = <<>>
    <3>1. PICK a \in AcceptCodes : r = Reply(a, <<>>, <<>>)
      BY <1>3
    <3>2. r.code = a /\ r.item = <<>>
      BY <3>1 DEF Reply
    <3> QED
      BY <3>2, CodesAssumption
  <2>2. c.op \notin {"Get", "List"}
    BY <1>3 DEF VerbOf
  <2> QED
    BY <2>1, <2>2 DEF WellFormed, Accepted
<1>4. CASE VerbOf(c) = "Get" /\ r \in ReadReplies(t, target)
  <2>1. c.op \in {"Get", "List"}
    BY <1>4, ClientCallType DEF Writes
  <2>2. CASE IsLeaf(t, target)
    <3> DEFINE v == t[target]
    <3>1. PICK a \in AcceptCodes : r = Reply(a, <<v>>, SplitNames(v.data))
      BY <1>4, <2>2 DEF ReadReplies
    <3>2. v \in Values
      BY <1>1, <2>2 DEF IsLeaf, Trees
    <3>3. Item(v)
      BY <3>2, ValuesAssumption DEF Constructed, Item
    <3> HIDE DEF v
    <3>4. r.code \in 200..299 /\ r.item = <<v>> /\ r.names = SplitNames(v.data)
      BY <3>1, CodesAssumption DEF Reply
    <3> QED
      BY <2>1, <3>3, <3>4 DEF WellFormed, Accepted
  <2>3. CASE ~IsLeaf(t, target)
    <3>1. PICK a \in AcceptCodes, l \in Listings(t, target) :
            r = Reply(a, <<[format |-> "node", data |-> Join(l, <<Sep>>)]>>, l)
      BY <1>4, <2>3 DEF ReadReplies
    <3> DEFINE text == Join(l, <<Sep>>)
               i    == [format |-> "node", data |-> text]
    <3>2. SplitNames(text) = l /\ text \in Text
      BY <1>1, ListingReadsBack
    <3> HIDE DEF text
    <3>3. Item(i) /\ i.data = text
      BY <3>2 DEF Item
    <3>4. r.code \in 200..299 /\ r.item = <<i>> /\ r.names = l
      BY <3>1, CodesAssumption DEF Reply, text
    <3> HIDE DEF i
    <3> QED
      BY <2>1, <3>2, <3>3, <3>4 DEF WellFormed, Accepted
  <2> QED
    BY <2>2, <2>3
<1> QED
  BY <1>2, <1>3, <1>4 DEF Replies

\* The item as it may arrive, chr being left out.
Sent(i, x) == x = i \/ (i.format = "chr" /\ x = [i EXCEPT !.format = ""])

\* The item found in what arrives of a reply is the reply's, or there is none: a format
\* that was left out is filled in.
LEMMA ItemIsReplys ==
  ASSUME NEW reply, NEW i, Item(i), reply.item = <<i>>, NEW resp \in Arriving(reply)
  PROVE  ResultFor(resp, "1") \in {<<>>, <<i>>}
<1> DEFINE hits == {k \in 1..Len(resp.results) :
                      resp.results[k].ref = "1" /\ resp.results[k].items # <<>>}
           Shown(x) == [format |-> IF x.format = "" THEN "chr" ELSE x.format, data |-> x.data]
           right(x) == ResultsOf("1", <<x>>)
           other    == ResultsOf("2", <<Node>>)
           none     == ResultsOf("1", <<>>)
<1>1. ResultFor(resp, "1") =
        IF hits # {} THEN <<Shown(resp.results[Min(hits)].items[1])>> ELSE <<>>
  BY DEF ResultFor, Opt
<1>2. reply.item[1] = i /\ reply.item # <<>>
  OBVIOUS
<1>3. \/ resp.results = <<>>
      \/ \E x : /\ Sent(i, x)
                /\ resp.results \in {<<right(x)>>, <<other, right(x)>>, <<none, right(x)>>}
  <2>1. resp.results \in {<<>>} \cup ResultLists(i)
    BY <1>2 DEF Arriving
  <2> QED
    BY <2>1 DEF ResultLists, Sent
<1>4. ASSUME NEW x, Sent(i, x)
      PROVE  Shown(x) = i
  <2>1. CASE x = i
    BY <2>1 DEF Item
  <2>2. CASE i.format = "chr" /\ x = [i EXCEPT !.format = ""]
    <3>1. x.format = "" /\ x.data = i.data
      BY <2>2 DEF Item
    <3> QED
      BY <2>2, <3>1 DEF Item
  <2> QED
    BY <1>4, <2>1, <2>2 DEF Sent
<1>5. /\ \A x : right(x).ref = "1" /\ right(x).items = <<x>> /\ right(x).items # <<>>
      /\ other.ref = "2" /\ none.items = <<>>
  BY DEF ResultsOf
<1> HIDE DEF right, other, none
<1>6. CASE resp.results = <<>>
  BY <1>1, <1>6
<1>7. ASSUME NEW x, Sent(i, x),
             NEW at \in 1..Len(resp.results), resp.results[at] = right(x),
             \A k \in 1..Len(resp.results) :
               k # at => resp.results[k].ref # "1" \/ resp.results[k].items = <<>>
      PROVE  ResultFor(resp, "1") = <<i>>
  <2>1. at \in hits /\ \A k \in hits : k = at
    BY <1>5, <1>7, Zenon
  <2> HIDE DEF hits
  <2>2. Min(hits) = at
    BY <2>1, OnlyIsMin
  <2>3. resp.results[Min(hits)].items[1] = x
    <3>1. right(x).items[1] = x
      BY <1>5
    <3> QED
      BY <1>7, <2>2, <3>1
  <2>4. Shown(x) = i
    BY <1>4, <1>7
  <2> HIDE DEF Shown
  <2> QED
    BY <1>1, <2>1, <2>3, <2>4
<1>8. ASSUME NEW x, Sent(i, x), NEW y,
             y = right(x), resp.results \in {<<y>>, <<other, y>>, <<none, y>>}
      PROVE  ResultFor(resp, "1") = <<i>>
  <2>1. CASE resp.results = <<y>>
    <3>1. Len(resp.results) = 1 /\ resp.results[1] = right(x)
      BY <1>8, <2>1
    <3> QED
      BY <1>7, <1>8, <3>1
  <2>2. CASE resp.results \in {<<other, y>>, <<none, y>>}
    <3>1. /\ Len(resp.results) = 2 /\ resp.results[2] = right(x)
          /\ resp.results[1] \in {other, none}
      BY <1>8, <2>2
    <3>2. \A k \in 1..Len(resp.results) :
            k # 2 => resp.results[k].ref # "1" \/ resp.results[k].items = <<>>
      BY <1>5, <3>1
    <3> QED
      BY <1>7, <1>8, <3>1, <3>2
  <2> QED
    BY <1>8, <2>1, <2>2
<1> QED
  BY <1>3, <1>6, <1>8

\* A call reports what was replied, or claims nothing.
LEMMA InterpretIsReport ==
  ASSUME NEW c, NEW reply, WellFormed(c, reply), NEW resp \in Arriving(reply)
  PROVE  Interpret(c, resp) \in {Unknown, Report(c, reply)}
<1> DEFINE code  == StatusFor(resp, "1")
           value == ResultFor(resp, "1")
<1>1. code \in {<<>>, <<reply.code>>}
  BY StatusIsReplys
<1>2. CASE resp.form = "bad" \/ code = <<>>
  BY <1>2 DEF Interpret
<1>3. SuccessCode(reply.code) <=> Accepted(reply)
  <2>1. reply.code \in Nat
    BY DEF WellFormed
  <2> QED
    BY <2>1 DEF SuccessCode, Accepted
<1>4. CASE resp.form # "bad" /\ code = <<reply.code>> /\ ~Accepted(reply)
  BY <1>3, <1>4 DEF Interpret, Report
<1>5. CASE resp.form # "bad" /\ code = <<reply.code>> /\ Accepted(reply)
  <2>1. CASE c.op \notin {"Get", "List"}
    BY <1>3, <1>5, <2>1 DEF Interpret, Report
  <2>2. CASE c.op \in {"Get", "List"}
    <3>1. PICK i : Item(i) /\ reply.item = <<i>> /\ reply.names = SplitNames(i.data)
      BY <1>5, <2>2 DEF WellFormed
    <3>2. value \in {<<>>, <<i>>}
      BY <3>1, ItemIsReplys
    <3>3. reply.item[1] = i
      BY <3>1
    <3> HIDE DEF value, code
    <3>4. CASE value = <<>>
      BY <1>3, <1>5, <2>2, <3>4 DEF Interpret, value, code
    <3>5. CASE value = <<i>>
      BY <1>3, <1>5, <2>2, <3>1, <3>3, <3>5 DEF Interpret, Report, value, code
    <3> QED
      BY <3>2, <3>4, <3>5
  <2> QED
    BY <2>1, <2>2
<1> QED
  BY <1>1, <1>2, <1>4, <1>5

-----------------------------------------------------------------------------
(***************************************************************************)
(* What is under way.                                                      *)
(***************************************************************************)

\* A reply the device may have given to a call.
RepliedTo(c, told) ==
  \E t \in Trees : \E r \in Replies(VerbOf(c), Target(c), t) : told = <<r>>

\* What a call may return.
Told(o) ==
  /\ o.err \in {"nil", "status", "exchange"}
  /\ \A i \in DOMAIN o.names : o.names[i] # <<>>

\* A goroutine's variables belong to its call: the request on the wire is the call's, the
\* reply noted under its number was given to that very call.
Carried ==
  /\ tree \in Trees
  /\ call = [p \in Procs |-> call[p]]
  /\ wire = [p \in Procs |-> wire[p]]
  /\ \A p \in Procs :
       /\ pc[p] = "idle" => id[p] = 0 /\ call[p] = NoCall
       /\ pc[p] # "idle" => call[p] \in ClientCalls
       /\ pc[p] = "done" => Told(out[p])
       /\ pc[p] # "done" => out[p] = Underway
       /\ wire[p] # <<>> => wire[p] = Request(call[p])
       /\ pc[p] = "sending" /\ log[id[p]] # <<>> => RepliedTo(call[p], log[id[p]])
  /\ \A l \in late : \E c \in ClientCalls : l = [id |-> l.id, doc |-> Request(c)]

\* What is told claims nothing, or is the report of a reply.
LEMMA ReportsAreTold ==
  ASSUME NEW c, NEW r, WellFormed(c, r)
  PROVE  Told(Report(c, r)) /\ Told(Unknown)
<1>1. ASSUME NEW e \in {"nil", "status", "exchange"}, NEW n, NEW v
      PROVE  Told(Outcome(e, n, v, <<>>))
  BY DEF Told, Outcome
<1>2. ASSUME NEW i, Item(i) PROVE Told(Listed(SplitNames(i.data)))
  BY <1>2, NamesAreNotEmpty DEF Item, Told, Listed, Outcome
<1>3. c.op = "List" /\ Accepted(r) => Told(Listed(r.names))
  BY <1>2 DEF WellFormed
<1> QED
  BY <1>1, <1>3 DEF Report, Refused, Read, Success, Unknown

\* The device acts on the call it was made with.
LEMMA ActIsTheCalls ==
  ASSUME NEW c \in ClientCalls, NEW n, Act(n, Request(c))
  PROVE  \E r \in Replies(VerbOf(c), Target(c), tree) :
           /\ tree' = TreeAfter(r, VerbOf(c), Target(c), c.val, tree)
           /\ log' = [log EXCEPT ![n] = <<r>>]
<1>1. Received(Request(c)[1]) = Arrived(c)
  BY RequestReadsBack
<1>2. Arrived(c).verb = VerbOf(c) /\ Norm(Arrived(c).uri) = Target(c)
  BY DEF Arrived, Target
<1>3. PICK r \in Replies(VerbOf(c), Target(c), tree) :
        /\ tree' = TreeAfter(r, VerbOf(c), Target(c), Arrived(c).value, tree)
        /\ log' = [log EXCEPT ![n] = <<r>>]
  BY <1>1, <1>2 DEF Act
<1> QED
  BY <1>3, EffectIsTheCalls

\* An Executor that has made no call carries nothing.
LEMMA InitCarried == Init => Carried
BY DEF Init, Carried

\* A call puts its own request on the wire.
LEMMA CallCarried ==
  ASSUME IInv, Carried, NEW p \in Procs, NEW c \in ClientCalls, Call(p, c)
  PROVE  Carried'
<1>1. issued + 1 \in 1..MaxCalls /\ log[issued + 1] = <<>>
  BY MaxCallsAssumption DEF Call, IInv, Shape, InFlight
<1>2. /\ pc'[p] = "sending" /\ id'[p] = issued + 1 /\ call'[p] = c /\ wire'[p] = Request(c)
      /\ \A q \in Procs \ {p} : /\ pc'[q] = pc[q] /\ id'[q] = id[q]
                                /\ call'[q] = call[q] /\ wire'[q] = wire[q]
      /\ call' = [q \in Procs |-> call'[q]] /\ wire' = [q \in Procs |-> wire'[q]]
      /\ UNCHANGED <<tree, out, late, log>> /\ pc[p] = "idle"
  BY DEF Call, IInv, Shape, Carried
<1>3. ASSUME NEW q \in Procs
      PROVE  /\ pc'[q] = "idle" => id'[q] = 0 /\ call'[q] = NoCall
             /\ pc'[q] # "idle" => call'[q] \in ClientCalls
             /\ pc'[q] = "done" => Told(out[q])
             /\ pc'[q] # "done" => out[q] = Underway
             /\ wire'[q] # <<>> => wire'[q] = Request(call'[q])
             /\ pc'[q] = "sending" /\ log[id'[q]] # <<>> => RepliedTo(call'[q], log[id'[q]])
  BY <1>1, <1>2 DEF Carried
<1> QED
  BY <1>2, <1>3 DEF Carried, Told, RepliedTo

\* A goroutine that returns has no call and no outcome.
LEMMA ReturnCarried ==
  ASSUME IInv, Carried, NEW p \in Procs, Return(p)
  PROVE  Carried'
<1>1. /\ pc'[p] = "idle" /\ id'[p] = 0 /\ call'[p] = NoCall /\ out'[p] = Underway
      /\ \A q \in Procs \ {p} : /\ pc'[q] = pc[q] /\ id'[q] = id[q]
                                /\ call'[q] = call[q] /\ out'[q] = out[q]
      /\ call' = [q \in Procs |-> call'[q]] /\ UNCHANGED <<tree, wire, late, log>> /\ wire[p] = <<>>
  BY DEF Return, IInv, Shape, InFlight, Carried
<1>2. ASSUME NEW q \in Procs
      PROVE  /\ pc'[q] = "idle" => id'[q] = 0 /\ call'[q] = NoCall
             /\ pc'[q] # "idle" => call'[q] \in ClientCalls
             /\ pc'[q] = "done" => Told(out'[q])
             /\ pc'[q] # "done" => out'[q] = Underway
             /\ wire[q] # <<>> => wire[q] = Request(call'[q])
             /\ pc'[q] = "sending" /\ log[id'[q]] # <<>> => RepliedTo(call'[q], log[id'[q]])
  BY <1>1 DEF Carried
<1> QED
  BY <1>1, <1>2 DEF Carried, Told, RepliedTo

\* The device's act: the reply is one to the call, and the tree one of values.
LEMMA ServeCarried ==
  ASSUME IInv, Carried, NEW p \in Procs, Serve(p)
  PROVE  Carried'
<1>0. pc[p] = "sending" /\ id[p] \in 1..MaxCalls /\ wire[p] = Request(call[p])
      /\ call[p] \in ClientCalls
  BY DEF Serve, IInv, Shape, InFlight, Carried
<1>1. PICK r \in Replies(VerbOf(call[p]), Target(call[p]), tree) :
        /\ tree' = TreeAfter(r, VerbOf(call[p]), Target(call[p]), call[p].val, tree)
        /\ log' = [log EXCEPT ![id[p]] = <<r>>]
  BY <1>0, ActIsTheCalls DEF Serve
<1>2. tree' \in Trees
  BY <1>0, <1>1, TreeAfterType DEF Carried
<1>3. log'[id[p]] = <<r>> /\ RepliedTo(call[p], <<r>>)
  BY <1>0, <1>1 DEF IInv, Shape, Carried, RepliedTo
<1>4. \A q \in Procs \ {p} : pc[q] = "sending" => log'[id[q]] = log[id[q]]
  BY <1>0, <1>1 DEF IInv, Shape, InFlight
<1>5. /\ \A q \in Procs : wire'[q] = <<>> \/ wire'[q] = wire[q]
      /\ wire' = [q \in Procs |-> wire'[q]]
      /\ UNCHANGED <<pc, id, call, out, late>>
  BY DEF Serve, IInv, Shape, Carried
<1>6. ASSUME NEW q \in Procs
      PROVE  /\ wire'[q] # <<>> => wire'[q] = Request(call[q])
             /\ pc[q] = "sending" /\ log'[id[q]] # <<>> => RepliedTo(call[q], log'[id[q]])
  BY <1>0, <1>3, <1>4, <1>5 DEF Carried
<1> QED
  BY <1>2, <1>5, <1>6 DEF Carried, Told, RepliedTo

\* The device acts on a late request as it was called, and no goroutine is told.
LEMMA ServeLateCarried ==
  ASSUME IInv, Carried, NEW l \in late, ServeLate(l)
  PROVE  Carried'
<1>0. PICK c \in ClientCalls : l = [id |-> l.id, doc |-> Request(c)]
  BY DEF Carried
<1>1. PICK r \in Replies(VerbOf(c), Target(c), tree) :
        /\ tree' = TreeAfter(r, VerbOf(c), Target(c), c.val, tree)
        /\ log' = [log EXCEPT ![l.id] = <<r>>]
  BY <1>0, ActIsTheCalls DEF ServeLate
<1>2. tree' \in Trees
  BY <1>1, TreeAfterType DEF Carried
<1>3. \A q \in Procs : pc[q] = "sending" => log'[id[q]] = log[id[q]]
  BY <1>1 DEF IInv, Shape, InFlight
<1>4. late' \subseteq late /\ UNCHANGED <<pc, id, call, out, wire>>
  BY DEF ServeLate
<1> QED
  BY <1>2, <1>3, <1>4 DEF Carried, Told, RepliedTo

\* A call has its outcome: nothing is on its wire any more.
LEMMA FinishCarried ==
  ASSUME IInv, Carried, NEW p \in Procs, NEW o, Finish(p, o), pc[p] = "sending", Told(o),
         \A l \in late' : l \in late \/ l = [id |-> id[p], doc |-> Request(call[p])]
  PROVE  Carried'
<1>1. /\ pc'[p] = "done" /\ out'[p] = o
      /\ \A q \in Procs \ {p} : pc'[q] = pc[q] /\ out'[q] = out[q]
      /\ \A q \in Procs : wire'[q] = <<>> \/ wire'[q] = wire[q]
      /\ wire' = [q \in Procs |-> wire'[q]]
      /\ UNCHANGED <<tree, id, call, log>>
  BY DEF Finish, IInv, Shape, Carried
<1>2. ASSUME NEW q \in Procs
      PROVE  /\ pc'[q] = "idle" => id[q] = 0 /\ call[q] = NoCall
             /\ pc'[q] # "idle" => call[q] \in ClientCalls
             /\ pc'[q] = "done" => Told(out'[q])
             /\ pc'[q] # "done" => out'[q] = Underway
             /\ wire'[q] # <<>> => wire'[q] = Request(call[q])
             /\ pc'[q] = "sending" /\ log[id[q]] # <<>> => RepliedTo(call[q], log[id[q]])
  BY <1>1 DEF Carried
<1>3. ASSUME NEW l \in late'
      PROVE  \E c \in ClientCalls : l = [id |-> l.id, doc |-> Request(c)]
  <2>1. CASE l \in late
    BY <2>1 DEF Carried
  <2>2. CASE l = [id |-> id[p], doc |-> Request(call[p])]
    <3>1. call[p] \in ClientCalls
      BY DEF Carried
    <3>2. l.id = id[p]
      BY <2>2
    <3> QED
      BY <2>2, <3>1, <3>2
  <2> QED
    BY <2>1, <2>2
<1> QED
  BY <1>1, <1>2, <1>3 DEF Carried, Told, RepliedTo

\* The outcome of a call that reads a response.
LEMMA ReceivedIsReport ==
  ASSUME IInv, Carried, NEW p \in Procs, Receive(p)
  PROVE  /\ log[id[p]] # <<>> /\ pc[p] = "sending"
         /\ \E o \in {Unknown, Report(call[p], log[id[p]][1])} : Finish(p, o) /\ Told(o)
<1>1. pc[p] = "sending" /\ log[id[p]] # <<>> /\ call[p] \in ClientCalls
  BY DEF Receive, IInv, InFlight, Carried
<1>2. PICK t \in Trees : \E r \in Replies(VerbOf(call[p]), Target(call[p]), t) : log[id[p]] = <<r>>
  BY <1>1 DEF Carried, RepliedTo
<1>3. PICK r \in Replies(VerbOf(call[p]), Target(call[p]), t) : log[id[p]] = <<r>>
  BY <1>2
<1>4. WellFormed(call[p], r) /\ log[id[p]][1] = r
  BY <1>1, <1>3, RepliesAreWellFormed
<1>5. PICK resp \in Arriving(r) : Finish(p, Interpret(call[p], resp))
  BY <1>4 DEF Receive
<1>6. Interpret(call[p], resp) \in {Unknown, Report(call[p], r)}
  BY <1>4, <1>5, InterpretIsReport
<1> QED
  BY <1>1, <1>4, <1>5, <1>6, ReportsAreTold

\* Every step.
LEMMA NextCarried == IInv /\ Carried /\ [Next]_vars => Carried'
<1> SUFFICES ASSUME IInv, Carried, [Next]_vars PROVE Carried'
  OBVIOUS
<1>1. ASSUME NEW p \in Procs, SendFails(p) PROVE Carried'
  <2>1. Finish(p, Unknown) /\ pc[p] = "sending"
    BY <1>1 DEF SendFails
  <2>2. Told(Unknown)
    BY DEF Told, Unknown, Outcome
  <2>3. \A l \in late' : l \in late \/ l = [id |-> id[p], doc |-> Request(call[p])]
    BY <1>1 DEF SendFails, Carried
  <2> QED
    BY <2>1, <2>2, <2>3, FinishCarried
<1>2. ASSUME NEW p \in Procs, Receive(p) PROVE Carried'
  <2>1. late' = late
    BY <1>2 DEF Receive
  <2> QED
    BY <1>2, <2>1, ReceivedIsReport, FinishCarried
<1>3. CASE UNCHANGED vars
  BY <1>3 DEF vars, Carried, Told, RepliedTo
<1> QED
  BY <1>1, <1>2, <1>3, CallCarried, ReturnCarried, ServeCarried, ServeLateCarried DEF Next

\* Along every behaviour.
THEOREM CarriedAlways == Spec => [](IInv /\ Carried)
<1>1. IInv /\ Carried /\ [Next]_vars => (IInv /\ Carried)'
  BY NextIInv, NextCarried
<1> QED
  BY <1>1, InitIInv, InitCarried, PTL DEF Spec

\* Every variable keeps its type: what is on a wire is the request of a call, the tree
\* has values on paths, and a name that is listed is not empty.
THEOREM TypeCorrect == Spec => []TypeOK
<1>1. IInv /\ Carried => TypeOK
  <2> SUFFICES ASSUME IInv, Carried PROVE TypeOK
    OBVIOUS
  <2>1. call \in [Procs -> ClientCalls \cup {NoCall}]
    <3>1. \A p \in Procs : call[p] \in ClientCalls \cup {NoCall}
      BY DEF Carried
    <3>2. call = [p \in Procs |-> call[p]]
      BY DEF Carried
    <3> QED
      BY <3>1, <3>2
  <2>2. wire \in [Procs -> {<<>>} \cup {Request(c) : c \in ClientCalls}]
    <3>1. \A p \in Procs : wire[p] \in {<<>>} \cup {Request(c) : c \in ClientCalls}
      BY DEF IInv, Shape, InFlight, Carried
    <3>2. wire = [p \in Procs |-> wire[p]]
      BY DEF Carried
    <3> QED
      BY <3>1, <3>2
  <2>3. ASSUME NEW p \in Procs
        PROVE  /\ out[p].err \in {"pending", "nil", "status", "exchange"}
               /\ \A i \in DOMAIN out[p].names : out[p].names[i] # <<>>
    <3>1. Underway.err = "pending" /\ Underway.names = <<>>
      BY DEF Underway, Outcome
    <3>2. out[p] = Underway \/ Told(out[p])
      BY DEF Carried
    <3> QED
      BY <3>1, <3>2 DEF Told
  <2> QED
    BY <2>1, <2>2, <2>3 DEF TypeOK, IInv, Shape, InFlight, Carried
<1> QED
  BY <1>1, CarriedAlways, PTL

-----------------------------------------------------------------------------
(***************************************************************************)
(* The executor implements the calls of RemoteTree: every step of Executor *)
(* is a step of RemoteTree or leaves its variables alone.                  *)
(***************************************************************************)

\* Both modules speak of the device in the same words.
LEMMA SameNodes ==
  /\ Remote!Paths = Paths
  /\ Remote!Trees = Trees
  /\ \A u : Remote!Norm(u) = Norm(u)
  /\ \A t, target : Remote!Exists(t, target) = Exists(t, target)
  /\ \A t, target : Remote!Listings(t, target) = Listings(t, target)
  /\ \A t, target : Remote!WithoutSubtree(t, target) = WithoutSubtree(t, target)
<1>1. \A u : Remote!Norm(u) = Norm(u)
  BY DEF Remote!Norm, Norm, Remote!Sep, Sep, Max, Remote!Max
<1>2. \A q, t : Remote!Beneath(q, t) = Beneath(q, t)
  BY DEF Remote!Beneath, Beneath, Remote!Sep, Sep, Remote!IsPrefix, IsPrefix
<1>3. \A q, t : Remote!ChildName(q, t) = ChildName(q, t)
  BY DEF Remote!ChildName, ChildName, Remote!Sep, Sep, Remote!Min, Min
<1>4. \A q, t : Remote!Inside(q, t) = Inside(q, t)
  BY <1>2 DEF Remote!Inside, Inside
<1>5. Remote!Paths = Paths /\ Remote!Trees = Trees
  BY <1>1 DEF Remote!Paths, Paths, Remote!Trees, Trees
<1>6. \A t : Remote!Nodes(t) = Nodes(t)
  BY <1>5 DEF Remote!Nodes, Nodes
<1>7. \A S, t : Remote!ChildNames(S, t) = ChildNames(S, t)
  BY <1>2, <1>3 DEF Remote!ChildNames, ChildNames
<1>8. \A S : Remote!SetToSeqs(S) = SetToSeqs(S)
  BY DEF Remote!SetToSeqs, SetToSeqs, Remote!Cardinality, Cardinality
<1>9. \A t, target : Remote!Exists(t, target) = Exists(t, target)
  BY <1>4, <1>6 DEF Remote!Exists, Exists, Remote!Subtree, Subtree
<1>10. \A t, target : Remote!Listings(t, target) = Listings(t, target)
  BY <1>6, <1>7, <1>8 DEF Remote!Listings, Listings
<1>11. \A t, target : Remote!WithoutSubtree(t, target) = WithoutSubtree(t, target)
  BY <1>4, <1>5 DEF Remote!WithoutSubtree, WithoutSubtree
<1> QED
  BY <1>1, <1>5, <1>9, <1>10, <1>11

\* Of its replies and what they do.
LEMMA SameReplies ==
  /\ \A v, target, t : Remote!Replies(v, target, t) = Replies(v, target, t)
  /\ \A r, v, target, x, t : Remote!TreeAfter(r, v, target, x, t) = TreeAfter(r, v, target, x, t)
<1>1. \A c, i, n : Remote!Reply(c, i, n) = Reply(c, i, n)
  BY DEF Remote!Reply, Reply
<1>2. \A s, t : Remote!Join(s, t) = Join(s, t)
  BY DEF Remote!Join, Join
<1>3. \A s : Remote!SplitNames(s) = SplitNames(s)
  <2>1. \A s : Remote!Segments(s) = Segments(s)
    BY DEF Remote!Segments, Segments, Remote!Sep, Sep
  <2> QED
    BY <2>1 DEF Remote!SplitNames, SplitNames
<1>4. \A t, target : Remote!IsLeaf(t, target) = IsLeaf(t, target)
  BY DEF Remote!IsLeaf, IsLeaf, Remote!Node, Node
<1>5. \A t, target : Remote!Refusals(t, target) = Refusals(t, target)
  BY <1>1, SameNodes DEF Remote!Refusals, Refusals
<1>6. \A t, target : Remote!ReadReplies(t, target) = ReadReplies(t, target)
  <2> TAKE t, target
  <2>1. <<Remote!Sep>> = <<Sep>>
    BY DEF Remote!Sep, Sep
  <2>2. CASE IsLeaf(t, target)
    BY <1>1, <1>3, <1>4, <2>2 DEF Remote!ReadReplies, ReadReplies
  <2>3. CASE ~IsLeaf(t, target)
    BY <1>1, <1>2, <1>4, <2>1, <2>3, SameNodes DEF Remote!ReadReplies, ReadReplies
  <2> QED
    BY <2>2, <2>3
<1>7. \A v, target, t : Remote!Replies(v, target, t) = Replies(v, target, t)
  BY <1>1, <1>5, <1>6, SameNodes DEF Remote!Replies, Replies
<1>8. \A r, v, target, x, t : Remote!TreeAfter(r, v, target, x, t) = TreeAfter(r, v, target, x, t)
  BY SameNodes DEF Remote!TreeAfter, TreeAfter, Remote!Accepted, Accepted,
                   Remote!EffectOn, EffectOn
<1> QED
  BY <1>7, <1>8

\* And of calls and their outcomes.
LEMMA SameCalls ==
  /\ Remote!ClientCalls = ClientCalls
  /\ Remote!NoCall = NoCall
  /\ Remote!Unknown = Unknown /\ Remote!Underway = Underway
  /\ \A c : Remote!VerbOf(c) = VerbOf(c) /\ Remote!Target(c) = Target(c)
  /\ \A c, r : Remote!Report(c, r) = Report(c, r)
<1>1. Remote!ClientCalls = ClientCalls
  BY DEF Remote!ClientCalls, ClientCalls, Remote!Calls, Calls, Remote!Reads, Reads,
         Remote!Stores, Stores
<1>2. Remote!NoCall = NoCall
  BY DEF Remote!NoCall, NoCall
<1>3. \A e, n, v, s : Remote!Outcome(e, n, v, s) = Outcome(e, n, v, s)
  BY DEF Remote!Outcome, Outcome
<1>4. Remote!Unknown = Unknown /\ Remote!Underway = Underway
  BY <1>3 DEF Remote!Unknown, Unknown, Remote!Underway, Underway
<1>5. \A c : Remote!VerbOf(c) = VerbOf(c) /\ Remote!Target(c) = Target(c)
  BY SameNodes DEF Remote!VerbOf, VerbOf, Remote!Target, Target
<1>6. \A c, r : Remote!Report(c, r) = Report(c, r)
  BY <1>3 DEF Remote!Report, Report, Remote!Accepted, Accepted, Remote!Refused, Refused,
              Remote!Read, Read, Remote!Listed, Listed, Remote!Success, Success
<1> QED
  BY <1>1, <1>2, <1>4, <1>5, <1>6

\* A goroutine's slot, as RemoteTree has it.
Slot(s, n, c, r, o) == [st |-> s, id |-> n, call |-> c, reply |-> r, out |-> o]

\* The fields of a slot.
LEMMA SlotParts ==
  ASSUME NEW s, NEW n, NEW c, NEW r, NEW o
  PROVE  LET v == Slot(s, n, c, r, o)
         IN  v.st = s /\ v.id = n /\ v.call = c /\ v.reply = r /\ v.out = o
BY DEF Slot

Strays == {StrayOf(l) : l \in late}

\* The slot of each goroutine, before and after a step.
LEMMA Slots ==
  ASSUME NEW p \in Procs
  PROVE  /\ slotBar[p] = Slot(StateOf(p), id[p], call[p],
                              IF pc[p] = "sending" THEN log[id[p]] ELSE <<>>, out[p])
         /\ slotBar'[p] = Slot(StateOf(p)', id'[p], call'[p],
                               IF pc'[p] = "sending" THEN log'[id'[p]] ELSE <<>>, out'[p])
BY DEF slotBar, Slot

\* A step of one goroutine changes one slot.
LEMMA OneSlot ==
  ASSUME NEW p \in Procs,
         \A q \in Procs \ {p} :
           /\ pc'[q] = pc[q] /\ id'[q] = id[q] /\ call'[q] = call[q] /\ out'[q] = out[q]
           /\ pc[q] = "sending" => log'[id[q]] = log[id[q]],
         \A q \in Procs : pc[q] \in {"idle", "sending", "done"}
  PROVE  slotBar' = [slotBar EXCEPT ![p] = slotBar'[p]]
<1>1. \A q \in Procs \ {p} : StateOf(q)' = StateOf(q)
  BY DEF StateOf
<1>2. \A q \in Procs \ {p} : slotBar'[q] = slotBar[q]
  <2> TAKE q \in Procs \ {p}
  <2>1. q \in Procs
    OBVIOUS
  <2>2. (IF pc'[q] = "sending" THEN log'[id'[q]] ELSE <<>>) =
        (IF pc[q] = "sending" THEN log[id[q]] ELSE <<>>)
    OBVIOUS
  <2> QED
    BY <1>1, <2>1, <2>2, Slots
<1>3. /\ slotBar = [q \in Procs |-> slotBar[q]]
      /\ slotBar' = [q \in Procs |-> slotBar'[q]]
  BY DEF slotBar
<1> QED
  BY <1>2, <1>3

\* The changes RemoteTree's actions make to a goroutine's slot.
Replied(f, p, r)  == [f EXCEPT ![p].st = "executed", ![p].reply = <<r>>]
Finished(f, p, o) == [f EXCEPT ![p].st = "done", ![p].reply = <<>>, ![p].out = o]

\* The device has replied.
LEMMA SlotReplied ==
  ASSUME NEW f, NEW p \in DOMAIN f, NEW s, NEW n, NEW c, NEW r, NEW o,
         f[p] = Slot(s, n, c, r, o), NEW r2
  PROVE  Replied(f, p, r2) = [f EXCEPT ![p] = Slot("executed", n, c, <<r2>>, o)]
<1> DEFINE v == f[p]
           w(s3) == [v EXCEPT !.st = s3]
           x(s3, r3) == [w(s3) EXCEPT !.reply = r3]
<1>1. v = Slot(s, n, c, r, o)
  OBVIOUS
<1> HIDE DEF v
<1>2. ASSUME NEW s3, NEW r3
      PROVE  x(s3, r3) = Slot(s3, n, c, r3, o)
  <2>1. w(s3) = Slot(s3, n, c, r, o)
    BY <1>1 DEF Slot
  <2> HIDE DEF w
  <2> QED
    BY <2>1 DEF Slot
<1>3. [v EXCEPT !.st = "executed", !.reply = <<r2>>] = Slot("executed", n, c, <<r2>>, o)
  <2>1. [v EXCEPT !.st = "executed", !.reply = <<r2>>] = x("executed", <<r2>>)
    OBVIOUS
  <2> HIDE DEF x
  <2> QED
    BY <1>2, <2>1
<1>4. Replied(f, p, r2) = [f EXCEPT ![p] = [v EXCEPT !.st = "executed", !.reply = <<r2>>]]
  BY DEF Replied, v
<1> QED
  BY <1>3, <1>4

\* The call has its outcome.
LEMMA SlotFinished ==
  ASSUME NEW f, NEW p \in DOMAIN f, NEW s, NEW n, NEW c, NEW r, NEW o,
         f[p] = Slot(s, n, c, r, o), NEW o2
  PROVE  Finished(f, p, o2) = [f EXCEPT ![p] = Slot("done", n, c, <<>>, o2)]
<1> DEFINE v == f[p]
           w(s3) == [v EXCEPT !.st = s3]
           x(s3, r3) == [w(s3) EXCEPT !.reply = r3]
<1>1. v = Slot(s, n, c, r, o)
  OBVIOUS
<1> HIDE DEF v
<1>2. ASSUME NEW s3, NEW r3
      PROVE  x(s3, r3) = Slot(s3, n, c, r3, o)
  <2>1. w(s3) = Slot(s3, n, c, r, o)
    BY <1>1 DEF Slot
  <2> HIDE DEF w
  <2> QED
    BY <2>1 DEF Slot
<1>3. [v EXCEPT !.st = "done", !.reply = <<>>, !.out = o2] = Slot("done", n, c, <<>>, o2)
  <2>1. [v EXCEPT !.st = "done", !.reply = <<>>, !.out = o2] = [x("done", <<>>) EXCEPT !.out = o2]
    OBVIOUS
  <2> HIDE DEF x
  <2>2. x("done", <<>>) = Slot("done", n, c, <<>>, o)
    BY <1>2
  <2> QED
    BY <2>1, <2>2 DEF Slot
<1>4. Finished(f, p, o2)
        = [f EXCEPT ![p] = [v EXCEPT !.st = "done", !.reply = <<>>, !.out = o2]]
  BY DEF Finished, v
<1> QED
  BY <1>3, <1>4

\* A late request is a call that strayed.
LEMMA StrayOfCall ==
  ASSUME NEW c \in ClientCalls, NEW n
  PROVE  StrayOf([id |-> n, doc |-> Request(c)]) = Remote!Stray(n, c)
<1> DEFINE l   == [id |-> n, doc |-> Request(c)]
           cmd == Received(Request(c)[1])
<1>1. cmd = Arrived(c)
  BY RequestReadsBack
<1>2. l.id = n /\ l.doc = Request(c)
  OBVIOUS
<1>3. StrayOf(l) = [id |-> n, verb |-> cmd.verb, target |-> Norm(cmd.uri),
                    val |-> IF cmd.verb \in Writes THEN cmd.value ELSE NoValue]
  BY <1>2 DEF StrayOf, Writes
<1>4. cmd.verb = VerbOf(c) /\ Norm(cmd.uri) = Target(c)
      /\ cmd.value = IF c.op \in Writes THEN c.val ELSE Null
  BY <1>1 DEF Arrived, Target
<1>5. (IF cmd.verb \in Writes THEN cmd.value ELSE NoValue) = c.val
  BY <1>4, ClientCallType DEF Writes
<1> HIDE DEF l, cmd
<1>6. StrayOf(l) = [id |-> n, verb |-> VerbOf(c), target |-> Target(c), val |-> c.val]
  BY <1>3, <1>4, <1>5
<1> QED
  BY <1>6, SameCalls DEF Remote!Stray, l

\* A method's first step makes the call.
LEMMA CallInvokes ==
  ASSUME IInv, Carried, NEW p \in Procs, NEW c \in ClientCalls, Call(p, c)
  PROVE  Remote!Invoke(p, c)
<1>1. issued + 1 \in 1..MaxCalls /\ log[issued + 1] = <<>>
  BY MaxCallsAssumption DEF Call, IInv, Shape, InFlight
<1>2. /\ pc[p] = "idle" /\ pc'[p] = "sending" /\ id'[p] = issued + 1 /\ call'[p] = c
      /\ issued' = issued + 1
      /\ \A q \in Procs \ {p} : pc'[q] = pc[q] /\ id'[q] = id[q] /\ call'[q] = call[q]
      /\ UNCHANGED <<tree, out, late, log>>
  BY DEF Call, IInv, Shape, Carried
<1>3. slotBar' = [slotBar EXCEPT ![p] = slotBar'[p]]
  BY <1>2, OneSlot DEF IInv, Shape
<1>4. slotBar'[p] = Slot("called", issued + 1, c, <<>>, Underway)
  <2>1. StateOf(p)' = "called"
    BY <1>1, <1>2 DEF StateOf
  <2>2. out'[p] = Underway
    BY <1>2 DEF Carried
  <2> QED
    BY <1>1, <1>2, <2>1, <2>2, Slots
<1>5. slotBar[p].st = "idle"
  <2>1. StateOf(p) = "idle"
    BY <1>2 DEF StateOf
  <2>2. slotBar[p] = Slot("idle", id[p], call[p], <<>>, out[p])
    BY <1>2, <2>1, Slots
  <2> QED
    BY <2>2, SlotParts
<1>6. Strays' = Strays
  BY <1>2 DEF Strays
<1> QED
  BY <1>2, <1>3, <1>4, <1>5, <1>6, SameCalls DEF Remote!Invoke, Slot, Strays

\* The device's act on a request is the call's taking effect.
LEMMA ServeExecutes ==
  ASSUME IInv, Carried, NEW p \in Procs, Serve(p)
  PROVE  Remote!Execute(p)
<1>0. /\ pc[p] = "sending" /\ id[p] \in 1..MaxCalls /\ wire[p] = Request(call[p])
      /\ call[p] \in ClientCalls /\ log[id[p]] = <<>>
  BY DEF Serve, IInv, Shape, InFlight, Carried
<1>1. PICK r \in Replies(VerbOf(call[p]), Target(call[p]), tree) :
        /\ tree' = TreeAfter(r, VerbOf(call[p]), Target(call[p]), call[p].val, tree)
        /\ log' = [log EXCEPT ![id[p]] = <<r>>]
  BY <1>0, ActIsTheCalls DEF Serve
<1>2. log'[id[p]] = <<r>>
  BY <1>0, <1>1 DEF IInv, Shape
<1>3. UNCHANGED <<issued, pc, id, call, out, late>>
  BY DEF Serve
<1>4. slotBar' = [slotBar EXCEPT ![p] = slotBar'[p]]
  <2>1. \A q \in Procs \ {p} : pc[q] = "sending" => log'[id[q]] = log[id[q]]
    BY <1>0, <1>1 DEF IInv, Shape, InFlight
  <2> QED
    BY <1>3, <2>1, OneSlot DEF IInv, Shape
<1>5. slotBar[p] = Slot("called", id[p], call[p], <<>>, out[p])
  <2>1. StateOf(p) = "called"
    BY <1>0 DEF StateOf
  <2> QED
    BY <1>0, <2>1, Slots
<1>6. slotBar'[p] = Slot("executed", id[p], call[p], <<r>>, out[p])
  <2>1. StateOf(p)' = "executed"
    <3>1. pc'[p] = "sending" /\ log'[id'[p]] = <<r>>
      BY <1>0, <1>2, <1>3
    <3>2. <<r>> # <<>>
      OBVIOUS
    <3> QED
      BY <3>1, <3>2 DEF StateOf
  <2> QED
    BY <1>0, <1>2, <1>3, <2>1, Slots
<1>7. slotBar' = Replied(slotBar, p, r)
  <2>1. p \in DOMAIN slotBar
    BY DEF slotBar
  <2> QED
    BY <1>4, <1>5, <1>6, <2>1, SlotReplied
<1>8. slotBar[p].st = "called" /\ slotBar[p].call = call[p]
  BY <1>5 DEF Slot
<1>9. Strays' = Strays
  BY <1>3 DEF Strays
<1> QED
  BY <1>1, <1>3, <1>7, <1>8, <1>9, SameCalls, SameReplies DEF Remote!Execute, Replied, Strays

\* The device's act on a late request carries out a call that strayed, for good: no other
\* stray call has its number.
LEMMA ServeLateExecutes ==
  ASSUME IInv, Carried, NEW l \in late, ServeLate(l)
  PROVE  \E s \in Strays : Remote!ExecuteStray(s)
<1>0. PICK c \in ClientCalls : l = [id |-> l.id, doc |-> Request(c)]
  BY DEF Carried
<1>1. PICK r \in Replies(VerbOf(c), Target(c), tree) :
        /\ tree' = TreeAfter(r, VerbOf(c), Target(c), c.val, tree)
        /\ log' = [log EXCEPT ![l.id] = <<r>>]
  BY <1>0, ActIsTheCalls DEF ServeLate
<1>2. UNCHANGED <<issued, pc, id, call, out>> /\ late' = late \ {l}
  BY DEF ServeLate
<1> DEFINE s == StrayOf(l)
<1>3. s.verb = VerbOf(c) /\ s.target = Target(c) /\ s.val = c.val
  <2>1. s = Remote!Stray(l.id, c)
    BY <1>0, StrayOfCall
  <2> QED
    BY <2>1, SameCalls DEF Remote!Stray
<1>4. slotBar' = slotBar
  <2>1. \A q \in Procs : pc[q] = "sending" => log'[id[q]] = log[id[q]]
    BY <1>1 DEF IInv, Shape, InFlight
  <2>2. \A q \in Procs : StateOf(q)' = StateOf(q)
    BY <1>2, <2>1 DEF StateOf, IInv, Shape
  <2> QED
    BY <1>2, <2>1, <2>2 DEF slotBar
<1>5. Strays' = Strays \ {s}
  <2>1. \A k \in late : StrayOf(k).id = k.id
    BY DEF StrayOf
  <2>2. \A k \in late : k # l => StrayOf(k) # s
    BY <2>1 DEF IInv, InFlight
  <2> HIDE DEF s
  <2> QED
    BY <1>2, <2>2 DEF Strays, s
<1>6. s \in Strays
  BY DEF Strays
<1> HIDE DEF s
<1> QED
  BY <1>1, <1>2, <1>3, <1>4, <1>5, <1>6, SameReplies DEF Remote!ExecuteStray, Strays

\* A call that has its outcome, in RemoteTree's terms.
LEMMA FinishSlot ==
  ASSUME IInv, Carried, NEW p \in Procs, NEW o, Finish(p, o), pc[p] = "sending"
  PROVE  /\ slotBar' = Finished(slotBar, p, o)
         /\ slotBar[p] = Slot(IF log[id[p]] = <<>> THEN "called" ELSE "executed",
                              id[p], call[p], log[id[p]], out[p])
         /\ UNCHANGED <<tree, issued>>
<1>1. /\ pc'[p] = "done" /\ out'[p] = o
      /\ \A q \in Procs \ {p} : pc'[q] = pc[q] /\ out'[q] = out[q]
      /\ UNCHANGED <<tree, issued, id, call, log>>
  BY DEF Finish, IInv, Shape
<1>2. slotBar' = [slotBar EXCEPT ![p] = slotBar'[p]]
  BY <1>1, OneSlot DEF IInv, Shape
<1>3. slotBar[p] = Slot(IF log[id[p]] = <<>> THEN "called" ELSE "executed",
                        id[p], call[p], log[id[p]], out[p])
  <2>1. StateOf(p) = IF log[id[p]] = <<>> THEN "called" ELSE "executed"
    BY DEF StateOf
  <2> QED
    BY <2>1, Slots
<1>4. slotBar'[p] = Slot("done", id[p], call[p], <<>>, o)
  <2>1. StateOf(p)' = "done"
    BY <1>1 DEF StateOf
  <2> QED
    BY <1>1, <2>1, Slots
<1>5. slotBar' = Finished(slotBar, p, o)
  <2>1. p \in DOMAIN slotBar
    BY DEF slotBar
  <2> QED
    BY <1>2, <1>3, <1>4, <2>1, SlotFinished
<1> QED
  BY <1>1, <1>3, <1>5

\* A call that fails claims nothing; if its request is still on the way, it strays.
LEMMA SendFailsFails ==
  ASSUME IInv, Carried, NEW p \in Procs, SendFails(p)
  PROVE  Remote!Fail(p)
<1>1. Finish(p, Unknown) /\ pc[p] = "sending"
  BY DEF SendFails
<1>2. /\ slotBar' = Finished(slotBar, p, Unknown) /\ UNCHANGED <<tree, issued>>
      /\ slotBar[p] = Slot(IF log[id[p]] = <<>> THEN "called" ELSE "executed",
                           id[p], call[p], log[id[p]], out[p])
  BY <1>1, FinishSlot
<1>3. /\ slotBar[p].st = IF log[id[p]] = <<>> THEN "called" ELSE "executed"
      /\ slotBar[p].id = id[p] /\ slotBar[p].call = call[p]
  BY <1>2, SlotParts
<1>4. ASSUME wire[p] # <<>>, late' = late \cup {[id |-> id[p], doc |-> wire[p]]}
      PROVE  /\ slotBar[p].st = "called"
             /\ Strays' = Strays \cup {Remote!Stray(slotBar[p].id, slotBar[p].call)}
  <2>1. log[id[p]] = <<>> /\ wire[p] = Request(call[p]) /\ call[p] \in ClientCalls
    BY <1>1, <1>4 DEF IInv, InFlight, Carried
  <2>2. StrayOf([id |-> id[p], doc |-> wire[p]]) = Remote!Stray(id[p], call[p])
    BY <2>1, StrayOfCall
  <2> QED
    BY <1>3, <1>4, <2>1, <2>2 DEF Strays
<1>5. late' = late => Strays' = Strays
  BY DEF Strays
<1>6. \/ Strays' = Strays
      \/ /\ slotBar[p].st = "called"
         /\ Strays' = Strays \cup {Remote!Stray(slotBar[p].id, slotBar[p].call)}
  BY <1>4, <1>5 DEF SendFails
<1> QED
  BY <1>2, <1>3, <1>6, SameCalls DEF Remote!Fail, Finished, Strays

\* A call that reads a response answers with the device's reply, or fails.
LEMMA ReceiveAnswers ==
  ASSUME IInv, Carried, NEW p \in Procs, Receive(p)
  PROVE  Remote!Answer(p) \/ Remote!Fail(p)
<1>1. PICK o \in {Unknown, Report(call[p], log[id[p]][1])} : Finish(p, o)
  BY ReceivedIsReport
<1>2. log[id[p]] # <<>> /\ pc[p] = "sending"
  BY ReceivedIsReport
<1>3. /\ slotBar' = Finished(slotBar, p, o) /\ UNCHANGED <<tree, issued>>
      /\ slotBar[p] = Slot("executed", id[p], call[p], log[id[p]], out[p])
  BY <1>1, <1>2, FinishSlot
<1>4. slotBar[p].st = "executed" /\ slotBar[p].call = call[p] /\ slotBar[p].reply = log[id[p]]
  BY <1>3, SlotParts
<1>5. Strays' = Strays
  BY DEF Receive, Strays
<1>6. CASE o = Unknown
  BY <1>3, <1>4, <1>5, <1>6, SameCalls DEF Remote!Fail, Finished, Strays
<1>7. CASE o = Report(call[p], log[id[p]][1])
  BY <1>3, <1>4, <1>5, <1>7, SameCalls DEF Remote!Answer, Finished, Strays
<1> QED
  BY <1>1, <1>6, <1>7

\* A goroutine that returns is idle again.
LEMMA ReturnReturns ==
  ASSUME IInv, Carried, NEW p \in Procs, Return(p)
  PROVE  Remote!Return(p)
<1>1. /\ pc[p] = "done" /\ pc'[p] = "idle" /\ id'[p] = 0 /\ call'[p] = NoCall
      /\ out'[p] = Underway
      /\ \A q \in Procs \ {p} : /\ pc'[q] = pc[q] /\ id'[q] = id[q]
                                /\ call'[q] = call[q] /\ out'[q] = out[q]
      /\ UNCHANGED <<tree, issued, late, log>>
  BY DEF Return, IInv, Shape, Carried
<1>2. slotBar' = [slotBar EXCEPT ![p] = slotBar'[p]]
  BY <1>1, OneSlot DEF IInv, Shape
<1>3. slotBar'[p] = Slot("idle", 0, NoCall, <<>>, Underway)
  <2>1. StateOf(p)' = "idle"
    BY <1>1 DEF StateOf
  <2> QED
    BY <1>1, <2>1, Slots
<1>4. slotBar[p].st = "done"
  <2>1. StateOf(p) = "done"
    BY <1>1 DEF StateOf
  <2>2. slotBar[p] = Slot("done", id[p], call[p], <<>>, out[p])
    BY <1>1, <2>1, Slots
  <2> QED
    BY <2>2, SlotParts
<1>5. Strays' = Strays
  BY <1>1 DEF Strays
<1> QED
  BY <1>1, <1>2, <1>3, <1>4, <1>5, SameCalls DEF Remote!Return, Remote!Idle, Slot, Strays

\* SyncML is transparent, for any goroutines, calls, codes, listings and failures: what a
\* caller of the executor can see, a caller of the device's tree could, if calls may fail
\* without telling anything (executor.go:20-23, 85-110).
THEOREM Refinement == Spec => Transparent
<1>1. Init => Remote!Init
  <2> SUFFICES ASSUME Init PROVE Remote!Init
    OBVIOUS
  <2>1. slotBar = [p \in Procs |-> Slot("idle", 0, NoCall, <<>>, Underway)]
    <3>1. \A p \in Procs : StateOf(p) = "idle"
      BY DEF Init, StateOf
    <3> QED
      BY <3>1 DEF Init, slotBar, Slot
  <2> QED
    BY <2>1, SameCalls, SameNodes DEF Init, Remote!Init, Remote!Idle, Slot
<1>2. IInv /\ Carried /\ [Next]_vars => [Remote!Next]_(Remote!vars)
  <2> SUFFICES ASSUME IInv, Carried, [Next]_vars
               PROVE  Remote!Next \/ UNCHANGED <<tree, issued, slotBar, Strays>>
    BY DEF Remote!vars, Strays
  <2>1. ASSUME NEW p \in Procs, NEW c \in ClientCalls, Call(p, c) PROVE Remote!Next
    BY <2>1, CallInvokes, SameCalls DEF Remote!Next
  <2>2. ASSUME NEW p \in Procs, Serve(p) PROVE Remote!Next
    BY <2>2, ServeExecutes DEF Remote!Next
  <2>3. ASSUME NEW p \in Procs, SendFails(p) PROVE Remote!Next
    BY <2>3, SendFailsFails DEF Remote!Next
  <2>4. ASSUME NEW p \in Procs, Receive(p) PROVE Remote!Next
    BY <2>4, ReceiveAnswers DEF Remote!Next
  <2>5. ASSUME NEW p \in Procs, Return(p) PROVE Remote!Next
    BY <2>5, ReturnReturns DEF Remote!Next
  <2>6. ASSUME NEW l \in late, ServeLate(l) PROVE Remote!Next
    BY <2>6, ServeLateExecutes DEF Remote!Next, Strays
  <2>7. CASE UNCHANGED vars
    <3>1. UNCHANGED <<tree, issued, slotBar>>
      BY <2>7 DEF vars, slotBar, StateOf
    <3>2. Strays' = Strays
      BY <2>7 DEF vars, Strays
    <3> QED
      BY <3>1, <3>2
  <2> QED
    BY <2>1, <2>2, <2>3, <2>4, <2>5, <2>6, <2>7 DEF Next
<1> QED
  BY <1>1, <1>2, CarriedAlways, PTL DEF Spec, Transparent, Remote!Spec

=============================================================================
