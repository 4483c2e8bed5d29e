--------------------------- MODULE Builder_proof ---------------------------
(***************************************************************************)
(* Proofs about Builder, for any finite documents: what it declares has    *)
(* names of its own and what it refers to is declared; the walk comes to   *)
(* every node that it should, so that methods match access sets and URIs   *)
(* address their nodes; and the order of siblings in a file is irrelevant. *)
(***************************************************************************)
EXTENDS Builder, SequenceTheorems, FiniteSetTheorems, WellFoundedInduction, TLAPS

-----------------------------------------------------------------------------
(***************************************************************************)
(* Sequences of whatever they consist of.                                  *)
(***************************************************************************)

IsSeq(s) == s \in Seq(Range(s))

\* A sequence over any set is one over its own elements.
LEMMA SeqIsSeq ==
  ASSUME NEW S, NEW s \in Seq(S)
  PROVE  IsSeq(s)
<1>1. Len(s) \in Nat /\ s \in [1..Len(s) -> S]
  OBVIOUS
<1>2. s \in [1..Len(s) -> Range(s)]
  BY <1>1 DEF Range
<1> QED
  BY <1>1, <1>2 DEF IsSeq

\* Appending to a sequence, whatever it consists of.
LEMMA AppendAny ==
  ASSUME NEW s, IsSeq(s), NEW e
  PROVE  LET t == Append(s, e)
         IN  /\ IsSeq(t)
             /\ Len(s) \in Nat /\ DOMAIN s = 1..Len(s)
             /\ DOMAIN t = 1..Len(s) + 1
             /\ t[Len(s) + 1] = e
             /\ \A i \in 1..Len(s) : t[i] = s[i]
<1> DEFINE t == Append(s, e)
           R == Range(s) \cup {e}
<1>1. s \in Seq(R)
  BY DEF IsSeq
<1>2. e \in R
  OBVIOUS
<1> HIDE DEF R
<1>3. /\ t \in Seq(R) /\ Len(t) = Len(s) + 1
      /\ \A i \in 1..Len(s) : t[i] = s[i]
      /\ t[Len(s) + 1] = e
  BY <1>1, <1>2, AppendProperties
<1>4. /\ Len(s) \in Nat /\ DOMAIN s = 1..Len(s)
      /\ DOMAIN t = 1..Len(s) + 1
  BY <1>1, <1>3
<1>5. IsSeq(t)
  BY <1>3, SeqIsSeq
<1> QED
  BY <1>3, <1>4, <1>5

\* Head and tail of a sequence, whatever it consists of.
LEMMA TailAny ==
  ASSUME NEW s, IsSeq(s), s # <<>>
  PROVE  /\ IsSeq(Tail(s))
         /\ Head(s) \in Range(s)
         /\ Range(Tail(s)) \subseteq Range(s)
<1>1. s \in Seq(Range(s))
  BY DEF IsSeq
<1>2. /\ Len(s) \in Nat /\ Len(s) > 0 /\ DOMAIN s = 1..Len(s)
      /\ Tail(s) \in Seq(Range(s)) /\ Len(Tail(s)) = Len(s) - 1
      /\ \A i \in 1..Len(s) - 1 : Tail(s)[i] = s[i + 1]
      /\ Head(s) = s[1]
  BY <1>1, HeadTailProperties, EmptySeq
<1>3. DOMAIN Tail(s) = 1..Len(s) - 1
  BY <1>2
<1>5. IsSeq(Tail(s))
  BY <1>2, SeqIsSeq
<1> QED
  BY <1>2, <1>3, <1>5 DEF Range

\* Concatenating sequences, whatever they consist of.
LEMMA ConcatAny ==
  ASSUME NEW s, IsSeq(s), NEW t, IsSeq(t)
  PROVE  IsSeq(s \o t) /\ Range(s \o t) \subseteq Range(s) \cup Range(t)
<1> DEFINE R == Range(s) \cup Range(t)
<1>1. s \in Seq(R) /\ t \in Seq(R)
  BY DEF IsSeq
<1> HIDE DEF R
<1>2. s \o t \in Seq(R)
  BY <1>1, ConcatProperties
<1>3. /\ Len(s \o t) \in Nat /\ DOMAIN (s \o t) = 1..Len(s \o t)
      /\ \A i \in 1..Len(s \o t) : (s \o t)[i] \in R
  BY <1>2
<1>4. IsSeq(s \o t)
  BY <1>2, SeqIsSeq
<1> QED
  BY <1>3, <1>4 DEF Range, R

-----------------------------------------------------------------------------
(***************************************************************************)
(* The inductive invariant.                                                *)
(***************************************************************************)

\* The members of an enumeration: names of their own, and of the members that share
\* a value just one is no duplicate.
GoodMembers(ms) ==
  /\ IsSeq(ms)
  /\ \A k, l \in DOMAIN ms : ms[k].name = ms[l].name => k = l
  /\ \A k, l \in DOMAIN ms :
       ms[k].lit = ms[l].lit /\ ~ms[k].dup /\ ~ms[l].dup => k = l
  /\ \A k \in DOMAIN ms : \E i \in DOMAIN ms : ms[i].lit = ms[k].lit /\ ~ms[i].dup

\* A node's parameters, one for every dynamic node on the way to it.
GoodParams(params) == IsSeq(params) /\ IsInjective(params)

Shape ==
  /\ IsFiniteSet(DOMAIN csp.nodes)
  /\ cur = [at |-> cur.at, segs |-> cur.segs, params |-> cur.params,
            parts |-> cur.parts, base |-> cur.base]
  /\ pc = "start" => cur = Root /\ methods = {} /\ uris = {} /\ enums = {}

\* The walk comes to each node with good parameters.
Walks ==
  /\ GoodParams(cur.params)
  /\ IsSeq(agenda) /\ \A x \in Range(agenda) : GoodParams(x.parent.params)

\* Until a node's methods are there, nothing else has its name; nor has an
\* enumeration the name of the one that is under construction.
NamesUnused ==
  /\ pc \in {"claimType", "members", "emit"} =>
       /\ cur.base \in DOMAIN used
       /\ \A m \in methods : m.base # cur.base
       /\ \A u \in uris : u.base # cur.base
  /\ pc = "members" => block.type \in DOMAIN used /\ \A e \in enums : e.type # block.type

\* Where there is a block, it is being made or it is declared and belongs to the leaf
\* whose methods come next.
BlockInPlace ==
  /\ block = [type |-> block.type, members |-> block.members]
  /\ pc \in {"claimType", "members"} => Leaf(node)
  /\ \/ block = NoBlock
     \/ pc = "members"
     \/ pc = "emit" /\ Leaf(node) /\ block \in enums

\* Constants of finished enumerations are in the table, those of the block are not.
ConstantsKept ==
  /\ GoodMembers(block.members)
  /\ pc = "members" => Seen \cap consts = {}
  /\ \A e \in enums : GoodMembers(e.members)
  /\ \A e \in enums : \A k \in DOMAIN e.members : e.members[k].name \in consts
  /\ ConstantsDistinct

IInv == /\ TypeOK /\ Shape /\ Walks /\ NamesUnused /\ BlockInPlace /\ ConstantsKept
        /\ NamesDistinct /\ MethodsAreDeclared

-----------------------------------------------------------------------------
(***************************************************************************)
(* Names.                                                                  *)
(***************************************************************************)

\* A first free name is not taken.
LEMMA FreeIsFree ==
  ASSUME NEW name, NEW taken, NEW x \in FirstFree(name, taken)
  PROVE  x \notin taken
BY DEF FirstFree

\* A name that was never counted is not in the table.
LEMMA UncountedIsUnused ==
  ASSUME TypeOK, NEW name, Count(name) = 0
  PROVE  name \notin DOMAIN used
<1>1. \A x \in DOMAIN used : used[x] # 0
  BY DEF TypeOK
<1> QED
  BY <1>1 DEF Count

\* Counting a name adds it to the table, whose counts stay positive.
LEMMA CountedIsUsed ==
  ASSUME TypeOK
  PROVE  /\ DOMAIN Counted = DOMAIN used \cup {asking}
         /\ Counted \in [DOMAIN Counted -> Nat \ {0}]
<1>1. DOMAIN Counted = DOMAIN used \cup {asking}
  BY DEF Counted
<1>2. \A x \in DOMAIN used : used[x] \in Nat \ {0}
  BY DEF TypeOK
<1>3. Count(asking) \in Nat
  BY <1>2 DEF Count
<1>4. \A x \in DOMAIN used \cup {asking} : Counted[x] \in Nat \ {0}
  BY <1>2, <1>3 DEF Counted
<1>5. Counted = [x \in DOMAIN Counted |-> Counted[x]]
  BY <1>1 DEF Counted
<1> QED
  BY <1>1, <1>4, <1>5

\* A parameter that is free keeps the parameters of the nodes above different.
LEMMA AppendGoodParam ==
  ASSUME NEW params, GoodParams(params), NEW n, NEW p \in ParamFor(n, params)
  PROVE  GoodParams(Append(params, p))
<1>1. p \notin Range(params)
  BY FreeIsFree DEF ParamFor
<1>2. IsSeq(params) /\ \A i, j \in DOMAIN params : params[i] = params[j] => i = j
  BY DEF GoodParams, IsInjective
<1> DEFINE t == Append(params, p)
           len == Len(params)
<1>3. /\ IsSeq(t) /\ len \in Nat /\ DOMAIN params = 1..len
      /\ DOMAIN t = 1..len + 1
      /\ t[len + 1] = p
      /\ \A i \in 1..len : t[i] = params[i]
  BY <1>2, AppendAny
<1> HIDE DEF t, len
<1>4. \A i \in 1..len : t[i] # p
  BY <1>1, <1>3 DEF Range
<1>5. ASSUME NEW i \in DOMAIN t, NEW j \in DOMAIN t, t[i] = t[j] PROVE i = j
  <2>1. (i \in 1..len \/ i = len + 1) /\ (j \in 1..len \/ j = len + 1)
    BY <1>3
  <2> QED
    BY <1>2, <1>3, <1>4, <1>5, <2>1
<1>6. GoodParams(t)
  BY <1>3, <1>5 DEF GoodParams, IsInjective
<1> QED
  BY <1>6 DEF t

\* The snapshot of a finite document is finite.
LEMMA ParsedIsFinite ==
  ASSUME NEW d \in Docs
  PROVE  IsFiniteSet(DOMAIN Parse(d).nodes)
<1> DEFINE S == DOMAIN d.nodes
           T == {Sorted(d.nodes, p) : p \in S}
           f == [p \in S |-> Sorted(d.nodes, p)]
<1>1. DOMAIN Parse(d).nodes = T
  BY DEF Parse
<1>2. IsFiniteSet(S)
  BY DocsAssumption
<1>3. f \in Surjection(S, T)
  <2>1. f \in [S -> T]
    OBVIOUS
  <2>2. \A t \in T : \E p \in S : f[p] = t
    OBVIOUS
  <2> QED
    BY <2>1, <2>2 DEF Surjection
<1> HIDE DEF S, T, f
<1> QED
  BY <1>1, <1>2, <1>3, FS_Surjection

\* A walk comes to the children with their parent's walk state.
LEMMA WalkIsGood ==
  ASSUME Shape, Walks
  PROVE  IsSeq(Walk(cur)) /\ \A x \in Range(Walk(cur)) : GoodParams(x.parent.params)
<1> DEFINE n == Cardinality(Children(csp.nodes, cur.at))
           W == [k \in 1..n |-> [at |-> Append(cur.at, k), parent |-> cur]]
           R == Range(W)
<1>1. n \in Nat
  BY FS_Subset, FS_CardinalityType DEF Shape, Children
<1>2. Walk(cur) = W
  BY DEF Walk
<1> HIDE DEF n
<1>3. W \in [1..n -> R]
  BY DEF Range
<1>4. \A x \in R : x.parent = cur
  BY DEF Range
<1> HIDE DEF W, R
<1>5. W \in Seq(R)
  BY <1>1, <1>3
<1>6. IsSeq(W)
  BY <1>5, SeqIsSeq
<1> QED
  BY <1>2, <1>4, <1>6 DEF Walks, R

-----------------------------------------------------------------------------
(***************************************************************************)
(* The invariant is inductive.                                             *)
(***************************************************************************)

\* Nothing repeats in an empty sequence.
LEMMA EmptyIsGood == GoodParams(<<>>) /\ IsSeq(<<>>) /\ GoodMembers(<<>>)
<1>1. IsSeq(<<>>) /\ DOMAIN <<>> = {}
  BY DEF IsSeq
<1> QED
  BY <1>1 DEF GoodParams, IsInjective, GoodMembers

\* The invariant holds of a builder that has not started.
LEMMA InitInv == Init => IInv
<1> SUFFICES ASSUME Init PROVE IInv
  OBVIOUS
<1>1. DOMAIN used = {} /\ used \in [DOMAIN used -> Nat \ {0}]
  BY DEF Init
<1>2. TypeOK
  BY <1>1 DEF Init, TypeOK
<1>3. Shape
  BY ParsedIsFinite DEF Init, Shape, Root
<1>4. Walks
  BY EmptyIsGood DEF Init, Walks, Root, Range
<1>5. NamesUnused /\ BlockInPlace
  BY DEF Init, NamesUnused, BlockInPlace, NoBlock
<1>6. ConstantsKept
  BY EmptyIsGood DEF Init, ConstantsKept, ConstantsDistinct, NoBlock
<1>7. NamesDistinct /\ MethodsAreDeclared
  BY DEF Init, NamesDistinct, MethodsAreDeclared
<1> QED
  BY <1>2, <1>3, <1>4, <1>5, <1>6, <1>7 DEF IInv

Declared == <<methods, uris, enums>>

\* While nothing is declared, what is declared stays distinct.
LEMMA DeclaredStays ==
  ASSUME IInv, UNCHANGED Declared
  PROVE  NamesDistinct' /\ MethodsAreDeclared'
BY DEF IInv, Declared, NamesDistinct, MethodsAreDeclared

\* The same of constants.
LEMMA ConstantsStay ==
  ASSUME IInv, UNCHANGED <<enums, consts, block>>, pc' = "members" => pc = "members"
  PROVE  ConstantsKept'
BY DEF IInv, ConstantsKept, ConstantsDistinct, Seen

\* The root takes its name first.
LEMMA StartInv == IInv /\ Start => IInv'
<1> SUFFICES ASSUME IInv, Start PROVE IInv'
  OBVIOUS
<1>1. pc = "start" /\ cur = Root /\ methods = {} /\ uris = {} /\ enums = {} /\ block = NoBlock
  BY DEF Start, IInv, Shape, BlockInPlace
<1>2. DOMAIN used' = {RootText} /\ used' \in [DOMAIN used' -> Nat \ {0}]
  BY DEF Start
<1>3. \A m \in methods' : m = Method("List", NoType)
  BY DEF Start
<1>4. Method("List", NoType) = [prefix |-> "List", base |-> RootText, args |-> <<>>,
                                type |-> NoType, at |-> <<>>]
  BY <1>1 DEF Method, Root
<1>5. uris' = {[base |-> RootText, params |-> <<>>, parts |-> cur.parts]} /\ enums' = {}
  BY <1>1 DEF Start
<1>6. TypeOK'
  BY <1>1, <1>2, <1>3, <1>4, <1>5 DEF TypeOK, Start, VerbOf
<1>7. Shape'
  BY DEF Start, IInv, Shape
<1>8. Walks'
  BY WalkIsGood DEF Start, IInv, Walks
<1>9. NamesUnused' /\ BlockInPlace'
  BY <1>1 DEF Start, IInv, NamesUnused, BlockInPlace
<1>10. ConstantsKept'
  BY <1>1, ConstantsStay DEF Start
<1>11. NamesDistinct'
  BY <1>3, <1>5 DEF NamesDistinct
<1>12. MethodsAreDeclared'
  <2>1. IsInjective(<<>>) /\ NoType.enum = <<>>
    BY EmptyIsGood DEF GoodParams, NoType
  <2>2. \A m \in methods' : m.base = RootText /\ m.args = <<>> /\ m.type.enum = <<>>
    BY <1>3, <1>4, <2>1
  <2>3. \E u \in uris' : u.base = RootText /\ u.params = <<>>
    BY <1>5
  <2> QED
    BY <2>1, <2>2, <2>3 DEF MethodsAreDeclared, IsInjective
<1> QED
  BY <1>6, <1>7, <1>8, <1>9, <1>10, <1>11, <1>12 DEF IInv

\* A visit extends the walk state by a parameter that is free.
LEMMA VisitInv == IInv /\ Visit => IInv'
<1> SUFFICES ASSUME IInv, Visit PROVE IInv'
  OBVIOUS
<1> DEFINE at == Head(agenda).at
           parent == Head(agenda).parent
<1>1. pc = "walk" /\ pc' = "claim" /\ block = NoBlock
  BY DEF Visit, IInv, BlockInPlace
<1>2. IsSeq(agenda) /\ agenda # <<>> /\ agenda' = Tail(agenda)
  BY DEF Visit, IInv, Walks
<1>3. GoodParams(parent.params)
  BY <1>2, TailAny DEF IInv, Walks
<1>4. PICK param \in ParamFor(csp.nodes[at], parent.params) : cur' = NodeAt(at, parent, param)
  BY DEF Visit
<1>5. TypeOK'
  BY <1>1 DEF Visit, IInv, TypeOK
<1>6. Shape'
  BY <1>1, <1>4 DEF Visit, IInv, Shape, NodeAt
<1>7. Walks'
  <2>1. GoodParams(Append(parent.params, param))
    BY <1>3, <1>4, AppendGoodParam
  <2>2. cur'.params = Append(parent.params, param) \/ cur'.params = parent.params
    BY <1>4 DEF NodeAt
  <2>3. GoodParams(cur'.params)
    BY <1>3, <2>1, <2>2
  <2>4. IsSeq(Tail(agenda)) /\ \A x \in Range(Tail(agenda)) : GoodParams(x.parent.params)
    BY <1>2, TailAny DEF IInv, Walks
  <2> QED
    BY <1>2, <2>3, <2>4 DEF Walks
<1>8. NamesUnused' /\ BlockInPlace'
  BY <1>1 DEF Visit, IInv, NamesUnused, BlockInPlace
<1>9. ConstantsKept'
  BY <1>1, ConstantsStay DEF Visit
<1>10. NamesDistinct' /\ MethodsAreDeclared'
  BY DeclaredStays DEF Visit, Declared
<1> QED
  BY <1>5, <1>6, <1>7, <1>8, <1>9, <1>10 DEF IInv

\* claimBase counts a name that is taken.
LEMMA AskAgainInv == IInv /\ AskAgain => IInv'
<1> SUFFICES ASSUME IInv, AskAgain PROVE IInv'
  OBVIOUS
<1>1. used' = Counted /\ DOMAIN used \subseteq DOMAIN used'
      /\ used' \in [DOMAIN used' -> Nat \ {0}]
  BY CountedIsUsed DEF AskAgain, IInv
<1>2. TypeOK'
  BY <1>1 DEF AskAgain, IInv, TypeOK
<1>3. Shape' /\ Walks'
  BY DEF AskAgain, IInv, Shape, Walks, Root
<1>4. NamesUnused' /\ BlockInPlace'
  BY <1>1 DEF AskAgain, IInv, NamesUnused, BlockInPlace, Leaf, node
<1>5. ConstantsKept'
  BY ConstantsStay DEF AskAgain
<1>6. NamesDistinct' /\ MethodsAreDeclared'
  BY DeclaredStays DEF AskAgain, Declared
<1> QED
  BY <1>2, <1>3, <1>4, <1>5, <1>6 DEF IInv

\* A name that is claimed was not in use.
LEMMA ClaimInv == IInv /\ Claim => IInv'
<1> SUFFICES ASSUME IInv, Claim PROVE IInv'
  OBVIOUS
<1>1. DOMAIN used' = DOMAIN used \cup {asking} /\ used' \in [DOMAIN used' -> Nat \ {0}]
  BY CountedIsUsed DEF Claim, IInv
<1>2. asking \notin DOMAIN used
  BY UncountedIsUnused DEF Claim, IInv
<1>3. pc = "claim" /\ pc' \in {"claimType", "emit"} /\ block = NoBlock
  BY DEF Claim, IInv, BlockInPlace
<1>4. cur' = [cur EXCEPT !.base = asking]
  BY DEF Claim
<1>5. cur' = [at |-> cur.at, segs |-> cur.segs, params |-> cur.params,
              parts |-> cur.parts, base |-> asking]
  BY <1>4 DEF IInv, Shape
<1>6. TypeOK'
  BY <1>1, <1>3 DEF Claim, IInv, TypeOK
<1>7. Shape'
  BY <1>3, <1>5 DEF Claim, IInv, Shape
<1>8. Walks'
  BY <1>5 DEF Claim, IInv, Walks
<1>9. NamesUnused'
  <2>1. cur'.base = asking /\ methods' = methods /\ uris' = uris
    BY <1>5 DEF Claim
  <2> QED
    BY <1>1, <1>2, <1>3, <2>1 DEF IInv, TypeOK, NamesUnused
<1>10. BlockInPlace'
  <2>1. pc' = "claimType" => Leaf(node)
    BY DEF Claim
  <2>2. csp' = csp /\ cur'.at = cur.at /\ block' = block
    BY <1>5 DEF Claim
  <2> QED
    BY <1>3, <2>1, <2>2 DEF IInv, BlockInPlace, Leaf, node
<1>11. ConstantsKept'
  BY <1>3, ConstantsStay DEF Claim
<1>12. NamesDistinct' /\ MethodsAreDeclared'
  BY DeclaredStays DEF Claim, Declared
<1> QED
  BY <1>6, <1>7, <1>8, <1>9, <1>10, <1>11, <1>12 DEF IInv

\* Nor was an enumeration's.
LEMMA ClaimTypeInv == IInv /\ ClaimType => IInv'
<1> SUFFICES ASSUME IInv, ClaimType PROVE IInv'
  OBVIOUS
<1>1. DOMAIN used' = DOMAIN used \cup {asking} /\ used' \in [DOMAIN used' -> Nat \ {0}]
  BY CountedIsUsed DEF ClaimType, IInv
<1>2. asking \notin DOMAIN used
  BY UncountedIsUnused DEF ClaimType, IInv
<1>3. pc = "claimType" /\ pc' = "members" /\ block' = [type |-> asking, members |-> <<>>]
  BY DEF ClaimType
<1>4. TypeOK'
  BY <1>1, <1>3 DEF ClaimType, IInv, TypeOK
<1>5. Shape' /\ Walks'
  BY <1>3 DEF ClaimType, IInv, Shape, Walks
<1>6. NamesUnused'
  BY <1>1, <1>2, <1>3 DEF ClaimType, IInv, NamesUnused, TypeOK
<1>7. BlockInPlace'
  BY <1>3 DEF ClaimType, IInv, BlockInPlace, Leaf, node
<1>8. ConstantsKept'
  <2>1. block'.members = <<>> /\ Seen' = {}
    BY <1>3, EmptyIsGood DEF Seen
  <2>2. GoodMembers(block'.members)
    BY <2>1, EmptyIsGood
  <2>3. enums' = enums /\ consts' = consts
    BY DEF ClaimType
  <2> QED
    BY <2>1, <2>2, <2>3 DEF IInv, ConstantsKept, ConstantsDistinct
<1>9. NamesDistinct' /\ MethodsAreDeclared'
  BY DeclaredStays DEF ClaimType, Declared
<1> QED
  BY <1>4, <1>5, <1>6, <1>7, <1>8, <1>9 DEF IInv

\* A member that is added keeps the members good: it has a free name, and it is a
\* duplicate just when one before it has its value.
LEMMA AddGoodMember ==
  ASSUME GoodMembers(block.members), NEW name, name \notin Seen, NEW lit
  PROVE  GoodMembers(Append(block.members, Member(name, lit)))
<1> DEFINE ms  == block.members
           new == Member(name, lit)
           t   == Append(ms, new)
           len == Len(ms)
<1>1. /\ IsSeq(ms)
      /\ \A k, l \in DOMAIN ms : ms[k].name = ms[l].name => k = l
      /\ \A k, l \in DOMAIN ms :
           ms[k].lit = ms[l].lit /\ ~ms[k].dup /\ ~ms[l].dup => k = l
      /\ \A k \in DOMAIN ms : \E i \in DOMAIN ms : ms[i].lit = ms[k].lit /\ ~ms[i].dup
  BY DEF GoodMembers
<1>2. /\ IsSeq(t) /\ len \in Nat /\ DOMAIN ms = 1..len
      /\ DOMAIN t = 1..len + 1 /\ t[len + 1] = new
      /\ \A i \in 1..len : t[i] = ms[i]
  BY <1>1, AppendAny
<1>3. \A i \in 1..len : ms[i].name # name
  BY <1>2 DEF Seen
<1>4. new.name = name /\ new.lit = lit
  BY DEF Member
<1>5. new.dup <=> \E i \in 1..len : ms[i].lit = lit
  BY <1>2 DEF Member
<1> HIDE DEF new, t, len, ms
<1>6. \A k \in DOMAIN t : k \in 1..len \/ k = len + 1
  BY <1>2
<1>7. 1..len \subseteq DOMAIN t /\ len + 1 \in DOMAIN t
  BY <1>2
<1>8. ASSUME NEW k \in DOMAIN t, NEW l \in DOMAIN t, t[k].name = t[l].name PROVE k = l
  BY <1>1, <1>2, <1>3, <1>4, <1>6, <1>8
<1>9. ASSUME NEW k \in DOMAIN t, NEW l \in DOMAIN t,
             t[k].lit = t[l].lit, ~t[k].dup, ~t[l].dup
      PROVE  k = l
  <2>1. CASE k \in 1..len /\ l \in 1..len
    BY <1>1, <1>2, <1>9, <2>1
  <2>2. CASE k = len + 1 /\ l \in 1..len
    BY <1>2, <1>4, <1>5, <1>9, <2>2
  <2>3. CASE k \in 1..len /\ l = len + 1
    BY <1>2, <1>4, <1>5, <1>9, <2>3
  <2> QED
    BY <1>6, <2>1, <2>2, <2>3
<1>10. ASSUME NEW k \in DOMAIN t
       PROVE  \E i \in DOMAIN t : t[i].lit = t[k].lit /\ ~t[i].dup
  <2>1. \A j \in 1..len : \E i \in 1..len : t[i].lit = t[j].lit /\ ~t[i].dup
    BY <1>1, <1>2
  <2>2. CASE k \in 1..len
    BY <1>7, <2>1, <2>2
  <2>3. CASE k = len + 1 /\ ~new.dup
    BY <1>2, <1>7, <2>3
  <2>4. CASE k = len + 1 /\ new.dup
    <3>1. PICK j \in 1..len : t[j].lit = lit
      BY <1>2, <1>5, <2>4
    <3> QED
      BY <1>2, <1>4, <1>7, <2>1, <2>4, <3>1
  <2> QED
    BY <1>6, <2>2, <2>3, <2>4
<1>11. GoodMembers(t)
  BY <1>2, <1>8, <1>9, <1>10 DEF GoodMembers
<1> QED
  BY <1>11 DEF t, new, ms

\* A member has a name of its own and is a duplicate of an earlier value or of none.
LEMMA AddMemberInv == IInv /\ AddMember => IInv'
<1> SUFFICES ASSUME IInv, AddMember PROVE IInv'
  OBVIOUS
<1>1. PICK name \in MemberName, lit \in Range(Literal(NextMember.value)) :
        block' = [block EXCEPT !.members = Append(@, Member(name, lit))]
  BY DEF AddMember
<1>2. name \notin Seen \cup consts
  BY FreeIsFree DEF MemberName
<1> DEFINE t == Append(block.members, Member(name, lit))
<1>3. block' = [type |-> block.type, members |-> t]
  BY <1>1 DEF IInv, BlockInPlace
<1>4. pc = "members" /\ pc' = "members"
  BY DEF AddMember
<1>5. TypeOK' /\ Shape' /\ Walks'
  BY <1>4 DEF AddMember, IInv, TypeOK, Shape, Walks
<1>6. NamesUnused' /\ BlockInPlace'
  BY <1>3, <1>4 DEF AddMember, IInv, NamesUnused, BlockInPlace, Leaf, node
<1>7. ConstantsKept'
  <2>1. GoodMembers(t)
    BY <1>2, AddGoodMember DEF IInv, ConstantsKept
  <2>2. Seen' = Seen \cup {name}
    <3>1. IsSeq(block.members)
      BY DEF IInv, ConstantsKept, GoodMembers
    <3>2. /\ Len(block.members) \in Nat /\ DOMAIN block.members = 1..Len(block.members)
          /\ DOMAIN t = 1..Len(block.members) + 1
          /\ t[Len(block.members) + 1] = Member(name, lit)
          /\ \A i \in 1..Len(block.members) : t[i] = block.members[i]
      BY <3>1, AppendAny
    <3>3. Member(name, lit).name = name
      BY DEF Member
    <3>4. Seen' = {t[i].name : i \in DOMAIN t}
      BY <1>3 DEF Seen
    <3> DEFINE len == Len(block.members)
    <3>5. Seen = {block.members[i].name : i \in 1..len}
      BY <3>2 DEF Seen
    <3> HIDE DEF t, len
    <3>6. ASSUME NEW i \in DOMAIN t PROVE t[i].name \in Seen \cup {name}
      <4>1. i \in 1..len \/ i = len + 1
        BY <3>2 DEF len
      <4> QED
        BY <3>2, <3>3, <3>5, <4>1 DEF len
    <3>7. ASSUME NEW i \in 1..len PROVE block.members[i].name \in Seen'
      <4>1. i \in DOMAIN t /\ t[i] = block.members[i]
        BY <3>2 DEF len
      <4> QED
        BY <3>4, <4>1
    <3>8. name \in Seen'
      <4>1. len + 1 \in DOMAIN t /\ t[len + 1].name = name
        BY <3>2, <3>3 DEF len
      <4> QED
        BY <3>4, <4>1
    <3> QED
      BY <3>4, <3>5, <3>6, <3>7, <3>8
  <2>3. enums' = enums /\ consts' = consts /\ block'.members = t
    BY <1>3 DEF AddMember
  <2>4. Seen' \cap consts' = {}
    BY <1>2, <1>4, <2>2, <2>3 DEF IInv, ConstantsKept
  <2> HIDE DEF t
  <2> QED
    BY <2>1, <2>3, <2>4 DEF IInv, ConstantsKept, ConstantsDistinct
<1>8. NamesDistinct' /\ MethodsAreDeclared'
  BY DeclaredStays DEF AddMember, Declared
<1> QED
  BY <1>5, <1>6, <1>7, <1>8 DEF IInv

\* An enumeration given up leaves nothing behind.
LEMMA AbandonEnumInv == IInv /\ AbandonEnum => IInv'
<1> SUFFICES ASSUME IInv, AbandonEnum PROVE IInv'
  OBVIOUS
<1>1. pc = "members" /\ pc' = "emit" /\ block' = NoBlock
  BY DEF AbandonEnum
<1>2. TypeOK' /\ Shape' /\ Walks'
  BY <1>1 DEF AbandonEnum, IInv, TypeOK, Shape, Walks
<1>3. NamesUnused' /\ BlockInPlace'
  BY <1>1 DEF AbandonEnum, IInv, NamesUnused, BlockInPlace, NoBlock
<1>4. ConstantsKept'
  <2>1. GoodMembers(block'.members)
    BY <1>1, EmptyIsGood DEF NoBlock
  <2>2. enums' = enums /\ consts' = consts
    BY DEF AbandonEnum
  <2> QED
    BY <1>1, <2>1, <2>2 DEF IInv, ConstantsKept, ConstantsDistinct
<1>5. NamesDistinct' /\ MethodsAreDeclared'
  BY DeclaredStays DEF AbandonEnum, Declared
<1> QED
  BY <1>2, <1>3, <1>4, <1>5 DEF IInv

\* A finished enumeration is declared with its constants.
LEMMA EndEnumInv == IInv /\ EndEnum => IInv'
<1> SUFFICES ASSUME IInv, EndEnum PROVE IInv'
  OBVIOUS
<1>1. /\ pc = "members" /\ pc' = "emit"
      /\ consts' = consts \cup Seen /\ enums' = enums \cup {block}
  BY DEF EndEnum
<1>2. UNCHANGED <<csp, agenda, cur, used, block, methods, uris>>
  BY DEF EndEnum
<1>3. block.type \in DOMAIN used /\ \A e \in enums : e.type # block.type
  BY <1>1 DEF IInv, NamesUnused
<1>4. TypeOK'
  BY <1>1, <1>2, <1>3 DEF IInv, TypeOK
<1>5. Shape' /\ Walks'
  BY <1>1, <1>2 DEF IInv, Shape, Walks
<1>6. NamesUnused'
  BY <1>1, <1>2 DEF IInv, NamesUnused
<1>7. BlockInPlace'
  BY <1>1, <1>2 DEF IInv, BlockInPlace, Leaf, node
<1>8. ConstantsKept'
  <2>1. GoodMembers(block.members) /\ \A e \in enums : GoodMembers(e.members)
    BY DEF IInv, ConstantsKept
  <2>2. \A k \in DOMAIN block.members : block.members[k].name \in Seen
    BY DEF Seen
  <2>3. \A e \in enums : \A k \in DOMAIN e.members :
          e.members[k].name \in consts /\ e.members[k].name \notin Seen
    BY <1>1 DEF IInv, ConstantsKept
  <2>4. \A e \in enums' : GoodMembers(e.members)
    BY <1>1, <2>1
  <2>5. \A e \in enums' : \A k \in DOMAIN e.members : e.members[k].name \in consts'
    BY <1>1, <2>2, <2>3
  <2>6. ASSUME NEW e \in enums', NEW f \in enums', NEW k \in DOMAIN e.members,
               NEW l \in DOMAIN f.members, e.members[k].name = f.members[l].name
        PROVE  e = f /\ k = l
    <3>1. e = f
      <4>1. CASE e \in enums /\ f \in enums
        BY <2>6, <4>1 DEF IInv, ConstantsKept, ConstantsDistinct
      <4>2. CASE e = block /\ f = block
        BY <4>2
      <4>3. CASE e = block /\ f \in enums
        BY <2>2, <2>3, <2>6, <4>3
      <4>4. CASE e \in enums /\ f = block
        BY <2>2, <2>3, <2>6, <4>4
      <4> QED
        BY <1>1, <4>1, <4>2, <4>3, <4>4
    <3>2. k = l
      BY <2>4, <2>6, <3>1 DEF GoodMembers
    <3> QED
      BY <3>1, <3>2
  <2>7. \A e \in enums' : \A k, l \in DOMAIN e.members :
          e.members[k].lit = e.members[l].lit =>
            /\ ~e.members[k].dup /\ ~e.members[l].dup => k = l
            /\ \E i \in DOMAIN e.members : e.members[i].lit = e.members[k].lit /\ ~e.members[i].dup
    BY <2>4 DEF GoodMembers
  <2>8. ConstantsDistinct'
    BY <2>6, <2>7 DEF ConstantsDistinct
  <2>9. GoodMembers(block'.members) /\ pc' # "members"
    BY <1>1, <1>2, <2>1
  <2> QED
    BY <2>4, <2>5, <2>8, <2>9 DEF ConstantsKept
<1>9. NamesDistinct'
  BY <1>1, <1>2, <1>3 DEF IInv, NamesDistinct
<1>10. MethodsAreDeclared'
  BY <1>1, <1>2 DEF IInv, MethodsAreDeclared
<1> QED
  BY <1>4, <1>5, <1>6, <1>7, <1>8, <1>9, <1>10 DEF IInv

\* A container or a leaf gets its methods: those with the prefixes, and
\* the URI they name if there are any.
LEMMA EmitInv ==
  ASSUME IInv, pc = "emit", pc' = "walk",
         NEW prefixes \in SUBSET DOMAIN VerbOf, NEW type,
         \A p \in prefixes : type[p].enum # <<>> => block \in enums /\ type[p].enum = block.type,
         methods' = methods \cup {Method(p, type[p]) : p \in prefixes},
         EnsureURI(prefixes), UNCHANGED <<csp, cur, used, enums>>
  PROVE  /\ TypeOK' /\ Shape' /\ NamesUnused'
         /\ NamesDistinct' /\ MethodsAreDeclared'
<1> DEFINE new == {Method(p, type[p]) : p \in prefixes}
<1>1. \A m \in new : /\ m.base = cur.base /\ m.args = cur.params /\ m.prefix \in prefixes
                     /\ m = Method(m.prefix, type[m.prefix])
                     /\ m.type = type[m.prefix]
  BY DEF Method
<1>2. /\ cur.base \in DOMAIN used
      /\ \A m \in methods : m.base # cur.base
      /\ \A u \in uris : u.base # cur.base
  BY DEF IInv, NamesUnused
<1>3. uris \subseteq uris' /\ \A u \in uris' : u \in uris \/ u.base = cur.base
  BY DEF EnsureURI
<1>4. ASSUME prefixes # {}
      PROVE  \E u \in uris' : u.base = cur.base /\ u.params = cur.params
  <2> DEFINE own == [base |-> cur.base, params |-> cur.params, parts |-> cur.parts]
  <2>1. uris' = uris \cup {own}
    BY <1>2, <1>4 DEF EnsureURI
  <2>2. own.base = cur.base /\ own.params = cur.params
    OBVIOUS
  <2> HIDE DEF own
  <2> QED
    BY <2>1, <2>2
<1>5. \A u, v \in uris' : u.base = cur.base /\ v.base = cur.base => u = v
  BY <1>2 DEF EnsureURI
<1>6. methods' = methods \cup new
  OBVIOUS
<1> HIDE DEF new
<1>7. TypeOK'
  BY <1>1, <1>2, <1>3, <1>6 DEF IInv, TypeOK
<1>8. Shape'
  BY DEF IInv, Shape
<1>9. NamesUnused'
  BY DEF NamesUnused
<1>10. NamesDistinct'
  <2>1. ASSUME NEW m \in methods', NEW n \in methods', m.prefix = n.prefix, m.base = n.base
        PROVE  m = n
    BY <1>1, <1>2, <1>6, <2>1 DEF IInv, NamesDistinct
  <2>2. ASSUME NEW u \in uris', NEW v \in uris', u.base = v.base PROVE u = v
    BY <1>2, <1>3, <1>5, <2>2 DEF IInv, NamesDistinct
  <2>3. enums' = enums
    OBVIOUS
  <2> QED
    BY <2>1, <2>2, <2>3 DEF IInv, NamesDistinct
<1>11. MethodsAreDeclared'
  <2>1. ASSUME NEW m \in methods'
        PROVE  /\ IsInjective(m.args)
               /\ \E u \in uris' : u.base = m.base /\ u.params = m.args
               /\ m.type.enum # <<>> => \E e \in enums' : e.type = m.type.enum
    <3>1. CASE m \in methods
      BY <1>3, <3>1 DEF IInv, MethodsAreDeclared
    <3>2. CASE m \in new
      BY <1>1, <1>4, <3>2 DEF IInv, Walks, GoodParams
    <3> QED
      BY <1>6, <3>1, <3>2
  <2> QED
    BY <2>1 DEF MethodsAreDeclared, IsInjective
<1> QED
  BY <1>7, <1>8, <1>9, <1>10, <1>11

\* A container's methods take the name that was claimed for it.
LEMMA EmitInteriorInv == IInv /\ EmitInterior => IInv'
<1> SUFFICES ASSUME IInv, EmitInterior PROVE IInv'
  OBVIOUS
<1>1. pc = "emit" /\ pc' = "walk" /\ ~Leaf(node) /\ block = NoBlock
  BY DEF EmitInterior, IInv, BlockInPlace
<1> DEFINE type == [m \in InteriorPrefixes |-> NoType]
<1>2. InteriorPrefixes \in SUBSET DOMAIN VerbOf
  BY DEF InteriorPrefixes, VerbOf
<1>3. \A p \in InteriorPrefixes : type[p] = NoType /\ type[p].enum = <<>>
  BY DEF NoType
<1>4. methods' = methods \cup {Method(p, type[p]) : p \in InteriorPrefixes}
  BY <1>3 DEF EmitInterior
<1>5. EnsureURI(InteriorPrefixes) /\ UNCHANGED <<csp, cur, used, enums, block, consts>>
  BY DEF EmitInterior
<1>6. agenda' = Walk(cur) \o agenda
  BY DEF EmitInterior
<1> HIDE DEF type
<1>7. TypeOK' /\ Shape' /\ NamesUnused' /\ NamesDistinct' /\ MethodsAreDeclared'
  BY <1>1, <1>2, <1>3, <1>4, <1>5, EmitInv
<1>8. Walks'
  <2>1. IsSeq(Walk(cur)) /\ \A x \in Range(Walk(cur)) : GoodParams(x.parent.params)
    BY WalkIsGood DEF IInv
  <2>2. IsSeq(agenda) /\ \A x \in Range(agenda) : GoodParams(x.parent.params)
    BY DEF IInv, Walks
  <2>3. IsSeq(Walk(cur) \o agenda)
        /\ Range(Walk(cur) \o agenda) \subseteq Range(Walk(cur)) \cup Range(agenda)
    BY <2>1, <2>2, ConcatAny
  <2> QED
    BY <1>5, <1>6, <2>1, <2>2, <2>3 DEF IInv, Walks
<1>9. BlockInPlace'
  BY <1>1, <1>5 DEF IInv, BlockInPlace
<1>10. ConstantsKept'
  BY <1>1, <1>5, ConstantsStay
<1> QED
  BY <1>7, <1>8, <1>9, <1>10 DEF IInv

\* A leaf's methods do, and their type is declared.
LEMMA EmitLeafInv == IInv /\ EmitLeaf => IInv'
<1> SUFFICES ASSUME IInv, EmitLeaf PROVE IInv'
  OBVIOUS
<1>1. pc = "emit" /\ pc' = "walk" /\ block' = NoBlock
  BY DEF EmitLeaf
<1> DEFINE type == [m \in LeafPrefixes |-> IF m = "Delete" THEN NoType ELSE ValueType]
<1>2. LeafPrefixes \in SUBSET DOMAIN VerbOf
  BY DEF LeafPrefixes, VerbOf
<1>3. \A p \in LeafPrefixes : type[p] = IF p = "Delete" THEN NoType ELSE ValueType
  OBVIOUS
<1>4. methods' = methods \cup {Method(p, type[p]) : p \in LeafPrefixes}
  BY <1>3 DEF EmitLeaf
<1>5. EnsureURI(LeafPrefixes) /\ UNCHANGED <<csp, cur, used, enums, consts, agenda>>
  BY DEF EmitLeaf
<1> HIDE DEF type
<1>6. \A p \in LeafPrefixes : type[p].enum # <<>> => block \in enums /\ type[p].enum = block.type
  <2>1. NoType.enum = <<>> /\ ValueType.enum = block.type
    BY DEF NoType, ValueType
  <2>2. block = NoBlock \/ block \in enums
    BY <1>1 DEF IInv, BlockInPlace
  <2>3. NoBlock.type = <<>>
    BY DEF NoBlock
  <2> QED
    BY <1>3, <2>1, <2>2, <2>3
<1>7. TypeOK' /\ Shape' /\ NamesUnused' /\ NamesDistinct' /\ MethodsAreDeclared'
  BY <1>1, <1>2, <1>4, <1>5, <1>6, EmitInv
<1>8. Walks'
  BY <1>5 DEF IInv, Walks
<1>9. BlockInPlace'
  BY <1>1 DEF BlockInPlace, NoBlock
<1>10. ConstantsKept'
  <2>1. GoodMembers(block'.members)
    BY <1>1, EmptyIsGood DEF NoBlock
  <2> QED
    BY <1>1, <1>5, <2>1 DEF IInv, ConstantsKept, ConstantsDistinct
<1> QED
  BY <1>7, <1>8, <1>9, <1>10 DEF IInv

\* The end changes nothing.
LEMMA FinishInv == IInv /\ Finish => IInv'
<1> SUFFICES ASSUME IInv, Finish PROVE IInv'
  OBVIOUS
<1>1. TypeOK' /\ Shape' /\ Walks' /\ NamesUnused' /\ BlockInPlace'
  BY DEF Finish, IInv, TypeOK, Shape, Walks, NamesUnused, BlockInPlace
<1>2. ConstantsKept'
  BY ConstantsStay DEF Finish
<1>3. NamesDistinct' /\ MethodsAreDeclared'
  BY DeclaredStays DEF Finish, Declared
<1> QED
  BY <1>1, <1>2, <1>3 DEF IInv

\* Every step.
LEMMA NextInv == IInv /\ [Next]_vars => IInv'
<1> SUFFICES ASSUME IInv, [Next]_vars PROVE IInv'
  OBVIOUS
<1>1. CASE Start
  BY <1>1, StartInv
<1>2. CASE Visit
  BY <1>2, VisitInv
<1>3. CASE AskAgain
  BY <1>3, AskAgainInv
<1>4. CASE Claim
  BY <1>4, ClaimInv
<1>5. CASE ClaimType
  BY <1>5, ClaimTypeInv
<1>6. CASE AddMember
  BY <1>6, AddMemberInv
<1>7. CASE AbandonEnum
  BY <1>7, AbandonEnumInv
<1>8. CASE EndEnum
  BY <1>8, EndEnumInv
<1>9. CASE EmitInterior
  BY <1>9, EmitInteriorInv
<1>10. CASE EmitLeaf
  BY <1>10, EmitLeafInv
<1>11. CASE Finish
  BY <1>11, FinishInv
<1>12. CASE UNCHANGED vars
  <2>1. TypeOK' /\ Shape' /\ Walks'
    BY <1>12 DEF vars, IInv, TypeOK, Shape, Root, Walks
  <2>2. NamesUnused' /\ BlockInPlace'
    BY <1>12 DEF vars, IInv, NamesUnused, BlockInPlace, node, Leaf
  <2>3. ConstantsKept'
    BY <1>12, ConstantsStay DEF vars
  <2>4. NamesDistinct' /\ MethodsAreDeclared'
    BY <1>12, DeclaredStays DEF vars, Declared
  <2> QED
    BY <2>1, <2>2, <2>3, <2>4 DEF IInv
<1> QED
  BY <1>1, <1>2, <1>3, <1>4, <1>5, <1>6, <1>7, <1>8, <1>9, <1>10, <1>11, <1>12 DEF Next

-----------------------------------------------------------------------------
(***************************************************************************)
(* The theorems.                                                           *)
(***************************************************************************)

\* The invariant that the others follow from.
THEOREM BuilderInvariant == Spec => []IInv
BY InitInv, NextInv, PTL DEF Spec

\* Whatever stands in the package has a name that was claimed.
THEOREM BuilderTypeCorrect == Spec => []TypeOK
<1>1. IInv => TypeOK
  BY DEF IInv
<1> QED
  BY <1>1, BuilderInvariant, PTL

\* Of any finite document, claimBase makes a package without two methods of a service,
\* two URIs or two types of one name.
THEOREM BuilderNamesDistinct == Spec => []NamesDistinct
<1>1. IInv => NamesDistinct
  BY DEF IInv
<1> QED
  BY <1>1, BuilderInvariant, PTL

\* Of any lists of allowed values, enumFor makes constants of different names and
\* exactly one case for each value.
THEOREM BuilderConstantsDistinct == Spec => []ConstantsDistinct
<1>1. IInv => ConstantsDistinct
  BY DEF IInv, ConstantsKept
<1> QED
  BY <1>1, BuilderInvariant, PTL

\* However deep dynamic nodes nest, every method's arguments differ and are those of
\* the declared URI it names, and its type is declared.
THEOREM BuilderMethodsDeclared == Spec => []MethodsAreDeclared
<1>1. IInv => MethodsAreDeclared
  BY DEF IInv
<1> QED
  BY <1>1, BuilderInvariant, PTL

-----------------------------------------------------------------------------
(***************************************************************************)
(* The order of names, and the ranks of a finite set in an order.          *)
(***************************************************************************)

\* A set of naturals has a least element.
LEMMA NatHasLeast ==
  ASSUME NEW S \in SUBSET Nat, S # {}
  PROVE  \E n \in S : \A m \in S : n <= m
<1> DEFINE R == OpToRel(<, Nat)
<1>1. IsWellFoundedOn(R, Nat)
  BY NatLessThanWellFounded
<1> HIDE DEF R
<1>2. PICK x \in S : \A y \in S : ~(<<y, x>> \in R)
  BY <1>1, WFMin, Zenon
<1> USE DEF R
<1>3. \A y \in S : ~(y < x)
  BY <1>2 DEF OpToRel
<1> QED
  BY <1>3

\* a is less than b by what comes after their first k characters.
LessAt(a, b, k) ==
  /\ k \in 0..Len(a) /\ k < Len(b)
  /\ \A i \in 1..k : a[i] = b[i]
  /\ k < Len(a) => a[k + 1] < b[k + 1]

\* Equal beginnings, character by character.
LEMMA SameBeginning ==
  ASSUME NEW a \in Text, NEW b \in Text, NEW k \in 0..Len(a), k <= Len(b)
  PROVE  SubSeq(a, 1, k) = SubSeq(b, 1, k) <=> \A i \in 1..k : a[i] = b[i]
<1>1. /\ SubSeq(a, 1, k) \in Seq(Nat) /\ Len(SubSeq(a, 1, k)) = k
      /\ \A i \in 1..k : SubSeq(a, 1, k)[i] = a[i]
  BY DEF Text
<1>2. /\ SubSeq(b, 1, k) \in Seq(Nat) /\ Len(SubSeq(b, 1, k)) = k
      /\ \A i \in 1..k : SubSeq(b, 1, k)[i] = b[i]
  BY DEF Text
<1> DEFINE s == SubSeq(a, 1, k)
           t == SubSeq(b, 1, k)
<1> HIDE DEF s, t
<1>3. (\A i \in 1..k : s[i] = t[i]) => s = t
  BY <1>1, <1>2, SeqEqual DEF s, t
<1> QED
  BY <1>1, <1>2, <1>3 DEF s, t

\* Go's order of strings, character by character.
LEMMA LessIs ==
  ASSUME NEW a \in Text, NEW b \in Text
  PROVE  StringLess(a, b) <=> \E k \in 0..Len(a) : LessAt(a, b, k)
<1>1. Len(a) \in Nat /\ Len(b) \in Nat
  BY DEF Text
<1>2. ASSUME NEW k \in 0..Len(a), k < Len(b)
      PROVE  SubSeq(a, 1, k) = SubSeq(b, 1, k) <=> \A i \in 1..k : a[i] = b[i]
  BY <1>1, <1>2, SameBeginning
<1> QED
  BY <1>2 DEF StringLess, LessAt

\* It is a strict order,
LEMMA LessIrreflexive ==
  ASSUME NEW a \in Text
  PROVE  ~StringLess(a, a)
<1> SUFFICES ASSUME NEW k \in 0..Len(a), LessAt(a, a, k) PROVE FALSE
  BY LessIs
<1>1. k < Len(a) /\ a[k + 1] < a[k + 1] /\ a[k + 1] \in Nat
  BY DEF LessAt, Text
<1> QED
  BY <1>1

\* which is transitive
LEMMA LessTransitive ==
  ASSUME NEW a \in Text, NEW b \in Text, NEW c \in Text, StringLess(a, b), StringLess(b, c)
  PROVE  StringLess(a, c)
<1>1. PICK j \in 0..Len(a) : LessAt(a, b, j)
  BY LessIs
<1>2. PICK k \in 0..Len(b) : LessAt(b, c, k)
  BY LessIs
<1>3. /\ Len(a) \in Nat /\ Len(b) \in Nat /\ Len(c) \in Nat
      /\ \A i \in 1..Len(a) : a[i] \in Nat
      /\ \A i \in 1..Len(b) : b[i] \in Nat
      /\ \A i \in 1..Len(c) : c[i] \in Nat
  BY DEF Text
<1>4. CASE j <= k
  <2>1. LessAt(a, c, j)
    <3>1. j < Len(c) /\ \A i \in 1..j : a[i] = c[i]
      BY <1>1, <1>2, <1>3, <1>4 DEF LessAt
    <3>2. ASSUME j < Len(a) PROVE a[j + 1] < c[j + 1]
      <4>1. a[j + 1] < b[j + 1] /\ j < Len(b)
        BY <1>1, <3>2 DEF LessAt
      <4>2. b[j + 1] = c[j + 1] \/ b[j + 1] < c[j + 1]
        <5>1. CASE j = k
          BY <1>2, <4>1, <5>1 DEF LessAt
        <5>2. CASE j < k
          <6>1. j + 1 \in 1..k
            BY <5>2
          <6> QED
            BY <1>2, <6>1 DEF LessAt
        <5> QED
          BY <1>4, <5>1, <5>2
      <4>3. a[j + 1] \in Nat /\ b[j + 1] \in Nat /\ c[j + 1] \in Nat
        BY <1>3, <3>1, <3>2, <4>1
      <4> QED
        BY <4>1, <4>2, <4>3
    <3> QED
      BY <3>1, <3>2 DEF LessAt
  <2> QED
    BY <2>1, LessIs
<1>5. CASE k < j
  <2>1. k \in 0..Len(a) /\ k < Len(a) /\ k < Len(b) /\ k + 1 \in 1..j
    BY <1>1, <1>3, <1>5 DEF LessAt
  <2>2. a[k + 1] = b[k + 1] /\ b[k + 1] < c[k + 1]
    BY <1>1, <1>2, <2>1 DEF LessAt
  <2>3. k < Len(c) /\ \A i \in 1..k : a[i] = c[i]
    BY <1>1, <1>2, <1>3, <1>5 DEF LessAt
  <2>4. LessAt(a, c, k)
    BY <2>1, <2>2, <2>3 DEF LessAt
  <2> QED
    BY <2>1, <2>4, LessIs
<1> QED
  BY <1>4, <1>5

\* and total.
LEMMA LessTotal ==
  ASSUME NEW a \in Text, NEW b \in Text, a # b
  PROVE  StringLess(a, b) \/ StringLess(b, a)
<1>1. /\ a \in Seq(Nat) /\ b \in Seq(Nat)
      /\ Len(a) \in Nat /\ Len(b) \in Nat
      /\ \A i \in 1..Len(a) : a[i] \in Nat
      /\ \A i \in 1..Len(b) : b[i] \in Nat
  BY DEF Text
<1> DEFINE D == {k \in Nat : k >= Len(a) \/ k >= Len(b) \/ a[k + 1] # b[k + 1]}
<1>2. D \in SUBSET Nat /\ Len(a) \in D
  BY <1>1
<1> HIDE DEF D
<1>3. PICK k \in D : \A m \in D : k <= m
  BY <1>2, NatHasLeast
<1>4. k \in Nat /\ k <= Len(a)
  BY <1>2, <1>3
<1>5. ASSUME NEW i \in 1..k PROVE i <= Len(a) /\ i <= Len(b) /\ a[i] = b[i]
  <2>1. i - 1 \in Nat /\ i - 1 \notin D
    BY <1>3, <1>4
  <2>2. i - 1 < Len(a) /\ i - 1 < Len(b) /\ a[(i - 1) + 1] = b[(i - 1) + 1]
    BY <1>1, <2>1 DEF D
  <2>3. (i - 1) + 1 = i
    OBVIOUS
  <2> QED
    BY <1>1, <1>4, <2>2, <2>3
<1>6. k <= Len(b)
  <2>1. CASE k = 0
    BY <1>1, <2>1
  <2>2. CASE k # 0
    <3>1. k \in 1..k
      BY <1>4, <2>2
    <3> QED
      BY <1>5, <3>1
  <2> QED
    BY <2>1, <2>2
<1>7. CASE k < Len(a) /\ k < Len(b)
  <2>1. a[k + 1] # b[k + 1] /\ a[k + 1] \in Nat /\ b[k + 1] \in Nat
    BY <1>1, <1>3, <1>4, <1>7 DEF D
  <2>2. LessAt(a, b, k) \/ LessAt(b, a, k)
    BY <1>1, <1>4, <1>5, <1>7, <2>1 DEF LessAt
  <2> QED
    BY <1>4, <1>6, <2>2, LessIs DEF LessAt
<1>8. CASE k = Len(a) /\ k < Len(b)
  <2>1. LessAt(a, b, k)
    BY <1>1, <1>4, <1>5, <1>8 DEF LessAt
  <2> QED
    BY <1>4, <2>1, LessIs DEF LessAt
<1>9. CASE k = Len(b) /\ k < Len(a)
  <2>1. LessAt(b, a, k)
    BY <1>1, <1>4, <1>5, <1>9 DEF LessAt
  <2> QED
    BY <1>4, <2>1, LessIs DEF LessAt
<1>10. CASE k = Len(a) /\ k = Len(b)
  BY <1>1, <1>5, <1>10, SeqEqual
<1> QED
  BY <1>1, <1>4, <1>6, <1>7, <1>8, <1>9, <1>10

\* In a strict total order R of a finite set S every element has a rank of its own.
Rank(S, R, q) == 1 + Cardinality({t \in S : <<t, q>> \in R})

\* The ranks of the elements differ and are the numbers from 1 on, without a gap.
LEMMA Ranks ==
  ASSUME NEW S, IsFiniteSet(S), NEW R,
         \A q \in S : <<q, q>> \notin R,
         \A q, t, u \in S : <<q, t>> \in R /\ <<t, u>> \in R => <<q, u>> \in R,
         \A q, t \in S : q # t => <<q, t>> \in R \/ <<t, q>> \in R
  PROVE  [q \in S |-> Rank(S, R, q)] \in Bijection(S, 1..Cardinality(S))
<1> DEFINE below(q) == {t \in S : <<t, q>> \in R}
           n == Cardinality(S)
           f == [q \in S |-> Rank(S, R, q)]
<1>1. n \in Nat
  BY FS_CardinalityType
<1>2. ASSUME NEW q \in S
      PROVE  /\ IsFiniteSet(below(q)) /\ Cardinality(below(q)) \in Nat
             /\ Cardinality(below(q)) < n
  <2>1. below(q) \in SUBSET S /\ q \notin below(q)
    OBVIOUS
  <2> HIDE DEF below
  <2>2. /\ IsFiniteSet(below(q)) /\ Cardinality(below(q)) <= n
        /\ (n = Cardinality(below(q)) => S = below(q))
    BY <2>1, FS_Subset
  <2>3. Cardinality(below(q)) \in Nat
    BY <2>2, FS_CardinalityType
  <2> QED
    BY <1>1, <2>1, <2>2, <2>3
<1>3. ASSUME NEW q \in S, NEW t \in S, <<q, t>> \in R
      PROVE  Cardinality(below(q)) < Cardinality(below(t))
  <2>1. below(q) \in SUBSET below(t) /\ q \in below(t) /\ q \notin below(q)
    BY <1>3
  <2> HIDE DEF below
  <2>2. /\ Cardinality(below(q)) <= Cardinality(below(t))
        /\ (Cardinality(below(t)) = Cardinality(below(q)) => below(t) = below(q))
    BY <1>2, <2>1, FS_Subset
  <2> QED
    BY <1>2, <2>1, <2>2
<1>4. ASSUME NEW q \in S PROVE f[q] = 1 + Cardinality(below(q))
  BY DEF Rank
<1> HIDE DEF below, f
<1>5. \A q \in S : f[q] \in 1..n
  BY <1>1, <1>2, <1>4
<1>6. f \in [S -> 1..n]
  BY <1>5 DEF f
<1>7. \A q, t \in S : f[q] = f[t] => q = t
  <2> SUFFICES ASSUME NEW q \in S, NEW t \in S, q # t PROVE f[q] # f[t]
    OBVIOUS
  <2>1. <<q, t>> \in R \/ <<t, q>> \in R
    OBVIOUS
  <2>2. \/ Cardinality(below(q)) < Cardinality(below(t))
        \/ Cardinality(below(t)) < Cardinality(below(q))
    BY <1>3, <2>1
  <2> QED
    BY <1>2, <1>4, <2>2
<1>8. f \in Injection(S, 1..n)
  BY <1>6, <1>7 DEF Injection, IsInjective
<1>9. IsFiniteSet(1..n) /\ Cardinality(1..n) = n
  <2>1. n \in Int /\ 1 \in Int
    BY <1>1
  <2>2. Cardinality(1..n) = (IF 1 > n THEN 0 ELSE n - 1 + 1) /\ IsFiniteSet(1..n)
    BY <2>1, FS_Interval
  <2> QED
    BY <1>1, <2>2
<1>10. f \in Surjection(S, 1..n)
  <2> HIDE DEF n
  <2> QED
    BY <1>8, <1>9, FS_Injection DEF n
<1> QED
  BY <1>8, <1>10 DEF Bijection, f

-----------------------------------------------------------------------------
(***************************************************************************)
(* Positions, and where the parser moves them.                             *)
(***************************************************************************)

\* The beginning of a beginning.
LEMMA Beginning ==
  ASSUME NEW S, NEW s \in Seq(S), NEW n \in 0..Len(s), NEW k \in 0..n
  PROVE  /\ SubSeq(s, 1, n) \in Seq(S) /\ Len(SubSeq(s, 1, n)) = n
         /\ \A i \in 1..n : SubSeq(s, 1, n)[i] = s[i]
         /\ SubSeq(SubSeq(s, 1, n), 1, k) = SubSeq(s, 1, k)
<1> DEFINE t == SubSeq(s, 1, n)
           u == SubSeq(t, 1, k)
           v == SubSeq(s, 1, k)
<1>1. t \in Seq(S) /\ Len(t) = n /\ \A i \in 1..n : t[i] = s[i]
  OBVIOUS
<1>2. v \in Seq(S) /\ Len(v) = k /\ \A i \in 1..k : v[i] = s[i]
  OBVIOUS
<1> HIDE DEF t
<1>3. u \in Seq(S) /\ Len(u) = k /\ \A i \in 1..k : u[i] = t[i]
  BY <1>1
<1> HIDE DEF u, v
<1>4. u = v
  BY <1>1, <1>2, <1>3, SeqEqual
<1> QED
  BY <1>1, <1>4 DEF t, u, v

\* A sequence is what comes before its last element, and that.
LEMMA FrontAndLast ==
  ASSUME NEW S, NEW s \in Seq(S), Len(s) > 0
  PROVE  /\ Front(s) \in Seq(S) /\ Len(Front(s)) = Len(s) - 1
         /\ \A i \in 1..Len(s) - 1 : Front(s)[i] = s[i]
         /\ Last(s) \in S
         /\ s = Append(Front(s), Last(s))
<1>1. /\ Front(s) \in Seq(S) /\ Len(Front(s)) = Len(s) - 1
      /\ \A i \in 1..Len(s) - 1 : Front(s)[i] = s[i]
  <2>1. Len(s) - 1 \in 0..Len(s) /\ 0 \in 0..Len(s) - 1
    OBVIOUS
  <2> QED
    BY <2>1, Beginning DEF Front
<1>2. Last(s) \in S /\ Last(s) = s[Len(s)]
  BY DEF Last
<1> DEFINE f == Front(s)
           e == Last(s)
           t == Append(f, e)
<1>3. f \in Seq(S) /\ e \in S
  BY <1>1, <1>2
<1> HIDE DEF f, e
<1>4. /\ t \in Seq(S) /\ Len(t) = Len(f) + 1
      /\ \A i \in 1..Len(f) : t[i] = f[i]
      /\ t[Len(f) + 1] = e
  BY <1>3
<1> HIDE DEF t
<1>5. Len(t) = Len(s) /\ \A i \in 1..Len(s) : s[i] = t[i]
  BY <1>1, <1>2, <1>4 DEF f, e
<1>6. s = t
  BY <1>4, <1>5, SeqEqual
<1> QED
  BY <1>1, <1>2, <1>6 DEF t, f, e

\* The positions of a document, and the root's.
Positions(d) == {<<>>} \cup DOMAIN d.nodes

\* Where there is a node, there is its parent.
LEMMA ParentIsThere ==
  ASSUME NEW d \in Docs, NEW p \in DOMAIN d.nodes
  PROVE  /\ p \in Seq(Nat) /\ Len(p) \in Nat \ {0}
         /\ Front(p) \in Positions(d) /\ Front(p) \in Seq(Nat) /\ Len(Front(p)) = Len(p) - 1
<1>1. p \in Seq(Nat) /\ p # <<>>
  BY DocsAssumption
<1>2. Len(p) \in Nat \ {0}
  BY <1>1, EmptySeq
<1>3. Front(p) \in Seq(Nat) /\ Len(Front(p)) = Len(p) - 1
  BY <1>1, <1>2, FrontAndLast
<1>4. CASE Len(p) = 1
  <2>1. Front(p) = <<>>
    BY <1>3, <1>4, EmptySeq
  <2> QED
    BY <1>1, <1>2, <1>3, <2>1 DEF Positions
<1>5. CASE Len(p) # 1
  BY <1>1, <1>2, <1>3, <1>5, DocsAssumption DEF Positions
<1> QED
  BY <1>4, <1>5

\* Positions are sequences of child numbers.
LEMMA PositionsAreSeqs ==
  ASSUME NEW d \in Docs, NEW p \in Positions(d)
  PROVE  p \in Seq(Nat) /\ Len(p) \in Nat
<1>1. CASE p = <<>>
  <2>1. <<>> \in Seq(Nat) /\ Len(<<>>) = 0
    BY EmptySeq
  <2> QED
    BY <1>1, <2>1
<1>2. CASE p \in DOMAIN d.nodes
  BY <1>2, ParentIsThere
<1> QED
  BY <1>1, <1>2 DEF Positions

\* Where there is a node, there is the whole branch it is on.
LEMMA BranchIsThere ==
  ASSUME NEW d \in Docs, NEW p \in DOMAIN d.nodes, NEW k \in 1..Len(p)
  PROVE  SubSeq(p, 1, k) \in DOMAIN d.nodes
<1>1. p \in Seq(Nat) /\ Len(p) \in Nat \ {0}
  BY ParentIsThere
<1> DEFINE K == {j \in Nat : j < Len(p) /\ SubSeq(p, 1, Len(p) - j) \notin DOMAIN d.nodes}
<1>2. ASSUME K # {} PROVE FALSE
  <2>1. PICK j \in K : \A m \in K : j <= m
    <3>1. K \in SUBSET Nat
      OBVIOUS
    <3> HIDE DEF K
    <3> QED
      BY <1>2, <3>1, NatHasLeast
  <2>2. SubSeq(p, 1, Len(p)) = p
    BY <1>1, SubSeqFull
  <2>3. j # 0
    <3>1. SUFFICES ASSUME j = 0 PROVE FALSE
      OBVIOUS
    <3>2. Len(p) - j = Len(p)
      BY <1>1, <3>1
    <3>3. SubSeq(p, 1, Len(p) - j) \notin DOMAIN d.nodes
      BY <2>1
    <3>4. p \notin DOMAIN d.nodes
      BY <2>2, <3>2, <3>3, Zenon
    <3> QED
      BY <3>4
  <2> DEFINE n == Len(p) - (j - 1)
             s == SubSeq(p, 1, n)
  <2>4. j \in Nat /\ j < Len(p) /\ j - 1 \in Nat /\ j - 1 \notin K
    BY <2>1, <2>3
  <2>5. s \in DOMAIN d.nodes
    BY <1>1, <2>4
  <2>6. n \in 0..Len(p) /\ n - 1 \in 0..n /\ n > 1 /\ n - 1 = Len(p) - j
    BY <1>1, <2>4
  <2> HIDE DEF n
  <2>7. Len(s) = n /\ SubSeq(s, 1, n - 1) = SubSeq(p, 1, n - 1)
    BY <1>1, <2>6, Beginning
  <2> HIDE DEF s
  <2>8. Front(s) \in DOMAIN d.nodes
    BY <2>5, <2>6, <2>7, DocsAssumption
  <2>9. SubSeq(p, 1, Len(p) - j) \in DOMAIN d.nodes
    BY <2>6, <2>7, <2>8 DEF Front
  <2> QED
    BY <2>1, <2>9
<1>3. Len(p) - k \in Nat /\ Len(p) - k < Len(p) /\ Len(p) - (Len(p) - k) = k
  BY <1>1
<1> QED
  BY <1>2, <1>3

\* Which of two siblings comes first: by name, then by place in the document.
Earlier(x, q, p) ==
  \/ StringLess(x[q].name, x[p].name)
  \/ x[q].name = x[p].name /\ Last(q) < Last(p)

\* Sorting gives the children of a node the places from 1 on.
LEMMA Placed ==
  ASSUME NEW d \in Docs, NEW at \in Seq(Nat)
  PROVE  LET C == Children(d.nodes, at)
         IN  /\ IsFiniteSet(C)
             /\ [q \in C |-> Place(d.nodes, q)] \in Bijection(C, 1..Cardinality(C))
<1> DEFINE x == d.nodes
           C == Children(x, at)
           R == {pair \in C \X C : Earlier(x, pair[1], pair[2])}
<1>1. IsFiniteSet(C)
  <2>1. C \in SUBSET DOMAIN x /\ IsFiniteSet(DOMAIN x)
    BY DocsAssumption DEF Children
  <2> QED
    BY <2>1, FS_Subset
<1>2. \A q \in C : q \in DOMAIN x /\ Len(q) = Len(at) + 1 /\ Front(q) = at
  BY DEF Children
<1>3. \A q \in C : q \in Seq(Nat) /\ Len(q) > 0 /\ x[q].name \in Text
  BY <1>2, ParentIsThere, DocsAssumption
<1>4. \A q \in C : q = Append(at, Last(q)) /\ Last(q) \in Nat
  BY <1>2, <1>3, FrontAndLast
<1>5. \A q, t \in C : <<q, t>> \in R <=> Earlier(x, q, t)
  OBVIOUS
<1>6. \A q \in C : Siblings(x, q) = C
  BY <1>2 DEF Siblings, Children
<1>7. \A q \in C : Place(x, q) = Rank(C, R, q)
  <2> SUFFICES ASSUME NEW q \in C PROVE Place(x, q) = Rank(C, R, q)
    OBVIOUS
  <2>1. {t \in Siblings(x, q) : Earlier(x, t, q)} = {t \in C : <<t, q>> \in R}
    BY <1>5, <1>6
  <2> QED
    BY <2>1 DEF Place, Rank, Earlier
<1> HIDE DEF x, C, R
<1>8. \A q \in C : <<q, q>> \notin R
  <2> SUFFICES ASSUME NEW q \in C, Earlier(x, q, q) PROVE FALSE
    BY <1>5
  <2>1. ~StringLess(x[q].name, x[q].name)
    BY <1>3, LessIrreflexive
  <2> QED
    BY <1>4, <2>1 DEF Earlier
<1>9. \A q, t, u \in C : <<q, t>> \in R /\ <<t, u>> \in R => <<q, u>> \in R
  <2> SUFFICES ASSUME NEW q \in C, NEW t \in C, NEW u \in C, Earlier(x, q, t), Earlier(x, t, u)
               PROVE  Earlier(x, q, u)
    BY <1>5
  <2>1. x[q].name \in Text /\ x[t].name \in Text /\ x[u].name \in Text
    BY <1>3
  <2>2. Last(q) \in Nat /\ Last(t) \in Nat /\ Last(u) \in Nat
    BY <1>4
  <2>3. StringLess(x[q].name, x[t].name) /\ StringLess(x[t].name, x[u].name)
          => StringLess(x[q].name, x[u].name)
    BY <2>1, LessTransitive
  <2> QED
    BY <2>2, <2>3 DEF Earlier
<1>10. \A q, t \in C : q # t => <<q, t>> \in R \/ <<t, q>> \in R
  <2> SUFFICES ASSUME NEW q \in C, NEW t \in C, q # t PROVE Earlier(x, q, t) \/ Earlier(x, t, q)
    BY <1>5
  <2>1. x[q].name # x[t].name => StringLess(x[q].name, x[t].name) \/ StringLess(x[t].name, x[q].name)
    BY <1>3, LessTotal
  <2>2. Last(q) # Last(t) /\ Last(q) \in Nat /\ Last(t) \in Nat
    BY <1>4
  <2> QED
    BY <2>1, <2>2 DEF Earlier
<1>11. [q \in C |-> Rank(C, R, q)] \in Bijection(C, 1..Cardinality(C))
  BY <1>1, <1>8, <1>9, <1>10, Ranks
<1>12. [q \in C |-> Place(x, q)] = [q \in C |-> Rank(C, R, q)]
  BY <1>7
<1> QED
  BY <1>1, <1>11, <1>12 DEF x, C

\* A node comes to its parent's new position and a place among its siblings.
LEMMA SortedIs ==
  ASSUME NEW d \in Docs, NEW p \in Positions(d)
  PROVE  /\ Sorted(d.nodes, p) \in Seq(Nat \ {0}) /\ Len(Sorted(d.nodes, p)) = Len(p)
         /\ \A k \in 1..Len(p) : Sorted(d.nodes, p)[k] = Place(d.nodes, SubSeq(p, 1, k))
<1>1. p \in Seq(Nat) /\ Len(p) \in Nat
  BY PositionsAreSeqs
<1>2. ASSUME NEW k \in 1..Len(p)
      PROVE  Place(d.nodes, SubSeq(p, 1, k)) \in Nat \ {0}
  <2> DEFINE q == SubSeq(p, 1, k)
             C == Children(d.nodes, Front(q))
             f == [r \in C |-> Place(d.nodes, r)]
  <2>1. p \in DOMAIN d.nodes
    <3>1. p # <<>>
      BY <1>2, EmptySeq
    <3> QED
      BY <3>1 DEF Positions
  <2>2. q \in DOMAIN d.nodes
    BY <2>1, BranchIsThere
  <2> HIDE DEF q
  <2>3. Len(q) \in Nat \ {0} /\ Front(q) \in Seq(Nat) /\ Len(Front(q)) = Len(q) - 1
    BY <2>2, ParentIsThere
  <2>4. q \in C
    BY <2>2, <2>3 DEF Children
  <2>5. f \in Bijection(C, 1..Cardinality(C)) /\ IsFiniteSet(C)
    BY <2>3, Placed
  <2> HIDE DEF C
  <2>6. f[q] \in 1..Cardinality(C) /\ f[q] = Place(d.nodes, q)
    BY <2>4, <2>5 DEF Bijection, Injection
  <2> QED
    BY <2>5, <2>6, FS_CardinalityType DEF q
<1> DEFINE s == [k \in 1..Len(p) |-> Place(d.nodes, SubSeq(p, 1, k))]
<1>3. s \in [1..Len(p) -> Nat \ {0}]
  BY <1>2
<1>4. Sorted(d.nodes, p) = s
  BY DEF Sorted
<1>5. \A k \in 1..Len(p) : s[k] = Place(d.nodes, SubSeq(p, 1, k))
  OBVIOUS
<1> HIDE DEF s
<1>6. s \in Seq(Nat \ {0}) /\ Len(s) = Len(p)
  BY <1>1, <1>3
<1> QED
  BY <1>4, <1>5, <1>6

\* The branch a node is on moves with it.
LEMMA SortedBeginning ==
  ASSUME NEW d \in Docs, NEW p \in DOMAIN d.nodes, NEW k \in 0..Len(p)
  PROVE  /\ SubSeq(p, 1, k) \in Positions(d)
         /\ SubSeq(Sorted(d.nodes, p), 1, k) = Sorted(d.nodes, SubSeq(p, 1, k))
<1> DEFINE q == SubSeq(p, 1, k)
           x == d.nodes
           s == SubSeq(Sorted(x, p), 1, k)
           t == Sorted(x, q)
<1>1. p \in Seq(Nat) /\ Len(p) \in Nat \ {0} /\ p \in Positions(d)
  BY ParentIsThere DEF Positions
<1>2. q \in Positions(d)
  <2>1. CASE k = 0
    <3>1. SubSeq(p, 1, 0) = <<>>
      BY SubSeqEmpty
    <3> QED
      BY <2>1, <3>1 DEF Positions
  <2>2. CASE k # 0
    BY <2>2, BranchIsThere DEF Positions
  <2> QED
    BY <2>1, <2>2
<1>3. Len(q) = k /\ \A i \in 1..k : SubSeq(q, 1, i) = SubSeq(p, 1, i)
  BY <1>1, Beginning
<1>4. /\ Sorted(x, p) \in Seq(Nat \ {0}) /\ Len(Sorted(x, p)) = Len(p)
      /\ \A i \in 1..Len(p) : Sorted(x, p)[i] = Place(x, SubSeq(p, 1, i))
  BY <1>1, SortedIs
<1>5. s \in Seq(Nat \ {0}) /\ Len(s) = k /\ \A i \in 1..k : s[i] = Sorted(x, p)[i]
  BY <1>1, <1>4, Beginning
<1> HIDE DEF q
<1>6. t \in Seq(Nat \ {0}) /\ Len(t) = k /\ \A i \in 1..k : t[i] = Place(x, SubSeq(q, 1, i))
  BY <1>2, <1>3, SortedIs
<1> HIDE DEF s, t, x
<1>7. ASSUME NEW i \in 1..k PROVE s[i] = t[i]
  <2>1. i \in 1..Len(p)
    BY <1>1
  <2>2. s[i] = Place(x, SubSeq(p, 1, i))
    BY <1>4, <1>5, <2>1
  <2> QED
    BY <1>3, <1>6, <2>2
<1>8. s = t
  BY <1>5, <1>6, <1>7, SeqEqual
<1> QED
  BY <1>2, <1>8 DEF s, t, q, x

\* In particular, to a child from its parent.
LEMMA SortedChild ==
  ASSUME NEW d \in Docs, NEW p \in DOMAIN d.nodes
  PROVE  /\ Front(p) \in Positions(d)
         /\ Front(Sorted(d.nodes, p)) = Sorted(d.nodes, Front(p))
         /\ Sorted(d.nodes, p) = Append(Sorted(d.nodes, Front(p)), Place(d.nodes, p))
         /\ Len(Sorted(d.nodes, p)) = Len(p)
<1> DEFINE s == Sorted(d.nodes, p)
           n == Len(p)
<1>1. p \in Seq(Nat) /\ n \in Nat \ {0} /\ p \in Positions(d)
  BY ParentIsThere DEF Positions
<1>2. s \in Seq(Nat \ {0}) /\ Len(s) = n /\ s[n] = Place(d.nodes, SubSeq(p, 1, n))
  BY <1>1, SortedIs
<1>3. SubSeq(p, 1, n) = p
  BY <1>1, SubSeqFull
<1>4. /\ SubSeq(p, 1, n - 1) \in Positions(d)
      /\ SubSeq(s, 1, n - 1) = Sorted(d.nodes, SubSeq(p, 1, n - 1))
  <2>1. n - 1 \in 0..n
    BY <1>1
  <2> QED
    BY <2>1, SortedBeginning
<1> HIDE DEF s
<1>5. Front(s) = Sorted(d.nodes, Front(p)) /\ Front(p) \in Positions(d)
  BY <1>2, <1>4 DEF Front
<1>6. Last(s) = Place(d.nodes, p)
  BY <1>2, <1>3 DEF Last
<1>7. s = Append(Front(s), Last(s))
  <2>1. s \in Seq(Nat \ {0}) /\ Len(s) > 0
    BY <1>1, <1>2
  <2> QED
    BY <2>1, FrontAndLast
<1> QED
  BY <1>2, <1>5, <1>6, <1>7 DEF s

\* No two nodes come to one position.
LEMMA SortedTells ==
  ASSUME NEW d \in Docs, NEW p \in Positions(d), NEW q \in Positions(d),
         Sorted(d.nodes, p) = Sorted(d.nodes, q)
  PROVE  p = q
<1> DEFINE x == d.nodes
           alike(a, b) == Sorted(x, a) = Sorted(x, b) /\ a # b
           D == {n \in Nat : \E a, b \in Positions(d) : Len(a) = n /\ alike(a, b)}
<1>1. ASSUME D # {} PROVE FALSE
  <2>1. PICK n \in D : \A m \in D : n <= m
    <3>1. D \in SUBSET Nat
      OBVIOUS
    <3> HIDE DEF D
    <3> QED
      BY <1>1, <3>1, NatHasLeast
  <2>2. PICK a \in Positions(d), b \in Positions(d) : Len(a) = n /\ alike(a, b)
    BY <2>1
  <2>3. Len(b) = Len(a) /\ a \in Seq(Nat) /\ b \in Seq(Nat)
    BY <2>2, SortedIs, PositionsAreSeqs
  <2>4. a \in DOMAIN x /\ b \in DOMAIN x
    <3>1. a # <<>> /\ b # <<>>
      BY <2>2, <2>3, EmptySeq
    <3> QED
      BY <3>1 DEF Positions
  <2>5. /\ Len(a) \in Nat \ {0}
        /\ Front(a) \in Positions(d) /\ Front(b) \in Positions(d)
        /\ Front(a) \in Seq(Nat) /\ Len(Front(a)) = n - 1 /\ Len(Front(b)) = n - 1
    BY <2>2, <2>3, <2>4, ParentIsThere
  <2>6. /\ Sorted(x, Front(a)) = Sorted(x, Front(b))
        /\ Place(x, a) = Place(x, b)
    <3>1. /\ Front(Sorted(x, a)) = Sorted(x, Front(a))
          /\ Front(Sorted(x, b)) = Sorted(x, Front(b))
      BY <2>4, SortedChild
    <3>2. Sorted(x, a)[n] = Place(x, SubSeq(a, 1, n)) /\ Sorted(x, b)[n] = Place(x, SubSeq(b, 1, n))
      BY <2>2, <2>3, <2>5, SortedIs
    <3>3. SubSeq(a, 1, n) = a /\ SubSeq(b, 1, n) = b
      BY <2>2, <2>3, SubSeqFull
    <3> QED
      BY <2>2, <3>1, <3>2, <3>3
  <2>7. Front(a) = Front(b)
    <3>1. n - 1 \in Nat /\ n - 1 \notin D
      BY <2>1, <2>2, <2>5
    <3> QED
      BY <2>5, <2>6, <3>1
  <2> DEFINE C == Children(x, Front(a))
             f == [r \in C |-> Place(x, r)]
  <2>8. a \in C /\ b \in C
    BY <2>2, <2>3, <2>4, <2>5, <2>7 DEF Children
  <2>9. f \in Bijection(C, 1..Cardinality(C))
    BY <2>5, Placed
  <2>10. f[a] = Place(x, a) /\ f[b] = Place(x, b)
    BY <2>8
  <2>11. a = b
    <3> HIDE DEF C, f
    <3>1. \A r, t \in C : f[r] = f[t] => r = t
      BY <2>9 DEF Bijection, Injection, IsInjective
    <3> QED
      BY <2>6, <2>8, <2>10, <3>1
  <2> QED
    BY <2>2, <2>11
<1>2. Len(p) \in Nat
  BY PositionsAreSeqs
<1> QED
  BY <1>1, <1>2

-----------------------------------------------------------------------------
(***************************************************************************)
(* The parsed tree.                                                        *)
(***************************************************************************)

\* A parsed node is a node of the document, and only the positions change.
LEMMA ParsedNode ==
  ASSUME NEW d \in Docs, NEW p \in DOMAIN d.nodes
  PROVE  /\ Sorted(d.nodes, p) \in DOMAIN Parse(d).nodes
         /\ Parse(d).nodes[Sorted(d.nodes, p)] = BuildNode(d, p)
<1> DEFINE x == d.nodes
           q == Sorted(x, p)
           from(r) == Sorted(x, r) = q
           c == CHOOSE r \in DOMAIN x : from(r)
<1>1. c \in DOMAIN x /\ from(c)
  <2>1. from(p)
    OBVIOUS
  <2> HIDE DEF from
  <2> QED
    BY <2>1, Zenon
<1>2. c = p
  BY <1>1, SortedTells DEF Positions
<1>3. q \in DOMAIN Parse(d).nodes /\ Parse(d).nodes[q] = BuildNode(d, c)
  BY DEF Parse
<1> QED
  BY <1>2, <1>3

\* There are no others.
LEMMA ParsedFrom ==
  ASSUME NEW d \in Docs, NEW q \in DOMAIN Parse(d).nodes
  PROVE  \E p \in DOMAIN d.nodes : q = Sorted(d.nodes, p)
BY DEF Parse

\* The children of a parsed node are those of the document's, where sorting puts them.
LEMMA ParsedChildren ==
  ASSUME NEW d \in Docs, NEW at \in Positions(d)
  PROVE  Children(Parse(d).nodes, Sorted(d.nodes, at)) =
           {Sorted(d.nodes, q) : q \in Children(d.nodes, at)}
<1> DEFINE x == d.nodes
           N == Parse(d).nodes
           up == Sorted(x, at)
<1>1. Len(up) = Len(at)
  BY SortedIs
<1>2. ASSUME NEW q \in Children(x, at)
      PROVE  Sorted(x, q) \in Children(N, up)
  <2>1. q \in DOMAIN x /\ Len(q) = Len(at) + 1 /\ Front(q) = at
    BY <1>2 DEF Children
  <2>2. Front(Sorted(x, q)) = up /\ Len(Sorted(x, q)) = Len(q)
    BY <2>1, SortedChild
  <2>3. Sorted(x, q) \in DOMAIN N
    BY <2>1, ParsedNode
  <2> QED
    BY <1>1, <2>1, <2>2, <2>3 DEF Children
<1>3. ASSUME NEW r \in Children(N, up)
      PROVE  \E q \in Children(x, at) : r = Sorted(x, q)
  <2>1. r \in DOMAIN N /\ Len(r) = Len(up) + 1 /\ Front(r) = up
    BY <1>3 DEF Children
  <2>2. PICK q \in DOMAIN x : r = Sorted(x, q)
    BY <2>1, ParsedFrom
  <2>3. Len(q) = Len(at) + 1 /\ Front(q) \in Positions(d) /\ Sorted(x, Front(q)) = up
    BY <1>1, <2>1, <2>2, SortedChild
  <2>4. Front(q) = at
    BY <2>3, SortedTells
  <2> QED
    BY <2>2, <2>3, <2>4 DEF Children
<1> HIDE DEF x, N, up
<1> QED
  BY <1>2, <1>3 DEF x, N, up

\* They are numbered from 1 on, so the builder's walk comes to each of them.
LEMMA NumberedChildren ==
  ASSUME NEW d \in Docs, NEW at \in Positions(d)
  PROVE  LET up == Sorted(d.nodes, at)
             C  == Children(Parse(d).nodes, up)
         IN  C = {Append(up, k) : k \in 1..Cardinality(C)}
<1> DEFINE x == d.nodes
           up == Sorted(x, at)
           C == Children(Parse(d).nodes, up)
           B == Children(x, at)
           f == [q \in B |-> Place(x, q)]
           g == [q \in B |-> Sorted(x, q)]
<1>1. at \in Seq(Nat)
  BY PositionsAreSeqs
<1>2. IsFiniteSet(B) /\ f \in Bijection(B, 1..Cardinality(B))
  BY <1>1, Placed
<1>3. C = {Sorted(x, q) : q \in B}
  BY ParsedChildren
<1>4. ASSUME NEW q \in B
      PROVE  q \in DOMAIN x /\ Sorted(x, q) = Append(up, Place(x, q))
  <2>1. q \in DOMAIN x /\ Front(q) = at
    BY DEF Children
  <2> QED
    BY <2>1, SortedChild
<1>5. g \in Bijection(B, C)
  <2>1. g \in [B -> C] /\ \A r \in C : \E q \in B : g[q] = r
    BY <1>3
  <2>2. \A q, r \in B : g[q] = g[r] => q = r
    BY <1>4, SortedTells DEF Positions
  <2> HIDE DEF B, C, g
  <2> QED
    BY <2>1, <2>2 DEF Bijection, Injection, Surjection, IsInjective
<1>6. Cardinality(C) = Cardinality(B)
  <2> HIDE DEF B, C, g
  <2> QED
    BY <1>2, <1>5, FS_Bijection DEF ExistsBijection
<1>7. \A q \in B : f[q] = Place(x, q)
  OBVIOUS
<1> HIDE DEF B, C, f, g
<1>8. /\ \A q \in B : f[q] \in 1..Cardinality(B)
      /\ \A k \in 1..Cardinality(B) : \E q \in B : f[q] = k
  BY <1>2 DEF Bijection, Injection, Surjection
<1> HIDE DEF up, x
<1>9. C = {Append(up, k) : k \in 1..Cardinality(C)}
  <2>1. ASSUME NEW r \in C PROVE \E k \in 1..Cardinality(B) : r = Append(up, k)
    <3>1. PICK q \in B : r = Sorted(x, q)
      BY <1>3, <2>1
    <3> QED
      BY <1>4, <1>7, <1>8, <3>1
  <2>2. ASSUME NEW k \in 1..Cardinality(B) PROVE Append(up, k) \in C
    <3>1. PICK q \in B : Place(x, q) = k
      BY <1>7, <1>8, <2>2
    <3> QED
      BY <1>3, <1>4, <3>1
  <2>3. C = {Append(up, k) : k \in 1..Cardinality(B)}
    BY <2>1, <2>2
  <2> QED
    BY <1>6, <2>3
<1> QED
  BY <1>9 DEF up, C, x

\* A tree of nodes, as the builder walks it: its positions are paths of child numbers,
\* where there is a node there is the branch it is on, and the children of each node are
\* numbered from 1 on.
IsTree(N) ==
  /\ \A p \in DOMAIN N : Len(p) \in Nat \ {0}
  /\ \A p \in DOMAIN N : p \in Seq(Nat)
  /\ \A p \in DOMAIN N : \A k \in 1..Len(p) : SubSeq(p, 1, k) \in DOMAIN N
  /\ \A at \in {<<>>} \cup DOMAIN N :
       Children(N, at) = {Append(at, k) : k \in 1..Cardinality(Children(N, at))}

\* The builder is given such a tree, whatever the document.
LEMMA ParsedIsTree ==
  ASSUME NEW d \in Docs
  PROVE  IsTree(Parse(d).nodes)
<1> DEFINE N == Parse(d).nodes
<1>1. ASSUME NEW q \in DOMAIN N
      PROVE  /\ Len(q) \in Nat \ {0} /\ q \in Seq(Nat)
             /\ \A k \in 1..Len(q) : SubSeq(q, 1, k) \in DOMAIN N
  <2>1. PICK p \in DOMAIN d.nodes : q = Sorted(d.nodes, p)
    BY <1>1, ParsedFrom
  <2>2. q \in Seq(Nat \ {0}) /\ Len(q) = Len(p)
    BY <2>1, SortedIs DEF Positions
  <2>3. Len(q) \in Nat \ {0}
    BY <2>2, ParentIsThere
  <2>4. q \in Seq(Nat)
    BY <2>2, SeqMonotonic
  <2>5. ASSUME NEW k \in 1..Len(q) PROVE SubSeq(q, 1, k) \in DOMAIN N
    <3>1. SubSeq(q, 1, k) = Sorted(d.nodes, SubSeq(p, 1, k))
      BY <2>1, <2>2, SortedBeginning
    <3>2. SubSeq(p, 1, k) \in DOMAIN d.nodes
      BY <2>2, BranchIsThere
    <3> HIDE DEF N
    <3> QED
      BY <3>1, <3>2, ParsedNode DEF N
  <2> QED
    BY <2>3, <2>4, <2>5
<1>2. ASSUME NEW at \in {<<>>} \cup DOMAIN N
      PROVE  Children(N, at) = {Append(at, k) : k \in 1..Cardinality(Children(N, at))}
  <2>1. \E p \in Positions(d) : at = Sorted(d.nodes, p)
    <3>1. CASE at = <<>>
      <4>1. <<>> \in Positions(d) /\ Len(<<>>) = 0
        BY EmptySeq DEF Positions
      <4>2. Sorted(d.nodes, <<>>) = <<>>
        BY <4>1, SortedIs, EmptySeq
      <4> QED
        BY <3>1, <4>1, <4>2
    <3>2. CASE at \in DOMAIN N
      BY <3>2, ParsedFrom DEF Positions
    <3> QED
      BY <3>1, <3>2
  <2> QED
    BY <2>1, NumberedChildren
<1> HIDE DEF N
<1> QED
  BY <1>1, <1>2 DEF IsTree, N

-----------------------------------------------------------------------------
(***************************************************************************)
(* The walk: every node is visited unless a leaf is above it, and gets the *)
(* methods its access calls for.                                           *)
(***************************************************************************)

Visiting == {"claim", "claimType", "members", "emit"}

\* The prefixes of the methods a node is to have.
PrefixesAt(p) ==
  IF p = <<>> THEN IF HasDynamicChild(<<>>) THEN {"List"} ELSE {}
  ELSE IF Leaf(csp.nodes[p])
  THEN {m \in {"Get", "Create", "Update", "Delete", "Exec"} :
          VerbOf[m] \in csp.nodes[p].access /\ ~(m = "Get" /\ csp.nodes[p].format = "null")}
  ELSE {m \in {"List", "Create", "Delete"} :
          /\ VerbOf[m] \in csp.nodes[p].access
          /\ IF m = "List" THEN HasDynamicChild(p) ELSE Dynamic(csp.nodes[p])}

\* The positions that the builder has yet to come to, or is at; and what is beneath them.
DueAt      == {x.at : x \in Range(agenda)} \cup (IF pc \in Visiting THEN {cur.at} ELSE {})
Pending(p) == \E k \in 1..Len(p) : SubSeq(p, 1, k) \in DueAt

Parsed == doc \in Docs /\ csp = Parse(doc)

Places ==
  /\ cur.at \in {<<>>} \cup DOMAIN csp.nodes
  /\ pc \in Visiting => cur.at \in DOMAIN csp.nodes
  /\ IsSeq(agenda) /\ \A x \in Range(agenda) : x.at \in DOMAIN csp.nodes
  /\ pc = "done" => agenda = <<>>
  /\ pc = "start" => methods = {} /\ cur = Root /\ agenda = <<>>

\* No method is too many, and none is missing once nothing is pending.
Sound == \A m \in methods : m.prefix \in PrefixesAt(m.at)

Complete ==
  pc # "start" =>
    /\ PrefixesAt(<<>>) \subseteq MethodsAt(<<>>)
    /\ \A p \in Reached : Pending(p) \/ PrefixesAt(p) \subseteq MethodsAt(p)

WalkInv == Parsed /\ Places /\ Sound /\ Complete

\* The elements of a concatenation are those of its parts.
LEMMA ConcatRange ==
  ASSUME NEW s, IsSeq(s), NEW t, IsSeq(t)
  PROVE  Range(s \o t) = Range(s) \cup Range(t)
<1> DEFINE R == Range(s) \cup Range(t)
           u == s \o t
<1>1. s \in Seq(R) /\ t \in Seq(R)
  BY DEF IsSeq
<1> HIDE DEF R
<1>2. /\ Len(s) \in Nat /\ Len(t) \in Nat /\ DOMAIN s = 1..Len(s) /\ DOMAIN t = 1..Len(t)
      /\ DOMAIN u = 1..Len(s) + Len(t)
      /\ \A i \in 1..Len(s) + Len(t) : u[i] = IF i <= Len(s) THEN s[i] ELSE t[i - Len(s)]
  BY <1>1, ConcatProperties
<1> HIDE DEF u
<1>3. \A i \in 1..Len(s) : i \in DOMAIN u /\ u[i] = s[i]
  BY <1>2
<1>4. ASSUME NEW i \in 1..Len(t) PROVE Len(s) + i \in DOMAIN u /\ u[Len(s) + i] = t[i]
  <2>1. Len(s) + i \in 1..Len(s) + Len(t) /\ ~(Len(s) + i <= Len(s)) /\ (Len(s) + i) - Len(s) = i
    BY <1>2
  <2> QED
    BY <1>2, <2>1
<1>5. Range(s) \subseteq Range(u)
  BY <1>2, <1>3 DEF Range
<1>6. Range(t) \subseteq Range(u)
  BY <1>2, <1>4 DEF Range
<1>7. Range(u) \subseteq Range(s) \cup Range(t)
  BY ConcatAny DEF u
<1> QED
  BY <1>5, <1>6, <1>7 DEF u

\* The elements of a sequence that is not empty are its head and those of its tail.
LEMMA HeadAndTail ==
  ASSUME NEW s, IsSeq(s), s # <<>>
  PROVE  Range(s) = {Head(s)} \cup Range(Tail(s))
<1> DEFINE t == Tail(s)
<1>1. s \in Seq(Range(s))
  BY DEF IsSeq
<1>2. /\ Len(s) \in Nat \ {0} /\ DOMAIN s = 1..Len(s) /\ Head(s) = s[1]
      /\ t \in Seq(Range(s)) /\ Len(t) = Len(s) - 1
      /\ \A i \in 1..Len(s) - 1 : t[i] = s[i + 1]
  BY <1>1, HeadTailProperties, EmptySeq
<1>3. DOMAIN t = 1..Len(s) - 1
  BY <1>2
<1> HIDE DEF t
<1>4. ASSUME NEW i \in 1..Len(s), i # 1 PROVE s[i] \in Range(t)
  <2>1. i - 1 \in 1..Len(s) - 1 /\ (i - 1) + 1 = i
    BY <1>2, <1>4
  <2>2. t[i - 1] = s[i]
    BY <1>2, <2>1
  <2> QED
    BY <1>3, <2>1, <2>2 DEF Range
<1>5. Range(s) \subseteq {Head(s)} \cup Range(t)
  BY <1>2, <1>4 DEF Range
<1>6. Head(s) \in Range(s) /\ Range(t) \subseteq Range(s)
  BY TailAny DEF t
<1> QED
  BY <1>5, <1>6 DEF t

\* The walk comes to each child of the node.
LEMMA WalkIs ==
  ASSUME Parsed, Shape, Walks, cur.at \in {<<>>} \cup DOMAIN csp.nodes
  PROVE  /\ IsSeq(Walk(cur))
         /\ {x.at : x \in Range(Walk(cur))} = Children(csp.nodes, cur.at)
<1> DEFINE C == Children(csp.nodes, cur.at)
           n == Cardinality(C)
           item(k) == [at |-> Append(cur.at, k), parent |-> cur]
           W == [k \in 1..n |-> item(k)]
<1>1. IsSeq(Walk(cur))
  BY WalkIsGood
<1>2. C = {Append(cur.at, k) : k \in 1..n}
  BY ParsedIsTree DEF Parsed, IsTree
<1>3. Walk(cur) = W
  BY DEF Walk
<1>4. \A k \in 1..n : item(k).at = Append(cur.at, k)
  OBVIOUS
<1> HIDE DEF n, C
<1>5. Range(W) = {item(k) : k \in 1..n}
  BY DEF Range
<1> HIDE DEF W, item
<1>6. {x.at : x \in Range(W)} = {Append(cur.at, k) : k \in 1..n}
  BY <1>4, <1>5
<1> QED
  BY <1>1, <1>2, <1>3, <1>6 DEF C

\* At the start nothing is promised.
LEMMA InitWalk == Init => WalkInv
<1> SUFFICES ASSUME Init PROVE WalkInv
  OBVIOUS
<1>1. Parsed /\ methods = {} /\ cur = Root /\ agenda = <<>> /\ pc = "start"
  BY DEF Init, Parsed
<1>2. Root.at = <<>> /\ Range(<<>>) = {}
  BY DEF Root, Range
<1> QED
  BY <1>1, <1>2, EmptyIsGood DEF WalkInv, Places, Sound, Complete, Visiting

\* A step that visits no node and writes no method.
LEMMA QuietWalk ==
  ASSUME WalkInv, UNCHANGED <<doc, csp, methods, agenda>>, cur'.at = cur.at,
         pc' \in Visiting <=> pc \in Visiting, pc # "start", pc' # "start",
         pc' = "done" => agenda = <<>>
  PROVE  WalkInv'
<1>1. Parsed' /\ Places'
  BY DEF WalkInv, Parsed, Places
<1>2. DueAt' = DueAt
  BY DEF DueAt
<1>3. (\A p : PrefixesAt(p)' = PrefixesAt(p) /\ MethodsAt(p)' = MethodsAt(p)) /\ Reached' = Reached
  BY DEF PrefixesAt, HasDynamicChild, MethodsAt, Reached
<1>4. Sound'
  BY <1>3 DEF WalkInv, Sound, PrefixesAt, HasDynamicChild
<1>5. \A p : Pending(p)' <=> Pending(p)
  BY <1>2 DEF Pending
<1>6. Complete'
  BY <1>3, <1>5 DEF WalkInv, Complete
<1> QED
  BY <1>1, <1>4, <1>6 DEF WalkInv

\* What the tree says of its nodes does not change while the builder walks it.
LEMMA SameTree ==
  ASSUME UNCHANGED csp
  PROVE  (\A p : PrefixesAt(p)' = PrefixesAt(p)) /\ Reached' = Reached
BY DEF PrefixesAt, HasDynamicChild, Reached

\* The beginning of a branch is a child of the root.
LEMMA FirstOfBranch ==
  ASSUME Parsed, NEW p \in DOMAIN csp.nodes, NEW k \in 0..Len(p) - 1
  PROVE  SubSeq(p, 1, k + 1) \in Children(csp.nodes, SubSeq(p, 1, k))
<1> DEFINE s == SubSeq(p, 1, k + 1)
<1>1. /\ p \in Seq(Nat) /\ Len(p) \in Nat \ {0}
      /\ \A i \in 1..Len(p) : SubSeq(p, 1, i) \in DOMAIN csp.nodes
  BY ParsedIsTree DEF Parsed, IsTree
<1>2. k + 1 \in 1..Len(p) /\ k \in 0..k + 1 /\ k \in 0..Len(p)
  BY <1>1
<1>3. Len(s) = k + 1 /\ SubSeq(s, 1, k) = SubSeq(p, 1, k) /\ Len(SubSeq(p, 1, k)) = k
  BY <1>1, <1>2, Beginning
<1>4. s \in DOMAIN csp.nodes
  BY <1>1, <1>2
<1> HIDE DEF s
<1>5. Front(s) = SubSeq(p, 1, k) /\ Len(s) = Len(SubSeq(p, 1, k)) + 1
  BY <1>2, <1>3 DEF Front
<1> QED
  BY <1>4, <1>5 DEF Children, s

\* The root's List is written, and the whole tree is pending.
LEMMA StartWalk == IInv /\ WalkInv /\ Start => WalkInv'
<1> SUFFICES ASSUME IInv, WalkInv, Start PROVE WalkInv'
  OBVIOUS
<1>1. /\ pc = "start" /\ pc' = "walk" /\ cur = Root /\ methods = {}
      /\ UNCHANGED <<doc, csp, cur>> /\ agenda' = Walk(cur)
      /\ methods' = IF HasDynamicChild(<<>>) THEN {Method("List", NoType)} ELSE {}
  BY DEF Start, WalkInv, Places
<1>2. cur.at = <<>>
  BY <1>1 DEF Root
<1>3. IsSeq(agenda') /\ {x.at : x \in Range(agenda')} = Children(csp.nodes, <<>>)
  BY <1>1, <1>2, WalkIs DEF IInv, WalkInv
<1>4. Parsed'
  BY <1>1 DEF WalkInv, Parsed
<1>5. Places'
  <2>1. \A x \in Range(agenda') : x.at \in DOMAIN csp.nodes
    BY <1>3 DEF Children
  <2> QED
    BY <1>1, <1>2, <1>3, <2>1 DEF Places, Visiting
<1>6. Method("List", NoType).prefix = "List" /\ Method("List", NoType).at = <<>>
  BY <1>2 DEF Method
<1>7. PrefixesAt(<<>>)' = IF HasDynamicChild(<<>>) THEN {"List"} ELSE {}
  BY <1>1 DEF PrefixesAt, HasDynamicChild
<1>8. Sound'
  <2> SUFFICES ASSUME NEW m \in methods' PROVE m.prefix \in PrefixesAt(m.at)'
    BY DEF Sound
  <2>1. HasDynamicChild(<<>>) /\ m.prefix = "List" /\ m.at = <<>>
    BY <1>1, <1>6
  <2> QED
    BY <1>7, <2>1
<1>9. Complete'
  <2>1. PrefixesAt(<<>>)' \subseteq MethodsAt(<<>>)'
    BY <1>1, <1>6, <1>7 DEF MethodsAt
  <2>2. ASSUME NEW p \in Reached' PROVE Pending(p)'
    <3>1. p \in DOMAIN csp.nodes
      BY <1>1 DEF Reached
    <3>2. Len(p) \in Nat \ {0}
      BY <3>1, ParsedIsTree DEF WalkInv, Parsed, IsTree
    <3>3. SubSeq(p, 1, 0 + 1) \in Children(csp.nodes, SubSeq(p, 1, 0)) /\ SubSeq(p, 1, 0) = <<>>
      BY <3>1, <3>2, FirstOfBranch, SubSeqEmpty DEF WalkInv
    <3>4. SubSeq(p, 1, 1) \in Children(csp.nodes, <<>>)
      <4>1. 0 + 1 = 1
        OBVIOUS
      <4> QED
        BY <3>3, <4>1, Zenon
    <3>5. SubSeq(p, 1, 1) \in {x.at : x \in Range(agenda')}
      BY <1>3, <3>4, Zenon
    <3>6. SubSeq(p, 1, 1) \in DueAt'
      BY <3>5, Zenon DEF DueAt
    <3> QED
      BY <3>2, <3>6 DEF Pending
  <2> QED
    BY <2>1, <2>2 DEF Complete
<1> QED
  BY <1>4, <1>5, <1>8, <1>9 DEF WalkInv

\* A node comes off the agenda and is visited.
LEMMA VisitWalk == WalkInv /\ Visit => WalkInv'
<1> SUFFICES ASSUME WalkInv, Visit PROVE WalkInv'
  OBVIOUS
<1>1. /\ pc = "walk" /\ pc' = "claim" /\ agenda # <<>> /\ agenda' = Tail(agenda)
      /\ UNCHANGED <<doc, csp, methods>>
  BY DEF Visit
<1>2. cur'.at = Head(agenda).at
  BY DEF Visit, NodeAt
<1>3. IsSeq(agenda) /\ \A x \in Range(agenda) : x.at \in DOMAIN csp.nodes
  BY DEF WalkInv, Places
<1>4. IsSeq(agenda') /\ Range(agenda) = {Head(agenda)} \cup Range(agenda')
  BY <1>1, <1>3, TailAny, HeadAndTail
<1>5. Parsed'
  BY <1>1 DEF WalkInv, Parsed
<1>6. Places'
  BY <1>1, <1>2, <1>3, <1>4 DEF Places
<1>7. DueAt' = DueAt
  BY <1>1, <1>2, <1>4 DEF DueAt, Visiting
<1>8. (\A p : PrefixesAt(p)' = PrefixesAt(p)) /\ Reached' = Reached
  BY <1>1, SameTree
<1>9. Sound'
  BY <1>1, <1>8 DEF WalkInv, Sound, PrefixesAt, HasDynamicChild
<1>10. \A p : (Pending(p)' <=> Pending(p)) /\ MethodsAt(p)' = MethodsAt(p)
  BY <1>1, <1>7 DEF Pending, MethodsAt
<1>11. Complete'
  BY <1>1, <1>8, <1>10 DEF WalkInv, Complete
<1> QED
  BY <1>5, <1>6, <1>9, <1>11 DEF WalkInv

\* A node that is visited gets the methods it is to have; what was pending beneath it is
\* on the agenda, or is beneath a leaf.
LEMMA EmitWalk ==
  ASSUME WalkInv, pc = "emit", pc' = "walk", UNCHANGED <<doc, csp, cur>>,
         NEW new, methods' = methods \cup new,
         \A m \in new : m.at = cur.at,
         {m.prefix : m \in new} = PrefixesAt(cur.at),
         IsSeq(agenda'), \A x \in Range(agenda') : x.at \in DOMAIN csp.nodes,
         Range(agenda) \subseteq Range(agenda'),
         \/ Leaf(csp.nodes[cur.at])
         \/ Children(csp.nodes, cur.at) \subseteq {x.at : x \in Range(agenda')}
  PROVE  WalkInv'
<1>1. Parsed'
  BY DEF WalkInv, Parsed
<1>2. Places'
  BY DEF WalkInv, Places, Visiting
<1>3. (\A p : PrefixesAt(p)' = PrefixesAt(p)) /\ Reached' = Reached
  BY SameTree
<1>4. Sound'
  <2> SUFFICES ASSUME NEW m \in methods' PROVE m.prefix \in PrefixesAt(m.at)'
    BY DEF Sound
  <2>1. CASE m \in methods
    BY <1>3, <2>1 DEF WalkInv, Sound
  <2>2. CASE m \in new
    BY <1>3, <2>2
  <2> QED
    BY <2>1, <2>2
<1>5. \A p : MethodsAt(p) \subseteq MethodsAt(p)'
  BY DEF MethodsAt
<1>6. PrefixesAt(cur.at) \subseteq MethodsAt(cur.at)'
  BY DEF MethodsAt
<1>7. DueAt \subseteq DueAt' \cup {cur.at}
  BY DEF DueAt, Visiting
<1>8. ASSUME NEW p \in Reached, Pending(p)
      PROVE  Pending(p)' \/ p = cur.at
  <2>1. PICK k \in 1..Len(p) : SubSeq(p, 1, k) \in DueAt
    BY <1>8 DEF Pending
  <2>2. p \in DOMAIN csp.nodes /\ p \in Seq(Nat) /\ Len(p) \in Nat \ {0}
    BY ParsedIsTree DEF Reached, WalkInv, Parsed, IsTree
  <2>3. CASE SubSeq(p, 1, k) \in DueAt'
    BY <2>3 DEF Pending
  <2>4. CASE SubSeq(p, 1, k) = cur.at /\ k = Len(p)
    <3>1. SubSeq(p, 1, Len(p)) = p
      BY <2>2, SubSeqFull
    <3> QED
      BY <2>4, <3>1
  <2>5. CASE SubSeq(p, 1, k) = cur.at /\ k # Len(p)
    <3>1. k \in 1..Len(p) - 1 /\ k \in 0..Len(p) - 1 /\ k + 1 \in 1..Len(p)
      BY <2>2, <2>5
    <3>2. ~Leaf(csp.nodes[cur.at])
      BY <2>5, <3>1 DEF Reached
    <3>3. SubSeq(p, 1, k + 1) \in Children(csp.nodes, cur.at)
      BY <2>2, <2>5, <3>1, FirstOfBranch DEF WalkInv
    <3>4. SubSeq(p, 1, k + 1) \in DueAt'
      BY <3>2, <3>3 DEF DueAt
    <3> QED
      BY <3>1, <3>4 DEF Pending
  <2> QED
    BY <1>7, <2>1, <2>3, <2>4, <2>5
<1>9. Complete'
  BY <1>3, <1>5, <1>6, <1>8 DEF WalkInv, Complete
<1> QED
  BY <1>1, <1>2, <1>4, <1>9 DEF WalkInv

\* A method is of the prefix and the node it is made for.
LEMMA MethodIs ==
  ASSUME NEW prefix, NEW type
  PROVE  Method(prefix, type).prefix = prefix /\ Method(prefix, type).at = cur.at
BY DEF Method

\* A container goes on with its children.
LEMMA EmitInteriorWalk == IInv /\ WalkInv /\ EmitInterior => WalkInv'
<1> SUFFICES ASSUME IInv, WalkInv, EmitInterior PROVE WalkInv'
  OBVIOUS
<1> DEFINE new == {Method(m, NoType) : m \in InteriorPrefixes}
<1>1. /\ pc = "emit" /\ pc' = "walk" /\ ~Leaf(node) /\ UNCHANGED <<doc, csp, cur>>
      /\ methods' = methods \cup new /\ agenda' = Walk(cur) \o agenda
  BY DEF EmitInterior
<1>2. cur.at \in DOMAIN csp.nodes /\ cur.at # <<>>
  <2>1. cur.at \in DOMAIN csp.nodes
    BY <1>1 DEF WalkInv, Places, Visiting
  <2>2. Len(cur.at) \in Nat \ {0} /\ Len(<<>>) = 0
    BY <2>1, ParsedIsTree DEF WalkInv, Parsed, IsTree
  <2> QED
    BY <2>1, <2>2
<1>3. PrefixesAt(cur.at) = InteriorPrefixes
  BY <1>1, <1>2 DEF PrefixesAt, InteriorPrefixes, node
<1>4. (\A m \in new : m.at = cur.at) /\ {m.prefix : m \in new} = InteriorPrefixes
  BY MethodIs
<1>5. IsSeq(Walk(cur)) /\ {x.at : x \in Range(Walk(cur))} = Children(csp.nodes, cur.at)
  BY <1>2, WalkIs DEF IInv, WalkInv
<1>6. IsSeq(agenda) /\ \A x \in Range(agenda) : x.at \in DOMAIN csp.nodes
  BY DEF WalkInv, Places
<1>7. IsSeq(agenda') /\ Range(agenda') = Range(Walk(cur)) \cup Range(agenda)
  BY <1>1, <1>5, <1>6, ConcatAny, ConcatRange
<1>8. \A x \in Range(agenda') : x.at \in DOMAIN csp.nodes
  <2>1. \A x \in Range(Walk(cur)) : x.at \in DOMAIN csp.nodes
    BY <1>5 DEF Children
  <2> QED
    BY <1>6, <1>7, <2>1
<1>9. Children(csp.nodes, cur.at) \subseteq {x.at : x \in Range(agenda')}
  BY <1>5, <1>7
<1> HIDE DEF new
<1> QED
  BY <1>1, <1>3, <1>4, <1>7, <1>8, <1>9, EmitWalk

\* A leaf's children are never visited.
LEMMA EmitLeafWalk == WalkInv /\ EmitLeaf => WalkInv'
<1> SUFFICES ASSUME WalkInv, EmitLeaf PROVE WalkInv'
  OBVIOUS
<1> DEFINE type(m) == IF m = "Delete" THEN NoType ELSE ValueType
           new == {Method(m, type(m)) : m \in LeafPrefixes}
<1>1. /\ pc = "emit" /\ pc' = "walk" /\ Leaf(node) /\ UNCHANGED <<doc, csp, cur, agenda>>
      /\ methods' = methods \cup new
  BY DEF EmitLeaf
<1>2. cur.at \in DOMAIN csp.nodes /\ cur.at # <<>>
  <2>1. cur.at \in DOMAIN csp.nodes
    BY <1>1 DEF WalkInv, Places, Visiting
  <2>2. Len(cur.at) \in Nat \ {0} /\ Len(<<>>) = 0
    BY <2>1, ParsedIsTree DEF WalkInv, Parsed, IsTree
  <2> QED
    BY <2>1, <2>2
<1>3. PrefixesAt(cur.at) = LeafPrefixes
  BY <1>1, <1>2 DEF PrefixesAt, LeafPrefixes, node
<1> HIDE DEF type
<1>4. (\A m \in new : m.at = cur.at) /\ {m.prefix : m \in new} = LeafPrefixes
  BY MethodIs
<1>5. IsSeq(agenda') /\ (\A x \in Range(agenda') : x.at \in DOMAIN csp.nodes)
      /\ Range(agenda) \subseteq Range(agenda') /\ Leaf(csp.nodes[cur.at])
  BY <1>1 DEF WalkInv, Places, node
<1> HIDE DEF new
<1> QED
  BY <1>1, <1>3, <1>4, <1>5, EmitWalk

\* Every step.
LEMMA NextWalk == IInv /\ WalkInv /\ [Next]_vars => WalkInv'
<1> SUFFICES ASSUME IInv, WalkInv, [Next]_vars PROVE WalkInv'
  OBVIOUS
<1>1. CASE Start
  BY <1>1, StartWalk
<1>2. CASE Visit
  BY <1>2, VisitWalk
<1>3. CASE EmitInterior
  BY <1>3, EmitInteriorWalk
<1>4. CASE EmitLeaf
  BY <1>4, EmitLeafWalk
<1>5. CASE AskAgain \/ ClaimType \/ AddMember \/ AbandonEnum \/ EndEnum
  <2>1. /\ pc \in Visiting /\ pc' \in Visiting /\ UNCHANGED <<doc, csp, methods, agenda, cur>>
    BY <1>5 DEF AskAgain, ClaimType, AddMember, AbandonEnum, EndEnum, Visiting
  <2> QED
    BY <2>1, QuietWalk DEF Visiting
<1>6. CASE Claim
  <2>1. /\ pc \in Visiting /\ pc' \in Visiting /\ UNCHANGED <<doc, csp, methods, agenda>>
    BY <1>6 DEF Claim, Visiting
  <2>2. cur'.at = cur.at
    BY <1>6 DEF Claim, IInv, Shape
  <2> QED
    BY <2>1, <2>2, QuietWalk DEF Visiting
<1>7. CASE Finish
  <2>1. /\ pc = "walk" /\ pc' = "done" /\ agenda = <<>>
        /\ UNCHANGED <<doc, csp, methods, agenda, cur>>
    BY <1>7 DEF Finish
  <2> QED
    BY <2>1, QuietWalk DEF Visiting
<1>8. CASE UNCHANGED vars
  <2>1. UNCHANGED <<doc, csp, methods, agenda, cur, pc>>
    BY <1>8 DEF vars
  <2>2. CASE pc = "start"
    <3>1. Sound' /\ Complete' /\ Parsed' /\ Places'
      BY <2>1, <2>2 DEF WalkInv, Sound, Complete, Parsed, Places, Root
    <3> QED
      BY <3>1 DEF WalkInv
  <2>3. CASE pc # "start"
    BY <2>1, <2>3, QuietWalk DEF WalkInv, Places
  <2> QED
    BY <2>2, <2>3
<1> QED
  BY <1>1, <1>2, <1>3, <1>4, <1>5, <1>6, <1>7, <1>8 DEF Next

\* The state of the walk is as described after every step.
LEMMA WalkInvariant == Spec => [](IInv /\ WalkInv)
<1>1. IInv /\ WalkInv /\ [Next]_vars => (IInv /\ WalkInv)'
  BY NextInv, NextWalk
<1> QED
  BY <1>1, InitInv, InitWalk, PTL DEF Spec

\* A node's access is of the verbs that DDF has.
LEMMA ParsedAccess ==
  ASSUME NEW d \in Docs, NEW q \in DOMAIN Parse(d).nodes
  PROVE  Parse(d).nodes[q].access \subseteq Accesses
<1>1. PICK p \in DOMAIN d.nodes : q = Sorted(d.nodes, p)
  BY ParsedFrom
<1>2. Parse(d).nodes[q] = BuildNode(d, p)
  BY <1>1, ParsedNode
<1>3. BuildNode(d, p).access = d.nodes[p].access
  BY DEF BuildNode
<1>4. d.nodes[p].access \subseteq Accesses
  BY DocsAssumption
<1> QED
  BY <1>2, <1>3, <1>4

\* Once the walk is over, the nodes it reached and the root have the methods that they
\* are to have, no more and no less.
LEMMA WalkedOver ==
  ASSUME WalkInv, pc = "done", NEW p \in {<<>>} \cup Reached
  PROVE  MethodsAt(p) = PrefixesAt(p)
<1>1. MethodsAt(p) \subseteq PrefixesAt(p)
  BY DEF WalkInv, Sound, MethodsAt
<1>2. PrefixesAt(p) \subseteq MethodsAt(p)
  <2>1. agenda = <<>> /\ DueAt = {}
    BY EmptySeq DEF WalkInv, Places, DueAt, Visiting, Range
  <2>2. ~Pending(p)
    BY <2>1 DEF Pending
  <2> QED
    BY <2>2 DEF WalkInv, Complete
<1> QED
  BY <1>1, <1>2

\* Whatever the DDF documents are: when the builder is done, each node that no leaf is
\* above has the methods that its AccessType calls for, none is missing, and no node at
\* all has one that is not allowed (build.go:124-180).
THEOREM BuilderMethodsMatchAccess == Spec => []MethodsMatchAccess
<1>1. ASSUME WalkInv PROVE MethodsMatchAccess
  <2> SUFFICES ASSUME pc = "done", NEW p \in DOMAIN csp.nodes
               PROVE  LET n == csp.nodes[p] IN
      /\ {VerbOf[m] : m \in MethodsAt(p)} \subseteq n.access
      /\ p \in Reached /\ Leaf(n) =>
           {VerbOf[m] : m \in MethodsAt(p)} =
             (n.access \ {"Copy"}) \ (IF n.format = "null" THEN {"Get"} ELSE {})
      /\ p \in Reached /\ Dynamic(n) /\ ~Leaf(n) =>
           {VerbOf[m] : m \in MethodsAt(p) \ {"List"}} = n.access \cap {"Add", "Delete"}
      /\ p \in Reached /\ Dynamic(n) =>
           ("List" \in MethodsAt(Front(p)) <=>
              Len(p) = 1 \/ "Get" \in csp.nodes[Front(p)].access)
    BY DEF MethodsMatchAccess
  <2> DEFINE n == csp.nodes[p]
             up == Front(p)
  <2>1. IsTree(csp.nodes)
    BY <1>1, ParsedIsTree DEF WalkInv, Parsed
  <2>2. p \in Seq(Nat) /\ Len(p) \in Nat \ {0} /\ p # <<>>
    BY <2>1, EmptySeq DEF IsTree
  <2>3. up \in Seq(Nat) /\ Len(up) = Len(p) - 1
    BY <2>2, FrontAndLast
  <2>4. MethodsAt(p) \subseteq PrefixesAt(p)
    BY <1>1 DEF WalkInv, Sound, MethodsAt
  <2>5. n.access \subseteq Accesses
    BY <1>1, ParsedAccess DEF WalkInv, Parsed
  <2>6. /\ VerbOf["List"] = "Get" /\ VerbOf["Get"] = "Get" /\ VerbOf["Create"] = "Add"
        /\ VerbOf["Update"] = "Replace" /\ VerbOf["Delete"] = "Delete" /\ VerbOf["Exec"] = "Exec"
    BY DEF VerbOf
  <2>7. {VerbOf[m] : m \in MethodsAt(p)} \subseteq n.access
    BY <2>2, <2>4 DEF PrefixesAt
  <2>8. ASSUME p \in Reached, Leaf(n)
        PROVE  {VerbOf[m] : m \in MethodsAt(p)} =
                 (n.access \ {"Copy"}) \ (IF n.format = "null" THEN {"Get"} ELSE {})
    <3>1. MethodsAt(p) = {m \in {"Get", "Create", "Update", "Delete", "Exec"} :
                            VerbOf[m] \in n.access /\ ~(m = "Get" /\ n.format = "null")}
      BY <1>1, <2>2, <2>8, WalkedOver DEF PrefixesAt
    <3> HIDE DEF n
    <3> QED
      BY <2>5, <2>6, <3>1 DEF Accesses
  <2>9. ASSUME p \in Reached, Dynamic(n), ~Leaf(n)
        PROVE  {VerbOf[m] : m \in MethodsAt(p) \ {"List"}} = n.access \cap {"Add", "Delete"}
    <3>1. MethodsAt(p) = {m \in {"List", "Create", "Delete"} :
                            /\ VerbOf[m] \in n.access
                            /\ IF m = "List" THEN HasDynamicChild(p) ELSE Dynamic(n)}
      BY <1>1, <2>2, <2>9, WalkedOver DEF PrefixesAt
    <3> HIDE DEF n
    <3> QED
      BY <2>6, <2>9, <3>1
  <2>10. ASSUME p \in Reached, Dynamic(n)
         PROVE  "List" \in MethodsAt(up) <=> Len(p) = 1 \/ "Get" \in csp.nodes[up].access
    <3>1. p \in Children(csp.nodes, up)
      BY <2>2, <2>3 DEF Children
    <3>2. HasDynamicChild(up)
      BY <2>10, <3>1 DEF HasDynamicChild
    <3>3. CASE Len(p) = 1
      <4>1. up = <<>>
        BY <2>3, <3>3, EmptySeq
      <4>2. "List" \in PrefixesAt(<<>>)
        BY <3>2, <4>1 DEF PrefixesAt
      <4> QED
        BY <1>1, <3>3, <4>1, <4>2, WalkedOver
    <3>4. CASE Len(p) # 1
      <4>1. /\ Len(up) \in 1..Len(p) - 1 /\ up = SubSeq(p, 1, Len(up))
        BY <2>2, <2>3, <3>4 DEF Front
      <4>2. up \in DOMAIN csp.nodes /\ up # <<>>
        <5>1. Len(up) \in 1..Len(p)
          BY <2>2, <4>1
        <5>2. SubSeq(p, 1, Len(up)) \in DOMAIN csp.nodes
          BY <2>1, <5>1 DEF IsTree
        <5>3. up # <<>>
          <6>1. Len(<<>>) = 0 /\ Len(up) # 0
            BY <2>2, <4>1, EmptySeq
          <6> QED
            BY <6>1, Zenon
        <5> HIDE DEF up
        <5> QED
          BY <4>1, <5>2, <5>3, Zenon
      <4>3. ~Leaf(csp.nodes[up])
        BY <2>10, <4>1 DEF Reached
      <4>4. up \in Reached
        <5> SUFFICES ASSUME NEW k \in 1..Len(up) - 1
                     PROVE  ~Leaf(csp.nodes[SubSeq(up, 1, k)])
          BY <4>2 DEF Reached
        <5>1. k \in 1..Len(p) - 1
          BY <2>2, <4>1
        <5>2. SubSeq(up, 1, k) = SubSeq(p, 1, k)
          <6> HIDE DEF up
          <6>1. SubSeq(SubSeq(p, 1, Len(up)), 1, k) = SubSeq(p, 1, k)
            <7>1. Len(up) \in 0..Len(p) /\ k \in 0..Len(up)
              BY <2>2, <4>1
            <7> QED
              BY <2>2, <7>1, Beginning
          <6> QED
            BY <4>1, <6>1
        <5> QED
          BY <2>10, <5>1, <5>2 DEF Reached
      <4>5. "List" \in PrefixesAt(up) <=> "Get" \in csp.nodes[up].access
        <5> HIDE DEF up
        <5> QED
          BY <2>6, <3>2, <4>2, <4>3 DEF PrefixesAt
      <4> QED
        BY <1>1, <3>4, <4>4, <4>5, WalkedOver
    <3> QED
      BY <3>3, <3>4
  <2> QED
    BY <2>7, <2>8, <2>9, <2>10
<1> QED
  BY <1>1, WalkInvariant, PTL

-----------------------------------------------------------------------------
(***************************************************************************)
(* What is known of texts, for the snapshot's strings.  Of the module that *)
(* proves it only the lemmas about the operators count here: its variables *)
(* stand for nothing.                                                      *)
(***************************************************************************)

Texts == INSTANCE Text_proof
  WITH MaxLen <- [uri |-> 0, name |-> 0, xml |-> 0, value |-> 0],
       kind <- "name", path <- <<>>, target <- <<>>

\* The bounds and the reserved names are such as that module assumes.
LEMMA TextsApply ==
  /\ \A k \in DOMAIN Texts!Chars : [uri |-> 0, name |-> 0, xml |-> 0, value |-> 0][k] \in Nat
  /\ Reserved \subseteq Seq(Nat) /\ \A w \in Reserved : w \o Texts!NameText \notin Reserved
<1>1. Texts!NameText = NameText
  BY DEF Texts!NameText, NameText
<1>2. \A k \in DOMAIN Texts!Chars : [uri |-> 0, name |-> 0, xml |-> 0, value |-> 0][k] \in Nat
  BY DEF Texts!Chars
<1> QED
  BY <1>1, <1>2, ReservedAssumption

\* Sequences grow as they are kept and flattened.
LEMMA KeptGrows ==
  ASSUME NEW S, NEW s \in Seq(S), NEW x \in S, NEW at, NEW more,
         \A k \in 1..Len(s) : k \in more <=> k \in at
  PROVE  /\ Len(s) + 1 \in more => Kept(Append(s, x), more) = Append(Kept(s, at), x)
         /\ Len(s) + 1 \notin more => Kept(Append(s, x), more) = Kept(s, at)
<1>1. \A t, a : Texts!Kept(t, a) = Kept(t, a)
  BY DEF Texts!Kept, Kept
<1>2. /\ Len(s) + 1 \in more => Texts!Kept(Append(s, x), more) = Append(Texts!Kept(s, at), x)
      /\ Len(s) + 1 \notin more => Texts!Kept(Append(s, x), more) = Texts!Kept(s, at)
  BY ONLY TextsApply, Texts!KeptGrows, IntBitsAssumption, s \in Seq(S), x \in S,
          \A k \in 1..Len(s) : k \in more <=> k \in at
<1> QED
  BY <1>1, <1>2

\* What is kept of a sequence is one of its elements.
LEMMA KeptIsSeq ==
  ASSUME NEW S, NEW s \in Seq(S), NEW at
  PROVE  Kept(<<>>, at) = <<>> /\ Kept(s, at) \in Seq(S)
<1>1. \A t, a : Texts!Kept(t, a) = Kept(t, a)
  BY DEF Texts!Kept, Kept
<1>2. Texts!Kept(<<>>, at) = <<>> /\ Texts!Kept(s, at) \in Seq(S)
  BY ONLY TextsApply, Texts!KeptIsSeq, IntBitsAssumption, s \in Seq(S)
<1> QED
  BY <1>1, <1>2

\* Parts are flattened one after the other.
LEMMA FlattenGrows ==
  ASSUME NEW S
  PROVE  /\ FlattenSeq(<<>>) = <<>>
         /\ \A parts \in Seq(Seq(S)) : FlattenSeq(parts) \in Seq(S)
         /\ \A parts \in Seq(Seq(S)), w \in Seq(S) :
              FlattenSeq(Append(parts, w)) = FlattenSeq(parts) \o w
<1>1. \A parts : Texts!FlattenSeq(parts) = FlattenSeq(parts)
  BY DEF Texts!FlattenSeq, FlattenSeq
<1>2. /\ Texts!FlattenSeq(<<>>) = <<>>
      /\ \A parts \in Seq(Seq(S)) : Texts!FlattenSeq(parts) \in Seq(S)
      /\ \A parts \in Seq(Seq(S)), w \in Seq(S) :
           Texts!FlattenSeq(Append(parts, w)) = Texts!FlattenSeq(parts) \o w
  BY ONLY TextsApply, Texts!FlattenGrows, IntBitsAssumption
<1> QED
  BY <1>1, <1>2

\* A trimmed text is a text, with nothing more to trim.
LEMMA TrimmedIsText ==
  ASSUME NEW s \in Text
  PROVE  /\ TrimSpace(s) \in Text /\ TrimSpace(TrimSpace(s)) = TrimSpace(s)
         /\ TrimRight(s, {Sep}) \in Text
<1>1. /\ Texts!Text = Text /\ Texts!Sep = Sep
      /\ (\A t : Texts!TrimSpace(t) = TrimSpace(t))
      /\ (\A t, cut : Texts!TrimRight(t, cut) = TrimRight(t, cut))
  BY DEF Texts!Text, Text, Texts!Sep, Sep, Texts!TrimSpace, TrimSpace, Texts!TrimRight,
         TrimRight, Texts!Spaces, Spaces, Texts!Min, Min, Texts!Max, Max
<1>2. s \in Texts!Text
  BY <1>1
<1>3. Texts!TrimSpace(s) \in Texts!Text
  BY ONLY TextsApply, Texts!TrimSpaceIsTight, IntBitsAssumption, <1>2
<1>4. Texts!TrimSpace(Texts!TrimSpace(s)) = Texts!TrimSpace(s)
  BY ONLY TextsApply, Texts!TrimSpaceTwice, IntBitsAssumption, <1>2
<1>5. \E m \in 0..Len(s) : Texts!TrimRight(s, {Sep}) = SubSeq(s, 1, m)
  BY ONLY TextsApply, Texts!TrimRightEnds, IntBitsAssumption, <1>2
<1>6. TrimRight(s, {Sep}) \in Text
  <2>1. PICK m \in 0..Len(s) : TrimRight(s, {Sep}) = SubSeq(s, 1, m)
    BY <1>1, <1>5
  <2>2. SubSeq(s, 1, m) \in Text
    BY DEF Text
  <2> QED
    BY <2>1, <2>2
<1> QED
  BY <1>1, <1>3, <1>4, <1>6

\* A parameter's name is not empty, with a number or without.
LEMMA ParamIsNamed ==
  ASSUME NEW s \in Text, NEW i \in Nat
  PROVE  Numbered(ParamName(s), i) \in Text \ {<<>>}
<1>1. Texts!Text = Text
  BY DEF Texts!Text, Text
<1>2. Texts!Itoa = Itoa
  BY DEF Texts!Itoa, Itoa
<1>3. Texts!Uncapped = Uncapped
  BY DEF Texts!Uncapped, Uncapped, Texts!Text, Text, Texts!Min, Min, Texts!Uppers, Uppers,
         Texts!ToLower, ToLower
<1>4. Texts!ExportName = ExportName
  BY DEF Texts!ExportName, ExportName, Texts!Text, Text, Texts!Kept, Kept, Texts!IsAlnum,
         IsAlnum, Texts!Alnum, Alnum, Texts!Digits, Digits, Texts!Uppers, Uppers,
         Texts!Lowers, Lowers, Texts!ToUpper, ToUpper, Texts!IsDigit, IsDigit
<1>5. Texts!ParamName(s) = ParamName(s)
  BY <1>3, <1>4 DEF Texts!ParamName, ParamName, Texts!NameText, NameText
<1>6. s \in Texts!Text
  BY <1>1
<1>7. Texts!Param(Texts!ParamName(s))
  BY ONLY TextsApply, Texts!ParamNameIs, IntBitsAssumption, <1>6
<1>8. \A v : Texts!Plainly(v) => v \in Text /\ v # <<>>
  BY ONLY TextsApply, Texts!AlnumIsText, IntBitsAssumption, <1>1 DEF Texts!Plainly
<1>9. ParamName(s) \in Text /\ ParamName(s) # <<>>
  BY <1>5, <1>7, <1>8 DEF Texts!Param
<1>10. Itoa[i] \in Text
  <2>1. \A n \in Nat : Texts!Itoa[n] \in Texts!Text
    BY ONLY TextsApply, Texts!ItoaIsText, IntBitsAssumption
  <2> QED
    BY <1>1, <1>2, <2>1
<1> DEFINE name == ParamName(s)
           number == Itoa[i]
<1> HIDE DEF name, number
<1>11. name \o number \in Text /\ name \o number # <<>>
  <2>1. name \in Seq(Nat) /\ number \in Seq(Nat) /\ name # <<>>
    BY <1>9, <1>10 DEF Text, name, number
  <2>2. name \o number \in Seq(Nat) /\ Len(name \o number) = Len(name) + Len(number)
    BY <2>1, ConcatProperties
  <2>3. Len(name) > 0
    BY <2>1
  <2> QED
    BY <2>1, <2>2, <2>3 DEF Text
<1> QED
  BY <1>9, <1>11 DEF Numbered, name, number

-----------------------------------------------------------------------------
(***************************************************************************)
(* Paths, and the dynamic nodes on them.                                   *)
(***************************************************************************)

\* The branch of a node is that of its parent, and the node.
LEMMA BranchGrows ==
  ASSUME NEW q \in Seq(Nat), Len(q) > 0
  PROVE  /\ Branch(Front(q)) \in Seq(Seq(Nat)) /\ Len(Branch(Front(q))) = Len(q) - 1
         /\ Branch(q) = Append(Branch(Front(q)), q)
         /\ \A k \in 1..Len(q) - 1 : SubSeq(Front(q), 1, k) = SubSeq(q, 1, k)
<1> DEFINE f == Front(q)
           n == Len(q)
           b == Branch(f)
           t == Append(b, q)
           u == Branch(q)
<1>1. n \in Nat /\ n > 0 /\ f \in Seq(Nat) /\ Len(f) = n - 1
  BY FrontAndLast
<1>2. \A k \in 1..n - 1 : SubSeq(f, 1, k) = SubSeq(q, 1, k)
  <2> SUFFICES ASSUME NEW k \in 1..n - 1 PROVE SubSeq(f, 1, k) = SubSeq(q, 1, k)
    OBVIOUS
  <2>1. n - 1 \in 0..Len(q) /\ k \in 0..n - 1
    BY <1>1
  <2>2. SubSeq(SubSeq(q, 1, n - 1), 1, k) = SubSeq(q, 1, k)
    BY <2>1, Beginning
  <2> QED
    BY <2>2 DEF Front
<1>3. SubSeq(q, 1, n) = q
  BY SubSeqFull
<1> HIDE DEF f
<1>4. b \in Seq(Seq(Nat)) /\ Len(b) = n - 1 /\ \A k \in 1..n - 1 : b[k] = SubSeq(q, 1, k)
  <2>1. b = [k \in 1..n - 1 |-> SubSeq(f, 1, k)]
    BY <1>1 DEF Branch
  <2>2. \A k \in 1..n - 1 : SubSeq(f, 1, k) \in Seq(Nat)
    BY <1>2
  <2> QED
    BY <1>1, <1>2, <2>1, <2>2
<1>5. u \in Seq(Seq(Nat)) /\ Len(u) = n /\ \A k \in 1..n : u[k] = SubSeq(q, 1, k)
  <2>1. u = [k \in 1..n |-> SubSeq(q, 1, k)]
    BY DEF Branch
  <2>2. \A k \in 1..n : SubSeq(q, 1, k) \in Seq(Nat)
    OBVIOUS
  <2> QED
    BY <1>1, <2>1, <2>2
<1> HIDE DEF b, u
<1> DEFINE S == Seq(Nat)
<1>6. q \in S /\ b \in Seq(S) /\ u \in Seq(S)
  BY <1>4, <1>5
<1> HIDE DEF S
<1>7. /\ t \in Seq(S) /\ Len(t) = Len(b) + 1 /\ t[Len(b) + 1] = q
      /\ \A k \in 1..Len(b) : t[k] = b[k]
  BY <1>6, AppendProperties
<1> HIDE DEF t
<1>8. ASSUME NEW k \in 1..n PROVE u[k] = t[k]
  <2>1. CASE k = n
    <3>1. u[n] = q
      <4>1. n \in 1..n
        BY <1>1
      <4>2. u[n] = SubSeq(q, 1, n)
        BY <1>5, <4>1, Zenon
      <4> QED
        BY <1>3, <4>2, Zenon
    <3>2. t[n] = q
      BY <1>1, <1>4, <1>7
    <3> QED
      BY <2>1, <3>1, <3>2
  <2>2. CASE k # n
    <3>1. k \in 1..n - 1 /\ k \in 1..Len(b)
      BY <1>1, <1>4, <2>2
    <3>2. t[k] = b[k] /\ b[k] = SubSeq(q, 1, k) /\ u[k] = SubSeq(q, 1, k)
      BY <1>4, <1>5, <1>7, <3>1
    <3> QED
      BY <3>2
  <2> QED
    BY <2>1, <2>2
<1>9. Len(u) = Len(t)
  BY <1>1, <1>4, <1>5, <1>7
<1>10. u = t
  BY <1>5, <1>6, <1>7, <1>8, <1>9, SeqEqual
<1> QED
  BY <1>2, <1>4, <1>10 DEF t, u, b, f

\* The dynamic nodes on a branch are those on the parent's, and the node if it is one.
LEMMA DynamicGrows ==
  ASSUME NEW x, NEW q \in Seq(Nat), Len(q) > 0
  PROVE  /\ DynamicTo(x, Front(q)) \in Seq(Seq(Nat))
         /\ DynamicTo(x, q) = IF Dynamic(x[q]) THEN Append(DynamicTo(x, Front(q)), q)
                              ELSE DynamicTo(x, Front(q))
<1> DEFINE f    == Front(q)
           n    == Len(q)
           at   == {k \in 1..Len(f) : Dynamic(x[SubSeq(f, 1, k)])}
           more == {k \in 1..n : Dynamic(x[SubSeq(q, 1, k)])}
           b    == Branch(f)
           S    == Seq(Nat)
<1>1. n \in Nat /\ n > 0 /\ Len(f) = n - 1
  BY FrontAndLast
<1>2. /\ b \in Seq(S) /\ Len(b) = n - 1 /\ Branch(q) = Append(b, q)
      /\ \A k \in 1..n - 1 : SubSeq(f, 1, k) = SubSeq(q, 1, k)
  BY BranchGrows
<1>3. \A k \in 1..n - 1 : k \in more <=> k \in at
  <2> SUFFICES ASSUME NEW k \in 1..n - 1 PROVE k \in more <=> k \in at
    OBVIOUS
  <2>1. k \in 1..n /\ k \in 1..Len(f) /\ SubSeq(f, 1, k) = SubSeq(q, 1, k)
    BY <1>1, <1>2
  <2> QED
    BY <2>1
<1>4. n \in more <=> Dynamic(x[q])
  <2>1. SubSeq(q, 1, n) = q
    BY SubSeqFull
  <2>2. n \in more <=> Dynamic(x[SubSeq(q, 1, n)])
    BY <1>1
  <2> HIDE DEF more, n
  <2> QED
    BY <2>1, <2>2, Zenon
<1>5. DynamicTo(x, f) = Kept(b, at) /\ DynamicTo(x, q) = Kept(Branch(q), more)
  BY DEF DynamicTo
<1>6. q \in S /\ Len(b) + 1 = n /\ \A k \in 1..Len(b) : k \in more <=> k \in at
  BY <1>1, <1>2, <1>3
<1> HIDE DEF at, more, b, S, f, n
<1>7. /\ Len(b) + 1 \in more => Kept(Append(b, q), more) = Append(Kept(b, at), q)
      /\ Len(b) + 1 \notin more => Kept(Append(b, q), more) = Kept(b, at)
  BY <1>2, <1>6, KeptGrows
<1>8. Kept(b, at) \in Seq(S)
  BY <1>2, KeptIsSeq
<1> QED
  BY <1>2, <1>4, <1>5, <1>6, <1>7, <1>8 DEF f, S

\* There is none on the way to the root.
LEMMA NoneDynamic == \A x : DynamicTo(x, <<>>) = <<>>
<1>1. Len(<<>>) = 0 /\ Branch(<<>>) = <<>>
  BY EmptySeq DEF Branch
<1>2. <<>> \in Seq({})
  OBVIOUS
<1> QED
  BY <1>1, <1>2, KeptIsSeq DEF DynamicTo

\* What the parser keeps of a snapshot's own strings, and of a node's.
LEMMA ParsedTexts ==
  ASSUME NEW d \in Docs
  PROVE  /\ BasePath(Parse(d)) = BasePath(d) /\ BasePath(d) \in Text
         /\ \A p \in DOMAIN d.nodes :
              /\ Segment(d.nodes[p]) \in Text
              /\ Segment(BuildNode(d, p)) = Segment(d.nodes[p])
              /\ BuildNode(d, p).name \in Text /\ BuildNode(d, p).title \in Text
<1>1. Parse(d).name = d.name /\ Parse(d).path = d.path
  BY DEF Parse
<1>2. BasePath(Parse(d)) = BasePath(d)
  BY <1>1 DEF BasePath
<1>3. BasePath(d) \in Text
  <2> DEFINE cut == TrimRight(d.path, {Sep})
  <2>1. cut \in Seq(Nat) /\ d.name \in Seq(Nat) /\ <<Sep>> \in Seq(Nat)
    BY DocsAssumption, TrimmedIsText DEF Text, Sep
  <2> HIDE DEF cut
  <2>2. cut \o <<Sep>> \o d.name \in Seq(Nat)
    BY <2>1
  <2> QED
    BY <2>2 DEF BasePath, Text, cut
<1>4. ASSUME NEW p \in DOMAIN d.nodes
      PROVE  /\ Segment(d.nodes[p]) \in Text
             /\ Segment(BuildNode(d, p)) = Segment(d.nodes[p])
             /\ BuildNode(d, p).name \in Text /\ BuildNode(d, p).title \in Text
  <2> DEFINE n == d.nodes[p]
             m == BuildNode(d, p)
  <2>1. m.name = n.name /\ m.title = TrimSpace(n.title)
    BY DEF BuildNode
  <2>2. n.name \in Text /\ n.title \in Text
    BY DocsAssumption
  <2> HIDE DEF m, n
  <2>3. m.title \in Text /\ TrimSpace(m.title) = TrimSpace(n.title)
    BY <2>1, <2>2, TrimmedIsText
  <2>4. Segment(m) = Segment(n)
    BY <2>1, <2>3 DEF Segment, Dynamic
  <2>5. Segment(n) \in Text
    <3> DEFINE title == IF TrimSpace(n.title) = <<>> THEN ItemText ELSE TrimSpace(n.title)
    <3>1. title \in Seq(Nat)
      BY <2>1, <2>3 DEF ItemText, Text
    <3> HIDE DEF title
    <3>2. <<123>> \o title \o <<125>> \in Seq(Nat)
      BY <3>1
    <3>3. Segment(n) = <<123>> \o title \o <<125>> \/ Segment(n) = n.name
      BY DEF Segment, title
    <3> QED
      BY <2>2, <3>2, <3>3 DEF Text
  <2> QED
    BY <2>1, <2>2, <2>3, <2>4, <2>5 DEF m, n
<1> QED
  BY <1>2, <1>3, <1>4

\* A path grows by a separator and a segment.
LEMMA PathGrows ==
  ASSUME NEW d \in Docs, NEW q \in DOMAIN Parse(d).nodes
  PROVE  LET c == Parse(d)
         IN  /\ PathTo(c, Front(q)) \in Text /\ Segment(c.nodes[q]) \in Text
             /\ PathTo(c, q) = PathTo(c, Front(q)) \o (<<Sep>> \o Segment(c.nodes[q]))
<1> DEFINE c == Parse(d)
           x == d.nodes
           base == BasePath(d)
           Pieces(p) == [k \in 1..Len(p) |-> <<Sep>> \o Segment(x[Branch(p)[k]])]
<1>0. ASSUME NEW p \in Positions(d)
      PROVE  Pieces(p) \in Seq(Seq(Nat)) /\ Len(Pieces(p)) = Len(p)
  <2>1. p \in Seq(Nat) /\ Len(p) \in Nat
    BY PositionsAreSeqs
  <2>2. ASSUME NEW k \in 1..Len(p) PROVE <<Sep>> \o Segment(x[Branch(p)[k]]) \in Seq(Nat)
    <3>1. p # <<>>
      BY <2>1, <2>2, EmptySeq
    <3>2. Branch(p)[k] \in DOMAIN x
      BY <3>1, BranchIsThere DEF Branch, Positions
    <3>3. Segment(x[Branch(p)[k]]) \in Seq(Nat) /\ <<Sep>> \in Seq(Nat)
      BY <3>2, ParsedTexts DEF Text, Sep
    <3> QED
      BY <3>3, ConcatProperties
  <2> DEFINE piece(k) == <<Sep>> \o Segment(x[Branch(p)[k]])
             S == Seq(Nat)
  <2>3. \A k \in 1..Len(p) : piece(k) \in S
    BY <2>2
  <2> HIDE DEF piece, S
  <2>4. [k \in 1..Len(p) |-> piece(k)] \in Seq(S) /\ Len([k \in 1..Len(p) |-> piece(k)]) = Len(p)
    BY <2>1, <2>3
  <2> QED
    BY <2>4 DEF piece, S
<1>1. ASSUME NEW p \in Positions(d)
      PROVE  PathTo(c, Sorted(x, p)) = base \o FlattenSeq(Pieces(p))
  <2>1. Len(Sorted(x, p)) = Len(p)
    BY SortedIs
  <2>2. CASE p = <<>>
    <3>1. Len(<<>>) = 0 /\ Sorted(x, p) = <<>>
      BY <2>1, <2>2, SortedIs, EmptySeq
    <3>2. Pieces(p) = <<>>
      BY <1>0, <2>2, <3>1, EmptySeq
    <3>3. FlattenSeq(Pieces(p)) = <<>>
      BY <3>2, FlattenGrows
    <3>4. base \in Seq(Nat) /\ base \o <<>> = base
      BY ParsedTexts, ConcatEmptySeq DEF Text
    <3>5. PathTo(c, <<>>) = base
      BY ParsedTexts DEF PathTo
    <3> QED
      BY <3>1, <3>3, <3>4, <3>5
  <2>3. CASE p # <<>>
    <3>1. p \in DOMAIN x
      BY <2>3 DEF Positions
    <3>2. Sorted(x, p) # <<>>
      BY <2>1, <3>1, ParentIsThere, EmptySeq
    <3>3. c.nodes[Sorted(x, p)] = BuildNode(d, p)
      BY <3>1, ParsedNode
    <3>4. BuildNode(d, p).path = base \o FlattenSeq(Pieces(p))
      BY DEF BuildNode
    <3> HIDE DEF c, base, Pieces
    <3> QED
      BY <3>2, <3>3, <3>4 DEF PathTo
  <2> QED
    BY <2>2, <2>3
<1>2. PICK p \in DOMAIN x : q = Sorted(x, p)
  BY ParsedFrom
<1> DEFINE f == Front(p)
           s == Segment(x[p])
<1>3. /\ p \in Seq(Nat) /\ Len(p) \in Nat \ {0} /\ Len(p) > 0 /\ p \in Positions(d)
      /\ f \in Positions(d) /\ Len(f) = Len(p) - 1
  BY ParentIsThere DEF Positions
<1>4. Front(q) = Sorted(x, f)
  BY <1>2, SortedChild
<1>5. s \in Text /\ Segment(c.nodes[q]) = s
  BY <1>2, ParsedNode, ParsedTexts
<1>6. Pieces(p) = Append(Pieces(f), <<Sep>> \o s)
  <2> DEFINE a == Pieces(f)
             b == Pieces(p)
             e == <<Sep>> \o s
             t == Append(a, e)
             S == Seq(Nat)
  <2>1. a \in Seq(S) /\ Len(a) = Len(p) - 1 /\ b \in Seq(S) /\ Len(b) = Len(p)
    BY <1>0, <1>3
  <2>2. e \in S
    <3>1. <<Sep>> \in Seq(Nat) /\ s \in Seq(Nat)
      BY <1>5 DEF Text, Sep
    <3> QED
      BY <3>1, ConcatProperties
  <2>3. /\ Branch(f) \in Seq(S) /\ Len(Branch(f)) = Len(p) - 1 /\ Branch(p) = Append(Branch(f), p)
    BY <1>3, BranchGrows
  <2>4. p \in S
    BY <1>3
  <2> HIDE DEF S
  <2>5. /\ Branch(p)[Len(p)] = p
        /\ \A k \in 1..Len(p) - 1 : Branch(p)[k] = Branch(f)[k]
    BY <1>3, <2>3, <2>4, AppendProperties
  <2>6. b[Len(p)] = e
    BY <1>3, <2>5
  <2>7. ASSUME NEW k \in 1..Len(p) - 1 PROVE b[k] = a[k]
    <3>1. k \in 1..Len(p) /\ k \in 1..Len(f) /\ Branch(p)[k] = Branch(f)[k]
      BY <1>3, <2>5
    <3> QED
      BY <3>1
  <2> HIDE DEF a, b, e
  <2>8. /\ t \in Seq(S) /\ Len(t) = Len(a) + 1 /\ t[Len(a) + 1] = e
        /\ \A k \in 1..Len(a) : t[k] = a[k]
    BY <2>1, <2>2, AppendProperties
  <2> HIDE DEF t
  <2>9. Len(b) = Len(t) /\ Len(a) + 1 = Len(p)
    BY <1>3, <2>1, <2>8
  <2>10. ASSUME NEW k \in 1..Len(p) PROVE b[k] = t[k]
    <3>1. CASE k = Len(p)
      BY <2>6, <2>8, <2>9, <3>1
    <3>2. CASE k # Len(p)
      <4>1. k \in 1..Len(p) - 1 /\ k \in 1..Len(a)
        BY <1>3, <2>1, <3>2
      <4> QED
        BY <2>7, <2>8, <4>1
    <3> QED
      BY <3>1, <3>2
  <2>11. b = t
    BY <2>1, <2>8, <2>9, <2>10, SeqEqual
  <2> QED
    BY <2>11 DEF a, b, e, t
<1> DEFINE above == FlattenSeq(Pieces(f))
           e     == <<Sep>> \o s
<1>7. e \in Seq(Nat)
  <2>1. <<Sep>> \in Seq(Nat) /\ s \in Seq(Nat)
    BY <1>5 DEF Text, Sep
  <2> QED
    BY <2>1, ConcatProperties
<1>8. above \in Seq(Nat) /\ FlattenSeq(Pieces(p)) = above \o e
  <2>1. Pieces(f) \in Seq(Seq(Nat))
    BY <1>0, <1>3
  <2> HIDE DEF Pieces, e
  <2> QED
    BY <1>6, <1>7, <2>1, FlattenGrows DEF e
<1>9. base \in Seq(Nat)
  BY ParsedTexts DEF Text
<1>10. PathTo(c, Front(q)) = base \o above /\ PathTo(c, q) = base \o (above \o e)
  BY <1>1, <1>2, <1>3, <1>4, <1>8
<1> HIDE DEF base, above, e
<1>11. base \o (above \o e) = (base \o above) \o e /\ base \o above \in Seq(Nat)
  <2>1. base \in Seq(Nat) /\ above \in Seq(Nat) /\ e \in Seq(Nat)
    BY <1>7, <1>8, <1>9
  <2>2. (base \o above) \o e = base \o (above \o e)
    BY ONLY <2>1, ConcatAssociative
  <2>3. base \o above \in Seq(Nat)
    BY ONLY <2>1, ConcatProperties
  <2> QED
    BY <2>2, <2>3
<1> HIDE DEF c
<1> QED
  BY <1>5, <1>10, <1>11 DEF e, c, Text

-----------------------------------------------------------------------------
(***************************************************************************)
(* The walk state of a node addresses it.                                  *)
(***************************************************************************)

\* A walk state has a parameter for each dynamic node on the way to its own, its parts
\* are literals and those parameters, and filled in they give the node's path.
WellFilled(c, w) ==
  /\ w.params \in Seq(Text \ {<<>>}) /\ IsInjective(w.params)
  /\ Len(w.params) = Len(DynamicTo(c.nodes, w.at))
  /\ IsSeq(w.parts)
  /\ \A k \in DOMAIN w.parts :
       /\ w.parts[k].param \in {<<>>} \cup Range(w.params)
       /\ Piece(c.nodes, w.parts[k], w.params, w.at) \in Text
  /\ Filled(c.nodes, w, w.at) = PathTo(c, w.at)

\* The root's is.
LEMMA RootIsFilled ==
  ASSUME NEW d \in Docs, NEW w, w.at = <<>>, w.params = <<>>,
         w.parts = <<Lit(BasePath(Parse(d)))>>
  PROVE  WellFilled(Parse(d), w)
<1> DEFINE x == Parse(d).nodes
           b == BasePath(Parse(d))
           pieces == [k \in DOMAIN w.parts |-> Piece(x, w.parts[k], w.params, w.at)]
<1>1. b \in Text
  BY ParsedTexts
<1>2. Lit(b).lit = b /\ Lit(b).param = <<>>
  BY DEF Lit
<1> HIDE DEF b
<1>3. DOMAIN w.parts = 1..1 /\ w.parts[1] = Lit(b) /\ IsSeq(w.parts)
  <2>1. <<Lit(b)>> \in Seq({Lit(b)}) /\ DOMAIN <<Lit(b)>> = 1..1 /\ <<Lit(b)>>[1] = Lit(b)
    OBVIOUS
  <2>2. w.parts = <<Lit(b)>>
    BY DEF b
  <2> QED
    BY <2>1, <2>2, SeqIsSeq
<1>4. Piece(x, w.parts[1], w.params, w.at) = b
  BY <1>2, <1>3 DEF Piece
<1>5. pieces \in Seq(Seq(Nat)) /\ pieces = Append(<<>>, b)
  BY <1>1, <1>3, <1>4 DEF Text
<1>6. FlattenSeq(pieces) = FlattenSeq(<<>>) \o b /\ FlattenSeq(<<>>) = <<>>
  <2>1. <<>> \in Seq(Seq(Nat)) /\ b \in Seq(Nat)
    BY <1>1 DEF Text
  <2> QED
    BY <1>5, <2>1, FlattenGrows
<1>7. <<>> \o b = b
  BY <1>1, ConcatEmptySeq DEF Text
<1>8. Filled(x, w, w.at) = FlattenSeq(pieces)
  BY DEF Filled
<1>9. PathTo(Parse(d), w.at) = b
  BY DEF PathTo, b
<1>10. \A k \in DOMAIN w.parts : w.parts[k].param = <<>>
  BY <1>2, <1>3
<1>11. \A k \in DOMAIN w.parts : Piece(x, w.parts[k], w.params, w.at) \in Text
  BY <1>1, <1>3, <1>4
<1>12. w.params \in Seq(Text \ {<<>>}) /\ IsInjective(w.params)
  BY DEF IsInjective
<1>13. Len(w.params) = Len(DynamicTo(x, w.at))
  BY NoneDynamic
<1> HIDE DEF pieces, x
<1> QED
  BY <1>3, <1>6, <1>7, <1>8, <1>9, <1>10, <1>11, <1>12, <1>13 DEF WellFilled, x

\* The parameter of a node is not empty.
LEMMA ParamForIsNamed ==
  ASSUME NEW n, n.name \in Text, n.title \in Text, NEW params \in Seq(Text \ {<<>>}),
         NEW param \in ParamFor(n, params)
  PROVE  param \in Text \ {<<>>}
<1> DEFINE s == SegName(n)
           taken == Range(params)
<1>1. s \in Text
  BY DEF SegName, ItemText, Text
<1>2. IsFiniteSet(taken)
  <2>1. /\ Len(params) \in Nat /\ DOMAIN params = 1..Len(params)
        /\ params \in Surjection(1..Len(params), taken)
    BY DEF Surjection, Range
  <2> QED
    BY <2>1, FS_Interval, FS_Surjection
<1>3. Cardinality(taken) \in Nat
  BY <1>2, FS_CardinalityType
<1> HIDE DEF s
<1>4. \E i \in 1..Cardinality(taken) + 1 : param = Numbered(ParamName(s), i)
  BY DEF ParamFor, FirstFree, s
<1> HIDE DEF taken
<1>5. PICK i \in Nat : param = Numbered(ParamName(s), i)
  BY <1>3, <1>4
<1> QED
  BY <1>1, <1>5, ParamIsNamed

\* The pieces of a URI stay when its walk state grows.
LEMMA PieceStays ==
  ASSUME NEW x, NEW up, NEW q, NEW params \in Seq(Text \ {<<>>}), NEW more \in Seq(Text \ {<<>>}),
         IsInjective(more), Len(params) = Len(DynamicTo(x, up)),
         DynamicTo(x, up) \in Seq(Seq(Nat)), q \in Seq(Nat),
         \/ more = params /\ DynamicTo(x, q) = DynamicTo(x, up)
         \/ /\ \E e \in Text \ {<<>>} : more = Append(params, e)
            /\ DynamicTo(x, q) = Append(DynamicTo(x, up), q),
         NEW part, part.param \in {<<>>} \cup Range(params)
  PROVE  /\ Piece(x, part, more, q) = Piece(x, part, params, up)
         /\ part.param \in {<<>>} \cup Range(more)
<1> DEFINE dyn  == DynamicTo(x, up)
           dyns == DynamicTo(x, q)
           n    == Len(params)
           i    == CHOOSE j \in DOMAIN params : params[j] = part.param
           l    == CHOOSE j \in DOMAIN more : more[j] = part.param
<1>1. CASE part.param = <<>>
  BY <1>1 DEF Piece
<1>2. CASE part.param # <<>>
  <2>1. n \in Nat /\ DOMAIN params = 1..n /\ dyn \in Seq(Seq(Nat)) /\ Len(dyn) = n
    OBVIOUS
  <2>2. i \in 1..n /\ params[i] = part.param
    BY <1>2, <2>1 DEF Range
  <2>3. i \in DOMAIN more /\ more[i] = params[i] /\ dyns[i] = dyn[i]
    <3>1. CASE more = params /\ dyns = dyn
      BY <2>1, <2>2, <3>1
    <3>2. CASE (\E e \in Text \ {<<>>} : more = Append(params, e)) /\ dyns = Append(dyn, q)
      <4>1. PICK e \in Text \ {<<>>} : more = Append(params, e)
        BY <3>2
      <4> HIDE DEF i, dyn, dyns
      <4>2. i \in DOMAIN more /\ more[i] = params[i]
        <5> DEFINE S == Text \ {<<>>}
        <5>1. params \in Seq(S) /\ e \in S
          OBVIOUS
        <5> HIDE DEF S
        <5>2. /\ DOMAIN Append(params, e) = 1..n + 1
              /\ \A j \in 1..n : Append(params, e)[j] = params[j]
          BY <2>1, <5>1, AppendProperties
        <5>3. i \in 1..n + 1
          BY <2>1, <2>2
        <5> HIDE DEF n
        <5> QED
          BY <2>2, <4>1, <5>2, <5>3, Zenon
      <4>3. dyns[i] = dyn[i]
        <5> DEFINE S == Seq(Nat)
        <5>1. dyn \in Seq(S) /\ q \in S
          BY <2>1
        <5> HIDE DEF S
        <5>2. \A j \in 1..Len(dyn) : Append(dyn, q)[j] = dyn[j]
          BY <5>1, AppendProperties
        <5> QED
          BY <2>1, <2>2, <3>2, <5>2
      <4> QED
        BY <4>2, <4>3
    <3> QED
      BY <3>1, <3>2
  <2> HIDE DEF i
  <2>4. l \in DOMAIN more /\ more[l] = part.param
    BY <2>2, <2>3
  <2> HIDE DEF l
  <2>5. l = i
    BY <2>2, <2>3, <2>4 DEF IsInjective
  <2>6. part.param \in Range(more)
    BY <2>4 DEF Range
  <2>7. /\ Piece(x, part, params, up) = Segment(x[dyn[i]])
        /\ Piece(x, part, more, q) = Segment(x[dyns[l]])
    BY <1>2 DEF Piece, i, l
  <2> QED
    BY <2>3, <2>5, <2>6, <2>7
<1> QED
  BY <1>1, <1>2


\* A sequence and two more.
LEMMA TwoMore ==
  ASSUME NEW S, NEW s \in Seq(S), NEW a \in S, NEW b \in S
  PROVE  LET t == s \o <<a, b>>
         IN  /\ t \in Seq(S) /\ Len(s) \in Nat
             /\ DOMAIN t = 1..Len(s) + 2 /\ DOMAIN s = 1..Len(s)
             /\ \A k \in 1..Len(s) : t[k] = s[k]
             /\ t[Len(s) + 1] = a /\ t[Len(s) + 2] = b
OBVIOUS

\* A node's walk state is, if its parent's is.
LEMMA FilledGrows ==
  ASSUME NEW d \in Docs, NEW q \in DOMAIN Parse(d).nodes,
         NEW w, w.at = Front(q), WellFilled(Parse(d), w),
         NEW param \in ParamFor(Parse(d).nodes[q], w.params),
         NEW v, v.at = q,
         v.params = IF Dynamic(Parse(d).nodes[q]) THEN Append(w.params, param) ELSE w.params,
         v.parts = w.parts \o <<Lit(<<Sep>>), IF Dynamic(Parse(d).nodes[q]) THEN Param(param)
                                              ELSE Lit(Parse(d).nodes[q].name)>>
  PROVE  WellFilled(Parse(d), v)
<1> DEFINE c    == Parse(d)
           x    == c.nodes
           n    == x[q]
           up   == w.at
           dyn  == DynamicTo(x, up)
           dyns == DynamicTo(x, q)
           sep  == Lit(<<Sep>>)
           last == IF Dynamic(n) THEN Param(param) ELSE Lit(n.name)
           old  == [k \in DOMAIN w.parts |-> Piece(x, w.parts[k], w.params, up)]
           new  == [k \in DOMAIN v.parts |-> Piece(x, v.parts[k], v.params, q)]
           len  == Len(w.parts)
<1>1. q \in Seq(Nat) /\ Len(q) \in Nat /\ Len(q) > 0
  BY ParsedIsTree DEF IsTree
<1>2. n.name \in Text /\ n.title \in Text /\ Segment(n) \in Text
  <2>1. PICK p \in DOMAIN d.nodes : q = Sorted(d.nodes, p)
    BY ParsedFrom
  <2>2. n = BuildNode(d, p)
    BY <2>1, ParsedNode
  <2> HIDE DEF n
  <2> QED
    BY <2>2, ParsedTexts
<1>3. /\ w.params \in Seq(Text \ {<<>>}) /\ IsInjective(w.params) /\ Len(w.params) = Len(dyn)
      /\ IsSeq(w.parts)
      /\ \A k \in DOMAIN w.parts : /\ w.parts[k].param \in {<<>>} \cup Range(w.params)
                                   /\ Piece(x, w.parts[k], w.params, up) \in Text
      /\ Filled(x, w, up) = PathTo(c, up)
  BY DEF WellFilled
<1>4. dyn \in Seq(Seq(Nat)) /\ dyns = IF Dynamic(n) THEN Append(dyn, q) ELSE dyn
  BY <1>1, DynamicGrows
<1>5. param \in Text \ {<<>>} /\ param \notin Range(w.params)
  BY <1>2, <1>3, ParamForIsNamed, FreeIsFree DEF ParamFor
<1>6. PathTo(c, up) \in Text /\ PathTo(c, q) = PathTo(c, up) \o (<<Sep>> \o Segment(n))
  BY PathGrows
<1>7. sep.param = <<>> /\ sep.lit = <<Sep>>
  BY DEF Lit
<1>8. /\ v.params = IF Dynamic(n) THEN Append(w.params, param) ELSE w.params
      /\ v.parts = w.parts \o <<sep, last>>
      /\ GoodParams(v.params)
  <2>1. GoodParams(w.params)
    BY <1>3, SeqIsSeq DEF GoodParams
  <2>2. GoodParams(Append(w.params, param))
    BY <2>1, AppendGoodParam
  <2> QED
    BY <2>1, <2>2
<1>9. x[q] = n
  OBVIOUS
<1> HIDE DEF c, x, n, dyn, dyns, sep, last
<1>10. Dynamic(n) =>
         /\ Len(w.params) + 1 \in DOMAIN v.params
         /\ v.params[Len(w.params) + 1] = param
         /\ v.params \in Seq(Text \ {<<>>}) /\ Len(v.params) = Len(w.params) + 1
  <2> DEFINE S == Text \ {<<>>}
  <2>1. w.params \in Seq(S) /\ param \in S
    BY <1>3, <1>5
  <2> HIDE DEF S
  <2>2. /\ Append(w.params, param) \in Seq(S)
        /\ Len(Append(w.params, param)) = Len(w.params) + 1
        /\ Append(w.params, param)[Len(w.params) + 1] = param
        /\ Len(w.params) \in Nat
    BY <2>1, AppendProperties
  <2>3. Len(w.params) + 1 \in DOMAIN Append(w.params, param)
    BY <2>2
  <2> QED
    BY <1>8, <2>2, <2>3 DEF S
<1>11. Dynamic(n) => Len(dyns) = Len(w.params) + 1 /\ dyns[Len(w.params) + 1] = q
  <2> DEFINE S == Seq(Nat)
  <2>1. dyn \in Seq(S) /\ q \in S
    BY <1>1, <1>4
  <2> HIDE DEF S
  <2>2. Len(Append(dyn, q)) = Len(dyn) + 1 /\ Append(dyn, q)[Len(dyn) + 1] = q
    BY <2>1, AppendProperties
  <2> QED
    BY <1>3, <1>4, <2>2
<1>12. v.params \in Seq(Text \ {<<>>}) /\ IsInjective(v.params) /\ Len(v.params) = Len(dyns)
  BY <1>3, <1>4, <1>8, <1>10, <1>11 DEF GoodParams
<1>13. Piece(x, last, v.params, q) = Segment(n) /\ last.param \in {<<>>} \cup Range(v.params)
  <2>1. CASE Dynamic(n)
    <3> DEFINE m == Len(w.params) + 1
               l == CHOOSE j \in DOMAIN v.params : v.params[j] = last.param
    <3>1. last.param = param /\ param # <<>>
      BY <1>5, <2>1 DEF last, Param
    <3>2. m \in DOMAIN v.params /\ v.params[m] = param /\ dyns[m] = q
      BY <1>10, <1>11, <2>1
    <3> HIDE DEF m
    <3>3. l \in DOMAIN v.params /\ v.params[l] = param
      BY <3>1, <3>2
    <3>4. Piece(x, last, v.params, q) = Segment(x[dyns[l]])
      BY <3>1 DEF Piece, dyns
    <3> HIDE DEF l
    <3>5. l = m
      BY <1>12, <3>2, <3>3 DEF IsInjective
    <3> QED
      BY <1>9, <3>1, <3>2, <3>4, <3>5 DEF Range
  <2>2. CASE ~Dynamic(n)
    <3>1. last.param = <<>> /\ last.lit = n.name
      BY <2>2 DEF last, Lit
    <3>2. Segment(n) = n.name
      BY <2>2 DEF Segment
    <3> QED
      BY <3>1, <3>2 DEF Piece
  <2> QED
    BY <2>1, <2>2
<1>14. Piece(x, sep, v.params, q) = <<Sep>>
  BY <1>7 DEF Piece
<1>15. /\ IsSeq(v.parts) /\ len \in Nat /\ DOMAIN w.parts = 1..len /\ DOMAIN v.parts = 1..len + 2
       /\ \A k \in 1..len : v.parts[k] = w.parts[k]
       /\ v.parts[len + 1] = sep /\ v.parts[len + 2] = last
  <2> DEFINE R == Range(w.parts) \cup {sep, last}
             t == w.parts \o <<sep, last>>
  <2>1. w.parts \in Seq(R) /\ sep \in R /\ last \in R
    BY <1>3 DEF IsSeq
  <2> HIDE DEF R
  <2>2. /\ t \in Seq(R) /\ len \in Nat /\ DOMAIN t = 1..len + 2 /\ DOMAIN w.parts = 1..len
        /\ \A k \in 1..len : t[k] = w.parts[k]
        /\ t[len + 1] = sep /\ t[len + 2] = last
    BY ONLY <2>1, TwoMore
  <2>3. v.parts = t
    BY <1>8
  <2> HIDE DEF t
  <2>4. IsSeq(t)
    BY <2>2, SeqIsSeq
  <2> QED
    BY <2>2, <2>3, <2>4
<1>16. ASSUME NEW k \in 1..len
       PROVE  /\ Piece(x, v.parts[k], v.params, q) = Piece(x, w.parts[k], w.params, up)
              /\ v.parts[k].param \in {<<>>} \cup Range(v.params)
  <2>1. \/ v.params = w.params /\ dyns = dyn
        \/ /\ \E e \in Text \ {<<>>} : v.params = Append(w.params, e)
           /\ dyns = Append(dyn, q)
    BY <1>4, <1>5, <1>8
  <2>2. v.parts[k] = w.parts[k] /\ w.parts[k].param \in {<<>>} \cup Range(w.params)
    BY <1>3, <1>15
  <2>3. /\ w.params \in Seq(Text \ {<<>>}) /\ v.params \in Seq(Text \ {<<>>})
        /\ IsInjective(v.params) /\ Len(w.params) = Len(DynamicTo(x, up))
        /\ DynamicTo(x, up) \in Seq(Seq(Nat)) /\ q \in Seq(Nat)
    BY <1>1, <1>3, <1>4, <1>12 DEF dyn
  <2>4. \/ v.params = w.params /\ DynamicTo(x, q) = DynamicTo(x, up)
        \/ /\ \E e \in Text \ {<<>>} : v.params = Append(w.params, e)
           /\ DynamicTo(x, q) = Append(DynamicTo(x, up), q)
    BY <2>1 DEF dyn, dyns
  <2>5. /\ Piece(x, w.parts[k], v.params, q) = Piece(x, w.parts[k], w.params, up)
        /\ w.parts[k].param \in {<<>>} \cup Range(v.params)
    BY ONLY <2>2, <2>3, <2>4, PieceStays
  <2> QED
    BY <2>2, <2>5
<1>17. \A k \in 1..len + 2 :
         /\ v.parts[k].param \in {<<>>} \cup Range(v.params)
         /\ Piece(x, v.parts[k], v.params, q) \in Text
  <2> SUFFICES ASSUME NEW k \in 1..len + 2
               PROVE  /\ v.parts[k].param \in {<<>>} \cup Range(v.params)
                      /\ Piece(x, v.parts[k], v.params, q) \in Text
    OBVIOUS
  <2>1. k \in 1..len \/ k = len + 1 \/ k = len + 2
    BY <1>15
  <2>2. <<Sep>> \in Text
    BY DEF Text, Sep
  <2>3. CASE k \in 1..len
    BY <1>3, <1>15, <1>16, <2>3
  <2>4. CASE k = len + 1
    BY <1>7, <1>14, <1>15, <2>2, <2>4
  <2>5. CASE k = len + 2
    BY <1>2, <1>13, <1>15, <2>5
  <2> QED
    BY <2>1, <2>3, <2>4, <2>5
<1>18. new = Append(Append(old, <<Sep>>), Segment(n)) /\ old \in Seq(Text)
  <2> DEFINE t == Append(old, <<Sep>>)
             u == Append(t, Segment(n))
  <2>1. old \in Seq(Text) /\ Len(old) = len
        /\ \A k \in 1..len : old[k] = Piece(x, w.parts[k], w.params, up)
    BY <1>3, <1>15
  <2>2. new \in Seq(Text) /\ Len(new) = len + 2
        /\ \A k \in 1..len + 2 : new[k] = Piece(x, v.parts[k], v.params, q)
    BY <1>15, <1>17
  <2> HIDE DEF old, new
  <2>3. <<Sep>> \in Text /\ Segment(n) \in Text
    BY <1>2 DEF Text, Sep
  <2>4. /\ t \in Seq(Text) /\ Len(t) = len + 1 /\ t[len + 1] = <<Sep>>
        /\ \A k \in 1..len : t[k] = old[k]
    BY ONLY <2>1, <2>3, AppendProperties
  <2> HIDE DEF t
  <2>5. /\ u \in Seq(Text) /\ Len(u) = (len + 1) + 1 /\ u[(len + 1) + 1] = Segment(n)
        /\ \A k \in 1..len + 1 : u[k] = t[k]
    BY ONLY <2>3, <2>4, AppendProperties
  <2> HIDE DEF u
  <2>6. ASSUME NEW k \in 1..len + 2 PROVE new[k] = u[k]
    <3>1. k \in 1..len \/ k = len + 1 \/ k = len + 2
      BY <1>15
    <3>2. CASE k \in 1..len
      BY <1>15, <1>16, <2>1, <2>2, <2>4, <2>5, <3>2
    <3>3. CASE k = len + 1
      <4>1. len + 1 \in 1..len + 2 /\ len + 1 \in 1..len + 1
        BY <1>15
      <4>2. new[len + 1] = <<Sep>>
        BY <1>14, <1>15, <2>2, <4>1
      <4>3. u[len + 1] = <<Sep>>
        BY <2>4, <2>5, <4>1
      <4> QED
        BY <3>3, <4>2, <4>3
    <3>4. CASE k = len + 2
      BY <1>13, <1>15, <2>2, <2>5, <3>4
    <3> QED
      BY <3>1, <3>2, <3>3, <3>4
  <2>7. Len(u) = len + 2
    BY <1>15, <2>5
  <2>8. new = u
    BY <2>2, <2>5, <2>6, <2>7, SeqEqual
  <2> QED
    BY <2>1, <2>8 DEF t, u
<1>19. Filled(x, v, q) = PathTo(c, q)
  <2> DEFINE a == FlattenSeq(old)
             s == Segment(n)
  <2>1. Filled(x, v, q) = FlattenSeq(new) /\ a = PathTo(c, up)
    BY <1>3 DEF Filled
  <2> HIDE DEF old, new
  <2>2. old \in Seq(Seq(Nat)) /\ <<Sep>> \in Seq(Nat) /\ s \in Seq(Nat)
    BY <1>2, <1>18 DEF Text, Sep
  <2> HIDE DEF s
  <2>3. Append(old, <<Sep>>) \in Seq(Seq(Nat))
    BY ONLY <2>2, AppendProperties
  <2>4. /\ a \in Seq(Nat) /\ FlattenSeq(Append(old, <<Sep>>)) = a \o <<Sep>>
        /\ FlattenSeq(Append(Append(old, <<Sep>>), s)) = FlattenSeq(Append(old, <<Sep>>)) \o s
    BY <2>2, <2>3, FlattenGrows
  <2> HIDE DEF a
  <2>5. (a \o <<Sep>>) \o s = a \o (<<Sep>> \o s)
    BY ONLY <2>2, <2>4, ConcatAssociative
  <2> QED
    BY <1>6, <1>18, <2>1, <2>4, <2>5 DEF s
<1> HIDE DEF old, new, len
<1> QED
  BY <1>12, <1>15, <1>17, <1>19 DEF WellFilled, c, x, dyns

-----------------------------------------------------------------------------
(***************************************************************************)
(* The URIs of methods address their nodes.                                *)
(***************************************************************************)

\* The walk state of the node that is visited addresses it, and so does that of the
\* parent of every node on the agenda.
FillInv ==
  /\ pc \in Visiting \cup {"start"} => WellFilled(csp, cur)
  /\ \A x \in Range(agenda) : Front(x.at) = x.parent.at /\ WellFilled(csp, x.parent)
  /\ MethodsAddressTheirNode

\* The name of a node does not count.
LEMMA SameFill ==
  ASSUME NEW c, NEW w, NEW v, v.at = w.at, v.params = w.params, v.parts = w.parts
  PROVE  WellFilled(c, w) => WellFilled(c, v)
BY DEF WellFilled, Filled

\* It is so at the start,
LEMMA InitFill == Init => FillInv
<1> SUFFICES ASSUME Init PROVE FillInv
  OBVIOUS
<1>1. doc \in Docs /\ csp = Parse(doc) /\ cur = Root /\ agenda = <<>> /\ methods = {}
  BY DEF Init
<1>2. cur.at = <<>> /\ cur.params = <<>> /\ cur.parts = <<Lit(BasePath(Parse(doc)))>>
  BY <1>1 DEF Root
<1>3. WellFilled(csp, cur)
  BY <1>1, <1>2, RootIsFilled
<1>4. Range(agenda) = {}
  BY <1>1 DEF Range
<1> QED
  BY <1>1, <1>3, <1>4 DEF FillInv, MethodsAddressTheirNode

\* and stays so where no node is left, no method made.
LEMMA QuietFill ==
  ASSUME FillInv, UNCHANGED <<csp, agenda, methods, uris>>,
         cur'.at = cur.at, cur'.params = cur.params, cur'.parts = cur.parts,
         pc' \in Visiting \cup {"start"} => pc \in Visiting \cup {"start"}
  PROVE  FillInv'
<1>1. MethodsAddressTheirNode'
  BY DEF FillInv, MethodsAddressTheirNode
<1>2. ASSUME pc' \in Visiting \cup {"start"} PROVE WellFilled(csp', cur')
  <2>1. WellFilled(csp, cur) /\ csp' = csp
    BY <1>2 DEF FillInv
  <2> QED
    BY <2>1, SameFill
<1>3. ASSUME NEW x \in Range(agenda') PROVE Front(x.at) = x.parent.at /\ WellFilled(csp', x.parent)
  BY <1>3 DEF FillInv
<1> QED
  BY <1>1, <1>2, <1>3 DEF FillInv

\* The walk comes to the children of a node with its walk state.
LEMMA WalkFill ==
  ASSUME Parsed, cur.at \in {<<>>} \cup DOMAIN csp.nodes, WellFilled(csp, cur)
  PROVE  \A x \in Range(Walk(cur)) : Front(x.at) = x.parent.at /\ WellFilled(csp, x.parent)
<1> DEFINE item(k) == [at |-> Append(cur.at, k), parent |-> cur]
           n == Cardinality(Children(csp.nodes, cur.at))
<1>1. cur.at \in Seq(Nat)
  BY ParsedIsTree, EmptySeq DEF Parsed, IsTree
<1>2. Walk(cur) = [k \in 1..n |-> item(k)]
  BY DEF Walk
<1>3. ASSUME NEW k \in Nat PROVE Front(Append(cur.at, k)) = cur.at
  <2> DEFINE s == cur.at
             t == Append(s, k)
             f == SubSeq(t, 1, Len(s))
  <2>1. s \in Seq(Nat) /\ Len(s) \in Nat
    BY <1>1
  <2> HIDE DEF s
  <2>2. t \in Seq(Nat) /\ Len(t) = Len(s) + 1 /\ \A i \in 1..Len(s) : t[i] = s[i]
    BY <2>1, AppendProperties
  <2> HIDE DEF t
  <2>3. f \in Seq(Nat) /\ Len(f) = Len(s) /\ \A i \in 1..Len(s) : f[i] = t[i]
    BY <2>1, <2>2
  <2>4. Len(t) - 1 = Len(s)
    BY <2>1, <2>2
  <2>5. Front(t) = f
    BY <2>4 DEF Front
  <2> HIDE DEF f
  <2>6. f = s
    BY <2>1, <2>2, <2>3, SeqEqual
  <2> QED
    BY <2>5, <2>6 DEF s, t
<1>4. n \in Nat
  <2>1. IsFiniteSet(DOMAIN csp.nodes)
    BY ParsedIsFinite DEF Parsed
  <2> QED
    BY <2>1, FS_Subset, FS_CardinalityType DEF Children
<1> HIDE DEF n
<1>5. ASSUME NEW x \in Range(Walk(cur)) PROVE Front(x.at) = x.parent.at /\ x.parent = cur
  <2>1. PICK k \in 1..n : x = item(k)
    BY <1>2 DEF Range
  <2>2. k \in Nat
    BY <1>4
  <2> QED
    BY <1>3, <2>1, <2>2
<1> QED
  BY <1>5

\* The methods of a node that is visited address it.
LEMMA EmitFill ==
  ASSUME FillInv, WellFilled(csp, cur), csp' = csp,
         \A m \in methods : m.base # cur.base, \A u \in uris : u.base # cur.base,
         NEW new, methods' = methods \cup new, \A m \in new : m.base = cur.base /\ m.at = cur.at,
         NEW made, uris' = uris \cup made,
         \A u \in made : u.base = cur.base /\ u.params = cur.params /\ u.parts = cur.parts
  PROVE  MethodsAddressTheirNode'
<1> SUFFICES ASSUME NEW m \in methods', NEW u \in uris', u.base = m.base
             PROVE  Filled(csp.nodes, u, m.at) = PathTo(csp, m.at)
  BY DEF MethodsAddressTheirNode
<1>1. CASE m \in methods /\ u \in uris
  BY <1>1 DEF FillInv, MethodsAddressTheirNode
<1>2. CASE m \in new /\ u \in made
  <2>1. Filled(csp.nodes, cur, cur.at) = PathTo(csp, cur.at)
    BY DEF WellFilled
  <2>2. m.at = cur.at /\ u.params = cur.params /\ u.parts = cur.parts
    BY <1>2
  <2>3. Filled(csp.nodes, u, cur.at) = Filled(csp.nodes, cur, cur.at)
    BY <2>2 DEF Filled
  <2> QED
    BY <2>1, <2>2, <2>3
<1> QED
  BY <1>1, <1>2

\* The root is the first to have its method and its URI.
LEMMA StartFill == IInv /\ WalkInv /\ FillInv /\ Start => FillInv'
<1> SUFFICES ASSUME IInv, WalkInv, FillInv, Start PROVE FillInv'
  OBVIOUS
<1> DEFINE new  == IF HasDynamicChild(<<>>) THEN {Method("List", NoType)} ELSE {}
           made == {[base |-> RootText, params |-> <<>>, parts |-> cur.parts]}
<1>1. /\ pc = "start" /\ pc' = "walk" /\ csp' = csp /\ agenda' = Walk(cur)
      /\ methods' = new /\ uris' = made
  BY DEF Start
<1>2. cur = Root /\ methods = {} /\ uris = {} /\ WellFilled(csp, cur)
  BY <1>1 DEF IInv, Shape, FillInv
<1>3. cur.at = <<>> /\ cur.params = <<>> /\ cur.base = RootText
  BY <1>2 DEF Root
<1>4. \A m \in new : m.base = cur.base /\ m.at = cur.at
  BY DEF Method
<1>5. \A u \in made : u.base = cur.base /\ u.params = cur.params /\ u.parts = cur.parts
  BY <1>3
<1> HIDE DEF new, made
<1>6. methods' = methods \cup new /\ uris' = uris \cup made
  BY <1>1, <1>2
<1>7. MethodsAddressTheirNode'
  BY <1>1, <1>2, <1>4, <1>5, <1>6, EmitFill
<1>8. \A x \in Range(agenda') : Front(x.at) = x.parent.at /\ WellFilled(csp, x.parent)
  BY <1>1, <1>2, <1>3, WalkFill DEF WalkInv
<1> QED
  BY <1>1, <1>7, <1>8 DEF FillInv, Visiting

\* A node that is visited gets its walk state from its parent's.
LEMMA VisitFill == WalkInv /\ FillInv /\ Visit => FillInv'
<1> SUFFICES ASSUME WalkInv, FillInv, Visit PROVE FillInv'
  OBVIOUS
<1> DEFINE at == Head(agenda).at
           parent == Head(agenda).parent
<1>1. /\ pc' = "claim" /\ agenda # <<>> /\ agenda' = Tail(agenda)
      /\ UNCHANGED <<csp, methods, uris>>
  BY DEF Visit
<1>2. PICK param \in ParamFor(csp.nodes[at], parent.params) : cur' = NodeAt(at, parent, param)
  BY DEF Visit
<1>3. IsSeq(agenda) /\ (\A x \in Range(agenda) : x.at \in DOMAIN csp.nodes)
      /\ doc \in Docs /\ csp = Parse(doc)
  BY DEF WalkInv, Places, Parsed
<1>4. Head(agenda) \in Range(agenda) /\ Range(agenda') \subseteq Range(agenda)
  BY <1>1, <1>3, TailAny
<1>5. at \in DOMAIN csp.nodes /\ parent.at = Front(at) /\ WellFilled(csp, parent)
  BY <1>3, <1>4 DEF FillInv
<1>6. /\ cur'.at = at
      /\ cur'.params = IF Dynamic(csp.nodes[at]) THEN Append(parent.params, param)
                       ELSE parent.params
      /\ cur'.parts = parent.parts \o <<Lit(<<Sep>>), IF Dynamic(csp.nodes[at]) THEN Param(param)
                                                      ELSE Lit(csp.nodes[at].name)>>
  BY <1>2 DEF NodeAt
<1> HIDE DEF at, parent
<1> DEFINE v == cur'
<1> HIDE DEF v
<1>7. WellFilled(csp, v)
  BY <1>2, <1>3, <1>5, <1>6, FilledGrows DEF v
<1>8. MethodsAddressTheirNode'
  BY <1>1 DEF FillInv, MethodsAddressTheirNode
<1>9. \A x \in Range(agenda') : Front(x.at) = x.parent.at /\ WellFilled(csp, x.parent)
  BY <1>4 DEF FillInv
<1> QED
  BY <1>1, <1>7, <1>8, <1>9 DEF FillInv, v

\* A node that was visited has its methods and its URI.
LEMMA EmittedFill ==
  ASSUME IInv, WalkInv, FillInv, pc = "emit", pc' = "walk", csp' = csp,
         NEW new, methods' = methods \cup new, \A m \in new : m.base = cur.base /\ m.at = cur.at,
         NEW emitted, EnsureURI(emitted),
         \/ agenda' = agenda
         \/ agenda' = Walk(cur) \o agenda
  PROVE  FillInv'
<1> DEFINE made == IF emitted = {} \/ \E u \in uris : u.base = cur.base THEN {}
                   ELSE {[base |-> cur.base, params |-> cur.params, parts |-> cur.parts]}
<1>1. WellFilled(csp, cur) /\ cur.at \in DOMAIN csp.nodes /\ Parsed
  BY DEF FillInv, Visiting, WalkInv, Places
<1>2. (\A m \in methods : m.base # cur.base) /\ (\A u \in uris : u.base # cur.base)
  BY DEF IInv, NamesUnused
<1>3. uris' = uris \cup made
  BY DEF EnsureURI
<1>4. \A u \in made : u.base = cur.base /\ u.params = cur.params /\ u.parts = cur.parts
  OBVIOUS
<1> HIDE DEF made
<1>5. MethodsAddressTheirNode'
  BY <1>1, <1>2, <1>3, <1>4, EmitFill
<1>6. ASSUME NEW x \in Range(agenda')
      PROVE  Front(x.at) = x.parent.at /\ WellFilled(csp, x.parent)
  <2>1. CASE agenda' = agenda
    BY <2>1 DEF FillInv
  <2>2. CASE agenda' = Walk(cur) \o agenda
    <3>1. IsSeq(agenda) /\ IsSeq(Walk(cur))
      BY WalkIsGood DEF IInv, Walks
    <3>2. x \in Range(Walk(cur)) \cup Range(agenda)
      BY <2>2, <3>1, ConcatRange
    <3> QED
      BY <1>1, <3>2, WalkFill DEF FillInv
  <2> QED
    BY <2>1, <2>2
<1> QED
  BY <1>5, <1>6 DEF FillInv, Visiting

\* Every step.
LEMMA NextFill == IInv /\ WalkInv /\ FillInv /\ [Next]_vars => FillInv'
<1> SUFFICES ASSUME IInv, WalkInv, FillInv, [Next]_vars PROVE FillInv'
  OBVIOUS
<1>1. CASE Start
  BY <1>1, StartFill
<1>2. CASE Visit
  BY <1>2, VisitFill
<1>3. CASE EmitInterior
  <2> DEFINE new == {Method(m, NoType) : m \in InteriorPrefixes}
  <2>1. /\ pc = "emit" /\ pc' = "walk" /\ csp' = csp /\ methods' = methods \cup new
        /\ EnsureURI(InteriorPrefixes) /\ agenda' = Walk(cur) \o agenda
    BY <1>3 DEF EmitInterior
  <2>2. \A m \in new : m.base = cur.base /\ m.at = cur.at
    BY DEF Method
  <2> HIDE DEF new
  <2> QED
    BY <2>1, <2>2, EmittedFill
<1>4. CASE EmitLeaf
  <2> DEFINE type(m) == IF m = "Delete" THEN NoType ELSE ValueType
             new == {Method(m, type(m)) : m \in LeafPrefixes}
  <2>1. /\ pc = "emit" /\ pc' = "walk" /\ csp' = csp /\ methods' = methods \cup new
        /\ EnsureURI(LeafPrefixes) /\ agenda' = agenda
    BY <1>4 DEF EmitLeaf
  <2>2. \A m \in new : m.base = cur.base /\ m.at = cur.at
    <3> HIDE DEF type
    <3> QED
      BY DEF Method
  <2> HIDE DEF new
  <2> QED
    BY <2>1, <2>2, EmittedFill
<1>5. CASE AskAgain \/ ClaimType \/ AddMember \/ AbandonEnum \/ EndEnum
  <2>1. pc \in Visiting /\ UNCHANGED <<csp, methods, uris, agenda, cur>>
    BY <1>5 DEF AskAgain, ClaimType, AddMember, AbandonEnum, EndEnum, Visiting
  <2> QED
    BY <2>1, QuietFill
<1>6. CASE Claim
  <2>1. pc \in Visiting /\ UNCHANGED <<csp, methods, uris, agenda>>
    BY <1>6 DEF Claim, Visiting
  <2>2. cur'.at = cur.at /\ cur'.params = cur.params /\ cur'.parts = cur.parts
    BY <1>6 DEF Claim, IInv, Shape
  <2> QED
    BY <2>1, <2>2, QuietFill
<1>7. CASE Finish
  <2>1. pc' = "done" /\ UNCHANGED <<csp, methods, uris, agenda, cur>>
    BY <1>7 DEF Finish
  <2>2. pc' \notin Visiting \cup {"start"}
    BY <2>1 DEF Visiting
  <2> QED
    BY <2>1, <2>2, QuietFill
<1>8. CASE UNCHANGED vars
  <2>1. UNCHANGED <<csp, methods, uris, agenda, cur, pc>>
    BY <1>8 DEF vars
  <2> QED
    BY <2>1, QuietFill
<1> QED
  BY <1>1, <1>2, <1>3, <1>4, <1>5, <1>6, <1>7, <1>8 DEF Next

\* Whatever the DDF calls its nodes and however deep they nest: the URI of every method,
\* filled in with the placeholders of its arguments, is the path of the very node the
\* method was made for, which the parser computed by another way (build.go:106-119,
\* parse.go:56-64).
THEOREM BuilderMethodsAddressed == Spec => []MethodsAddressTheirNode
<1>1. IInv /\ WalkInv /\ FillInv /\ [Next]_vars => (IInv /\ WalkInv /\ FillInv)'
  BY NextInv, NextWalk, NextFill
<1>2. FillInv => MethodsAddressTheirNode
  BY DEF FillInv
<1> QED
  BY <1>1, <1>2, InitInv, InitWalk, InitFill, PTL DEF Spec

-----------------------------------------------------------------------------
(***************************************************************************)
(* The order of siblings in a document.                                    *)
(***************************************************************************)

\* Two positions that differ in their last number at most.
Twins(p, q) ==
  /\ p \in Seq(Nat) /\ q \in Seq(Nat) /\ Len(p) \in Nat \ {0} /\ Len(q) = Len(p)
  /\ \A i \in 1..Len(p) - 1 : p[i] = q[i]

Under(p, r) == Len(p) <= Len(r) /\ \A i \in 1..Len(p) : r[i] = p[i]

\* The i-th number of a position that has moved.
SwapAt(p, q, r, i) ==
  IF i # Len(p) THEN r[i] ELSE IF Under(p, r) THEN q[i] ELSE IF Under(q, r) THEN p[i] ELSE r[i]

\* One number changes in a position that is at or below one of the two.
LEMMA SwappedIs ==
  ASSUME NEW p, NEW q, Twins(p, q), NEW r \in Seq(Nat)
  PROVE  /\ Swapped(p, q, r) \in Seq(Nat) /\ Len(Swapped(p, q, r)) = Len(r)
         /\ \A i \in 1..Len(r) : Swapped(p, q, r)[i] = SwapAt(p, q, r, i)
<1> DEFINE s == Swapped(p, q, r)
           m == Len(p)
           n == Len(r)
<1>1. /\ p \in Seq(Nat) /\ q \in Seq(Nat) /\ m \in Nat \ {0} /\ Len(q) = m /\ n \in Nat
      /\ \A i \in 1..m - 1 : p[i] = q[i]
  BY DEF Twins
<1>2. ASSUME NEW t \in Seq(Nat), Len(t) = m
      PROVE  IsPrefix(t, r) <=> Under(t, r)
  <2>1. IsPrefix(t, r) <=> Len(t) <= Len(r) /\ SubSeq(t, 1, Len(t)) = SubSeq(r, 1, Len(t))
    BY DEF IsPrefix
  <2>2. SubSeq(t, 1, Len(t)) = t
    BY SubSeqFull
  <2>3. ASSUME Len(t) <= Len(r) PROVE t = SubSeq(r, 1, Len(t)) <=> \A i \in 1..Len(t) : r[i] = t[i]
    <3> DEFINE u == SubSeq(r, 1, Len(t))
    <3>1. u \in Seq(Nat) /\ Len(u) = Len(t) /\ \A i \in 1..Len(t) : u[i] = r[i]
      BY <1>1, <2>3
    <3> HIDE DEF u
    <3>2. t = u => \A i \in 1..Len(t) : r[i] = t[i]
      BY <3>1
    <3>3. (\A i \in 1..Len(t) : r[i] = t[i]) => t = u
      BY <3>1, SeqEqual
    <3> QED
      BY <3>2, <3>3 DEF u
  <2> QED
    BY <2>1, <2>2, <2>3 DEF Under
<1>3. ASSUME NEW t \in Seq(Nat), Len(t) = m, m <= n
      PROVE  LET u == t \o SubSeq(r, m + 1, n)
             IN  /\ u \in Seq(Nat) /\ Len(u) = n
                 /\ \A i \in 1..n : u[i] = IF i <= m THEN t[i] ELSE r[i]
  <2> DEFINE b == SubSeq(r, m + 1, n)
             u == t \o b
  <2>1. b \in Seq(Nat) /\ Len(b) = n - m /\ \A i \in 1..n - m : b[i] = r[m + i]
    BY <1>1, <1>3
  <2> HIDE DEF b
  <2>a. b \in Seq(Nat) /\ t \in Seq(Nat) /\ Len(t) = m /\ Len(b) = n - m /\ m \in Nat /\ n \in Nat
    BY <1>1, <1>3, <2>1
  <2>b. /\ t \o b \in Seq(Nat) /\ Len(t \o b) = Len(t) + Len(b)
        /\ \A i \in 1..Len(t) + Len(b) : (t \o b)[i] = IF i <= Len(t) THEN t[i] ELSE b[i - Len(t)]
    BY ONLY <2>a, ConcatProperties
  <2>c. u = t \o b
    OBVIOUS
  <2> HIDE DEF u
  <2>2. u \in Seq(Nat) /\ Len(u) = n
    BY <2>a, <2>b, <2>c
  <2>3. ASSUME NEW i \in 1..n PROVE u[i] = IF i <= m THEN t[i] ELSE r[i]
    <3>0. i \in 1..Len(t) + Len(b)
      BY <2>a
    <3>1. u[i] = IF i <= m THEN t[i] ELSE b[i - m]
      BY <2>a, <2>b, <2>c, <3>0
    <3>2. i > m => b[i - m] = r[i]
      <4>1. i > m => i - m \in 1..n - m /\ m + (i - m) = i
        BY <1>1
      <4> QED
        BY <2>1, <4>1
    <3> QED
      BY <1>1, <3>1, <3>2
  <2> QED
    BY <2>2, <2>3 DEF b, u
<1>4. (IsPrefix(p, r) <=> Under(p, r)) /\ (IsPrefix(q, r) <=> Under(q, r))
  BY <1>1, <1>2
<1>5. CASE Under(p, r)
  <2>1. m <= n
    BY <1>5 DEF Under
  <2>9. s = q \o SubSeq(r, m + 1, n)
    <3>1. IsPrefix(p, r)
      BY <1>4, <1>5
    <3>2. IsPrefix(q, r) => p = q
      <4> SUFFICES ASSUME IsPrefix(q, r) PROVE p = q
        OBVIOUS
      <4>1. Under(q, r)
        BY <1>4
      <4>2. \A i \in 1..Len(p) : p[i] = q[i]
        BY <1>1, <1>5, <4>1 DEF Under, m
      <4> QED
        BY <1>1, <4>2, SeqEqual
    <3>3. CASE p = q
      BY <3>1, <3>3 DEF Swapped
    <3>4. CASE ~IsPrefix(q, r)
      BY <3>1, <3>4 DEF Swapped
    <3> QED
      BY <3>2, <3>3, <3>4
  <2> HIDE DEF s, m, n
  <2>8. q \in Seq(Nat) /\ Len(q) = m /\ m <= n
    BY <1>1, <2>1
  <2>2. s \in Seq(Nat) /\ Len(s) = n /\ \A i \in 1..n : s[i] = IF i <= m THEN q[i] ELSE r[i]
    BY ONLY <1>3, <2>8, <2>9
  <2>3. ASSUME NEW i \in 1..n PROVE s[i] = SwapAt(p, q, r, i)
    <3>1. s[i] = IF i <= m THEN q[i] ELSE r[i]
      BY <2>2
    <3>2. i < m => q[i] = p[i] /\ r[i] = p[i]
      <4>1. i < m => i \in 1..m - 1 /\ i \in 1..Len(p)
        BY <1>1 DEF m
      <4> QED
        BY <1>1, <1>5, <4>1 DEF Under, m
    <3> QED
      BY <1>1, <1>5, <3>1, <3>2 DEF SwapAt, m
  <2> QED
    BY <2>2, <2>3 DEF s, m, n
<1>6. CASE ~Under(p, r) /\ Under(q, r)
  <2>1. s = p \o SubSeq(r, m + 1, n) /\ m <= n
    BY <1>1, <1>4, <1>6 DEF Swapped, Under
  <2>2. s \in Seq(Nat) /\ Len(s) = n /\ \A i \in 1..n : s[i] = IF i <= m THEN p[i] ELSE r[i]
    BY <1>1, <1>3, <2>1
  <2> HIDE DEF s
  <2>3. ASSUME NEW i \in 1..n PROVE s[i] = SwapAt(p, q, r, i)
    <3>1. s[i] = IF i <= m THEN p[i] ELSE r[i]
      BY <2>2
    <3>2. i < m => q[i] = p[i] /\ r[i] = q[i]
      <4>1. i < m => i \in 1..m - 1 /\ i \in 1..Len(q)
        BY <1>1
      <4> QED
        BY <1>1, <1>6, <4>1 DEF Under
    <3> QED
      BY <1>1, <1>6, <3>1, <3>2 DEF SwapAt
  <2> QED
    BY <2>2, <2>3 DEF s
<1>7. CASE ~Under(p, r) /\ ~Under(q, r)
  <2>1. s = r
    BY <1>4, <1>7 DEF Swapped
  <2> QED
    BY <1>7, <2>1 DEF SwapAt
<1> QED
  BY <1>5, <1>6, <1>7

\* The beginning of a position moves as the position does.
LEMMA SwappedBeginning ==
  ASSUME NEW p, NEW q, Twins(p, q), NEW r \in Seq(Nat), NEW k \in 0..Len(r)
  PROVE  Swapped(p, q, SubSeq(r, 1, k)) = SubSeq(Swapped(p, q, r), 1, k)
<1> DEFINE t == SubSeq(r, 1, k)
           s == Swapped(p, q, r)
           u == SubSeq(s, 1, k)
           v == Swapped(p, q, t)
<1>1. t \in Seq(Nat) /\ Len(t) = k /\ \A i \in 1..k : t[i] = r[i]
  BY Beginning
<1> HIDE DEF t
<1>2. s \in Seq(Nat) /\ Len(s) = Len(r) /\ \A i \in 1..Len(r) : s[i] = SwapAt(p, q, r, i)
  BY SwappedIs
<1>3. v \in Seq(Nat) /\ Len(v) = k /\ \A i \in 1..k : v[i] = SwapAt(p, q, t, i)
  BY <1>1, SwappedIs
<1> HIDE DEF s, v
<1>4. u \in Seq(Nat) /\ Len(u) = k /\ \A i \in 1..k : u[i] = s[i]
  BY <1>2
<1> HIDE DEF u
<1>5. ASSUME NEW i \in 1..k PROVE u[i] = v[i]
  <2>1. i \in 1..Len(r) /\ Len(r) \in Nat /\ k \in Nat /\ k <= Len(r)
    OBVIOUS
  <2>2. i = Len(p) => (Under(p, t) <=> Under(p, r)) /\ (Under(q, t) <=> Under(q, r))
    <3> SUFFICES ASSUME i = Len(p)
                 PROVE  (Under(p, t) <=> Under(p, r)) /\ (Under(q, t) <=> Under(q, r))
      OBVIOUS
    <3>1. Len(q) = i /\ i <= k /\ i <= Len(r) /\ \A j \in 1..i : t[j] = r[j]
      BY <1>1, <2>1 DEF Twins
    <3> QED
      BY <1>1, <3>1 DEF Under
  <2>3. t[i] = r[i]
    BY <1>1
  <2>4. SwapAt(p, q, t, i) = SwapAt(p, q, r, i)
    BY <2>2, <2>3 DEF SwapAt
  <2> QED
    BY <1>2, <1>3, <1>4, <2>1, <2>4
<1>6. u = v
  BY <1>3, <1>4, <1>5, SeqEqual
<1> QED
  BY <1>6 DEF u, v, t, s

\* What moves twice is where it was.
LEMMA SwappedTwice ==
  ASSUME NEW p, NEW q, Twins(p, q), NEW r \in Seq(Nat)
  PROVE  Swapped(p, q, Swapped(p, q, r)) = r
<1> DEFINE s == Swapped(p, q, r)
           t == Swapped(p, q, s)
           m == Len(p)
           n == Len(r)
<1>1. s \in Seq(Nat) /\ Len(s) = n /\ \A i \in 1..n : s[i] = SwapAt(p, q, r, i)
  BY SwappedIs
<1> HIDE DEF s
<1>2. t \in Seq(Nat) /\ Len(t) = n /\ \A i \in 1..n : t[i] = SwapAt(p, q, s, i)
  BY <1>1, SwappedIs
<1> HIDE DEF t
<1>3. m \in Nat \ {0} /\ Len(q) = m /\ n \in Nat /\ \A i \in 1..m - 1 : p[i] = q[i]
  BY DEF Twins
<1>4. \A i \in 1..n : i # m => s[i] = r[i] /\ t[i] = s[i]
  BY <1>1, <1>2 DEF SwapAt
<1>5. ASSUME m <= n PROVE t[m] = r[m]
  <2>1. m \in 1..n /\ s[m] = SwapAt(p, q, r, m) /\ t[m] = SwapAt(p, q, s, m)
    BY <1>1, <1>2, <1>3, <1>5
  <2>2. \A i \in 1..m - 1 : s[i] = r[i]
    BY <1>3, <1>4, <1>5
  <2>3. \A u : Under(u, r) /\ Len(u) = m => r[m] = u[m]
    BY <2>1 DEF Under
  <2>4. \A u : Under(u, s) /\ Len(u) = m => s[m] = u[m]
    BY <2>1 DEF Under
  <2>5. ASSUME NEW u, Len(u) = m, \A i \in 1..m - 1 : r[i] = u[i], s[m] = u[m]
        PROVE  Under(u, s)
    <3> SUFFICES ASSUME NEW i \in 1..m PROVE s[i] = u[i]
      BY <1>1, <1>5, <2>5 DEF Under
    <3> QED
      BY <1>3, <2>2, <2>5
  <2>6. CASE Under(p, r)
    <3>1. s[m] = q[m] /\ r[m] = p[m]
      BY <2>1, <2>3, <2>6 DEF SwapAt
    <3>2. \A i \in 1..m - 1 : r[i] = q[i]
      BY <1>3, <2>6 DEF Under
    <3>3. Under(q, s)
      BY <1>3, <2>5, <3>1, <3>2
    <3> QED
      BY <2>1, <2>4, <3>1, <3>3 DEF SwapAt
  <2>7. CASE ~Under(p, r) /\ Under(q, r)
    <3>1. s[m] = p[m] /\ r[m] = q[m]
      BY <1>3, <2>1, <2>3, <2>7 DEF SwapAt
    <3>2. \A i \in 1..m - 1 : r[i] = p[i]
      BY <1>3, <2>7 DEF Under
    <3>3. Under(p, s)
      BY <2>5, <3>1, <3>2
    <3> QED
      BY <2>1, <3>1, <3>3 DEF SwapAt
  <2>8. CASE ~Under(p, r) /\ ~Under(q, r)
    <3>1. s[m] = r[m]
      BY <2>1, <2>8 DEF SwapAt
    <3>2. \A i \in 1..m : s[i] = r[i]
      BY <1>3, <2>2, <3>1
    <3>3. ~Under(p, s) /\ ~Under(q, s)
      BY <1>1, <1>3, <2>8, <3>2 DEF Under
    <3> QED
      BY <2>1, <3>1, <3>3 DEF SwapAt
  <2> QED
    BY <2>6, <2>7, <2>8
<1>6. ASSUME NEW i \in 1..n PROVE t[i] = r[i]
  <2>1. CASE i = m
    <3>1. m <= n
      BY <1>3, <2>1
    <3> QED
      BY <1>5, <2>1, <3>1
  <2>2. CASE i # m
    BY <1>4, <2>2
  <2> QED
    BY <2>1, <2>2
<1>7. t = r
  BY <1>2, <1>6, SeqEqual
<1> QED
  BY <1>7 DEF t, s

\* A document, and two siblings of it that change places: no two of their siblings have
\* one name.
Swap(d, p, q) ==
  /\ d \in Docs /\ p \in DOMAIN d.nodes /\ q \in Siblings(d.nodes, p)
  /\ \A r, s \in Siblings(d.nodes, p) : d.nodes[r].name = d.nodes[s].name => r = s

\* Siblings differ in their last numbers.
LEMMA SwapIsOfTwins ==
  ASSUME NEW d, NEW p, NEW q, Swap(d, p, q)
  PROVE  Twins(p, q)
<1>1. p \in DOMAIN d.nodes /\ q \in DOMAIN d.nodes /\ d \in Docs /\ Len(q) = Len(p) /\ Front(q) = Front(p)
  BY DEF Swap, Siblings
<1>2. p \in Seq(Nat) /\ q \in Seq(Nat) /\ Len(p) \in Nat \ {0}
  BY <1>1, ParentIsThere
<1>3. /\ \A i \in 1..Len(p) - 1 : Front(p)[i] = p[i]
      /\ \A i \in 1..Len(q) - 1 : Front(q)[i] = q[i]
  <2>1. Len(p) > 0 /\ Len(q) > 0
    BY <1>1, <1>2
  <2>2. \A i \in 1..Len(p) - 1 : Front(p)[i] = p[i]
    BY ONLY <1>2, <2>1, FrontAndLast
  <2>3. \A i \in 1..Len(q) - 1 : Front(q)[i] = q[i]
    BY ONLY <1>2, <2>1, FrontAndLast
  <2> QED
    BY <2>2, <2>3
<1> QED
  BY <1>1, <1>2, <1>3 DEF Twins

\* What lies above a position moves as the position does.
LEMMA SwappedFront ==
  ASSUME NEW p, NEW q, Twins(p, q), NEW r \in Seq(Nat), Len(r) > 0
  PROVE  Front(Swapped(p, q, r)) = Swapped(p, q, Front(r))
<1>1. Len(r) - 1 \in 0..Len(r)
  OBVIOUS
<1>2. Len(Swapped(p, q, r)) = Len(r)
  BY SwappedIs
<1>3. Swapped(p, q, SubSeq(r, 1, Len(r) - 1)) = SubSeq(Swapped(p, q, r), 1, Len(r) - 1)
  BY <1>1, SwappedBeginning
<1> QED
  BY <1>2, <1>3 DEF Front

\* Every node moves with all that it has.
LEMMA ExchangedIs ==
  ASSUME NEW d, NEW p, NEW q, Swap(d, p, q)
  PROVE  /\ \A t \in DOMAIN Exchanged(d.nodes, p, q) :
              \E r \in DOMAIN d.nodes : t = Swapped(p, q, r)
         /\ \A r \in DOMAIN d.nodes : Swapped(p, q, r) \in DOMAIN Exchanged(d.nodes, p, q)
         /\ \A r \in DOMAIN d.nodes :
              Exchanged(d.nodes, p, q)[Swapped(p, q, r)] = d.nodes[r]
<1>1. Twins(p, q) /\ d \in Docs
  BY SwapIsOfTwins DEF Swap
<1>2. \A r \in DOMAIN d.nodes : Swapped(p, q, Swapped(p, q, r)) = r
  <2> TAKE r \in DOMAIN d.nodes
  <2>1. r \in Seq(Nat)
    BY <1>1, ParentIsThere
  <2> QED
    BY <1>1, <2>1, SwappedTwice
<1> QED
  BY <1>2 DEF Exchanged

\* Siblings stay siblings.
LEMMA ExchangedSiblings ==
  ASSUME NEW d, NEW p, NEW q, Swap(d, p, q), NEW r \in DOMAIN d.nodes
  PROVE  Siblings(Exchanged(d.nodes, p, q), Swapped(p, q, r)) =
           {Swapped(p, q, s) : s \in Siblings(d.nodes, r)}
<1> DEFINE x == d.nodes
           y == Exchanged(x, p, q)
           o(s) == Swapped(p, q, s)
<1>1. Twins(p, q) /\ d \in Docs
  BY SwapIsOfTwins DEF Swap
<1>2. (\A t \in DOMAIN y : \E s \in DOMAIN x : t = o(s)) /\ \A s \in DOMAIN x : o(s) \in DOMAIN y
  <2>1. \A t \in DOMAIN y : \E s \in DOMAIN x : t = o(s)
    BY ExchangedIs
  <2>2. \A s \in DOMAIN x : o(s) \in DOMAIN y
    BY ExchangedIs
  <2> QED
    BY <2>1, <2>2
<1>3. ASSUME NEW s \in DOMAIN x
      PROVE  /\ Len(s) \in Nat \ {0} /\ Len(o(s)) = Len(s)
             /\ Front(o(s)) = o(Front(s)) /\ o(o(Front(s))) = Front(s)
  <2>1. s \in Seq(Nat) /\ Len(s) \in Nat \ {0} /\ Front(s) \in Seq(Nat)
    BY <1>1, ParentIsThere
  <2>2. Len(s) > 0
    BY <2>1
  <2> QED
    BY <1>1, <2>1, <2>2, SwappedIs, SwappedFront, SwappedTwice
<1> HIDE DEF x, y, o
<1>4. ASSUME NEW s \in Siblings(x, r) PROVE o(s) \in Siblings(y, o(r))
  <2>1. s \in DOMAIN x /\ r \in DOMAIN x /\ Len(s) = Len(r) /\ Front(s) = Front(r)
    BY <1>4 DEF Siblings, x
  <2> QED
    BY <1>2, <1>3, <2>1 DEF Siblings
<1>5. ASSUME NEW t \in Siblings(y, o(r)) PROVE \E s \in Siblings(x, r) : t = o(s)
  <2>1. t \in DOMAIN y /\ Len(t) = Len(o(r)) /\ Front(t) = Front(o(r)) /\ r \in DOMAIN x
    BY <1>5 DEF Siblings, x
  <2>2. PICK s \in DOMAIN x : t = o(s)
    BY <1>2, <2>1
  <2>3. Len(s) = Len(r) /\ o(Front(s)) = o(Front(r))
    BY <1>3, <2>1, <2>2
  <2>4. Front(s) = Front(r)
    BY <1>3, <2>1, <2>3
  <2> QED
    BY <2>2, <2>3, <2>4 DEF Siblings
<1>6. Siblings(y, o(r)) = {o(s) : s \in Siblings(x, r)}
  BY <1>4, <1>5
<1> QED
  BY <1>6 DEF x, y, o

\* The last number of a position is another one only where names tell siblings apart.
LEMMA ExchangedEarlier ==
  ASSUME NEW d, NEW p, NEW q, Swap(d, p, q), NEW r \in DOMAIN d.nodes,
         NEW s \in Siblings(d.nodes, r)
  PROVE  Earlier(Exchanged(d.nodes, p, q), Swapped(p, q, s), Swapped(p, q, r))
           <=> Earlier(d.nodes, s, r)
<1> DEFINE x == d.nodes
           y == Exchanged(x, p, q)
           o(t) == Swapped(p, q, t)
<1>1. Twins(p, q) /\ d \in Docs
  BY SwapIsOfTwins DEF Swap
<1>2. /\ s \in DOMAIN x /\ Len(s) = Len(r) /\ Front(s) = Front(r)
      /\ p \in DOMAIN x /\ q \in DOMAIN x /\ Len(q) = Len(p) /\ Front(q) = Front(p)
  BY DEF Siblings, Swap
<1>3. y[o(s)] = x[s] /\ y[o(r)] = x[r]
  BY <1>2, ExchangedIs
<1>4. ASSUME NEW t \in DOMAIN x, t # p, t # q
      PROVE  Last(o(t)) = Last(t)
  <2>1. t \in Seq(Nat) /\ Len(t) \in Nat \ {0} /\ p \in Seq(Nat) /\ q \in Seq(Nat)
    BY <1>1, <1>2, ParentIsThere
  <2>2. Len(o(t)) = Len(t) /\ o(t)[Len(t)] = SwapAt(p, q, t, Len(t))
    <3>1. Len(t) \in 1..Len(t)
      BY <2>1
    <3> QED
      BY <1>1, <2>1, <3>1, SwappedIs
  <2>3. ASSUME NEW u \in Seq(Nat), Len(u) = Len(t), Under(u, t) PROVE u = t
    BY <2>1, <2>3, SeqEqual DEF Under
  <2>4. Len(t) = Len(p) => ~Under(p, t) /\ ~Under(q, t)
    BY <1>2, <1>4, <2>1, <2>3
  <2>5. SwapAt(p, q, t, Len(t)) = t[Len(t)]
    BY <2>4 DEF SwapAt
  <2> QED
    BY <2>2, <2>5 DEF Last
<1>5. ASSUME x[s].name = x[r].name
      PROVE  Last(o(s)) < Last(o(r)) <=> Last(s) < Last(r)
  <2>1. CASE s \in {p, q} \/ r \in {p, q}
    <3>1. Len(r) = Len(p) /\ Front(r) = Front(p)
      BY <1>2, <2>1
    <3>2. r \in Siblings(x, p) /\ s \in Siblings(x, p)
      BY <1>2, <3>1 DEF Siblings
    <3>3. s = r
      BY <1>5, <3>2 DEF Swap
    <3>4. Last(s) \in Nat
      <4>1. s \in Seq(Nat) /\ Len(s) > 0
        BY <1>1, <1>2, ParentIsThere
      <4> QED
        BY <4>1, FrontAndLast
    <3>5. Last(o(s)) \in Nat
      <4>1. s \in Seq(Nat) /\ Len(s) \in Nat \ {0}
        BY <1>1, <1>2, ParentIsThere
      <4>2. o(s) \in Seq(Nat) /\ Len(o(s)) > 0
        BY <1>1, <4>1, SwappedIs
      <4> QED
        BY <4>2, FrontAndLast
    <3> HIDE DEF o
    <3> QED
      BY <3>3, <3>4, <3>5
  <2>2. CASE s \notin {p, q} /\ r \notin {p, q}
    BY <1>2, <1>4, <2>2
  <2> QED
    BY <2>1, <2>2
<1> HIDE DEF x, y, o
<1>6. Earlier(y, o(s), o(r)) <=> Earlier(x, s, r)
  BY <1>3, <1>5 DEF Earlier
<1> QED
  BY <1>6 DEF x, y, o

\* So no place changes.
LEMMA ExchangedPlace ==
  ASSUME NEW d, NEW p, NEW q, Swap(d, p, q), NEW r \in DOMAIN d.nodes
  PROVE  Place(Exchanged(d.nodes, p, q), Swapped(p, q, r)) = Place(d.nodes, r)
<1> DEFINE x == d.nodes
           y == Exchanged(x, p, q)
           o(t) == Swapped(p, q, t)
           B == {s \in Siblings(x, r) : Earlier(x, s, r)}
           C == {t \in Siblings(y, o(r)) : Earlier(y, t, o(r))}
           f == [s \in B |-> o(s)]
<1>1. Twins(p, q) /\ d \in Docs
  BY SwapIsOfTwins DEF Swap
<1>2. IsFiniteSet(B)
  <2>1. B \in SUBSET DOMAIN x /\ IsFiniteSet(DOMAIN x)
    BY <1>1, DocsAssumption DEF Siblings
  <2> QED
    BY <2>1, FS_Subset
<1>3. \A s \in B : o(o(s)) = s
  <2> TAKE s \in B
  <2>1. s \in Seq(Nat)
    BY <1>1, ParentIsThere DEF Siblings
  <2> QED
    BY <1>1, <2>1, SwappedTwice
<1>4. Siblings(y, o(r)) = {o(s) : s \in Siblings(x, r)}
  BY ExchangedSiblings
<1>5. \A s \in Siblings(x, r) : Earlier(y, o(s), o(r)) <=> Earlier(x, s, r)
  BY ExchangedEarlier
<1> HIDE DEF x, y, o
<1>6. C = {o(s) : s \in B}
  BY <1>4, <1>5
<1> HIDE DEF B, C
<1>7. f \in [B -> C] /\ \A t \in C : \E s \in B : f[s] = t
  BY <1>6
<1>8. \A s, t \in B : f[s] = f[t] => s = t
  BY <1>3
<1> HIDE DEF f
<1>9. f \in Bijection(B, C)
  BY <1>7, <1>8 DEF Bijection, Injection, Surjection, IsInjective
<1>10. Cardinality(C) = Cardinality(B)
  BY <1>2, <1>9, FS_Bijection DEF ExistsBijection
<1>11. Place(x, r) = 1 + Cardinality(B) /\ Place(y, o(r)) = 1 + Cardinality(C)
  BY DEF Place, B, C, Earlier
<1>12. Place(y, o(r)) = Place(x, r)
  BY <1>10, <1>11
<1> QED
  BY <1>12 DEF x, y, o

\* Every node of the branch moves, and is what it was.
LEMMA ExchangedBranch ==
  ASSUME NEW d, NEW p, NEW q, Swap(d, p, q), NEW r \in DOMAIN d.nodes, NEW k \in 1..Len(r)
  PROVE  /\ SubSeq(Swapped(p, q, r), 1, k) = Swapped(p, q, SubSeq(r, 1, k))
         /\ SubSeq(r, 1, k) \in DOMAIN d.nodes
<1>1. Twins(p, q) /\ d \in Docs
  BY SwapIsOfTwins DEF Swap
<1>2. r \in Seq(Nat) /\ k \in 0..Len(r)
  BY <1>1, ParentIsThere
<1>3. SubSeq(r, 1, k) \in DOMAIN d.nodes
  BY <1>1, BranchIsThere
<1> QED
  BY <1>1, <1>2, <1>3, SwappedBeginning

\* And so every node comes to the position it came to before.
LEMMA ExchangedSorted ==
  ASSUME NEW d, NEW p, NEW q, Swap(d, p, q), NEW r \in DOMAIN d.nodes
  PROVE  Sorted(Exchanged(d.nodes, p, q), Swapped(p, q, r)) = Sorted(d.nodes, r)
<1> DEFINE x == d.nodes
           y == Exchanged(x, p, q)
           s == Swapped(p, q, r)
<1>1. Len(s) = Len(r)
  <2>1. Twins(p, q) /\ r \in Seq(Nat)
    BY SwapIsOfTwins, ParentIsThere DEF Swap
  <2> QED
    BY <2>1, SwappedIs
<1>2. \A k \in 1..Len(r) : Place(y, SubSeq(s, 1, k)) = Place(x, SubSeq(r, 1, k))
  <2> TAKE k \in 1..Len(r)
  <2>1. /\ SubSeq(s, 1, k) = Swapped(p, q, SubSeq(r, 1, k))
        /\ SubSeq(r, 1, k) \in DOMAIN x
    BY ExchangedBranch
  <2>2. Place(y, Swapped(p, q, SubSeq(r, 1, k))) = Place(x, SubSeq(r, 1, k))
    BY <2>1, ExchangedPlace
  <2> HIDE DEF x, y, s
  <2> QED
    BY <2>1, <2>2
<1> HIDE DEF x, y, s
<1>3. Sorted(y, s) = Sorted(x, r)
  BY <1>1, <1>2 DEF Sorted
<1> QED
  BY <1>3 DEF x, y, s

\* with what is kept of it.
LEMMA ExchangedNode ==
  ASSUME NEW d, NEW p, NEW q, Swap(d, p, q), NEW r \in DOMAIN d.nodes
  PROVE  BuildNode([d EXCEPT !.nodes = Exchanged(d.nodes, p, q)], Swapped(p, q, r)) =
           BuildNode(d, r)
<1> DEFINE x == d.nodes
           y == Exchanged(x, p, q)
           e == [d EXCEPT !.nodes = y]
           s == Swapped(p, q, r)
<1>1. e.nodes = y /\ e.name = d.name /\ e.path = d.path
  <2>1. d = [name |-> d.name, path |-> d.path, nodes |-> d.nodes]
    BY DocsAssumption DEF Swap
  <2> HIDE DEF y
  <2> QED
    BY <2>1
<1>2. BasePath(e) = BasePath(d)
  BY <1>1 DEF BasePath
<1>3. Len(s) = Len(r)
  <2>1. Twins(p, q) /\ r \in Seq(Nat)
    BY SwapIsOfTwins, ParentIsThere DEF Swap
  <2> QED
    BY <2>1, SwappedIs
<1>4. y[s] = x[r]
  BY ExchangedIs
<1>5. \A k \in 1..Len(r) : Branch(s)[k] = SubSeq(s, 1, k) /\ Branch(r)[k] = SubSeq(r, 1, k)
  BY <1>3 DEF Branch
<1>6. \A k \in 1..Len(r) : y[SubSeq(s, 1, k)] = x[SubSeq(r, 1, k)]
  <2> TAKE k \in 1..Len(r)
  <2>1. /\ SubSeq(s, 1, k) = Swapped(p, q, SubSeq(r, 1, k))
        /\ SubSeq(r, 1, k) \in DOMAIN x
    BY ExchangedBranch
  <2>2. y[Swapped(p, q, SubSeq(r, 1, k))] = x[SubSeq(r, 1, k)]
    BY <2>1, ExchangedIs
  <2> HIDE DEF x, y, s
  <2> QED
    BY <2>1, <2>2
<1> HIDE DEF y, e, s
<1>7. [k \in 1..Len(s) |-> <<Sep>> \o Segment(y[Branch(s)[k]])] =
      [k \in 1..Len(r) |-> <<Sep>> \o Segment(x[Branch(r)[k]])]
  BY <1>3, <1>5, <1>6
<1>8. BuildNode(e, s) = BuildNode(d, r)
  BY <1>1, <1>2, <1>4, <1>7 DEF BuildNode
<1> QED
  BY <1>8 DEF y, e, s

\* Two siblings that names tell apart change places, and the snapshot is the same.
LEMMA ExchangedParse ==
  ASSUME NEW d, NEW p, NEW q, Swap(d, p, q)
  PROVE  Parse([d EXCEPT !.nodes = Exchanged(d.nodes, p, q)]) = Parse(d)
<1> DEFINE x == d.nodes
           y == Exchanged(x, p, q)
           e == [d EXCEPT !.nodes = y]
           o(r) == Swapped(p, q, r)
           from(t) == CHOOSE r \in DOMAIN y : Sorted(y, r) = t
           N == Parse(d).nodes
<1>1. d \in Docs
  BY DEF Swap
<1>2. e.nodes = y /\ e.name = d.name /\ e.path = d.path
  <2>1. d = [name |-> d.name, path |-> d.path, nodes |-> d.nodes]
    BY DocsAssumption DEF Swap
  <2> HIDE DEF y
  <2> QED
    BY <2>1
<1>3. (\A t \in DOMAIN y : \E r \in DOMAIN x : t = o(r)) /\ \A r \in DOMAIN x : o(r) \in DOMAIN y
  <2>1. \A t \in DOMAIN y : \E r \in DOMAIN x : t = o(r)
    BY ExchangedIs
  <2>2. \A r \in DOMAIN x : o(r) \in DOMAIN y
    BY ExchangedIs
  <2> QED
    BY <2>1, <2>2
<1>4. \A r \in DOMAIN x : Sorted(y, o(r)) = Sorted(x, r)
  BY ExchangedSorted
<1>5. \A r \in DOMAIN x : BuildNode(e, o(r)) = BuildNode(d, r)
  BY ExchangedNode
<1>6. \A r \in DOMAIN x : N[Sorted(x, r)] = BuildNode(d, r)
  BY <1>1, ParsedNode
<1>7. DOMAIN N = {Sorted(x, r) : r \in DOMAIN x}
  BY DEF Parse
<1>8. \A r, t \in DOMAIN x : Sorted(x, r) = Sorted(x, t) => r = t
  BY <1>1, SortedTells DEF Positions
<1>9. N = [t \in DOMAIN N |-> N[t]]
  BY DEF Parse
<1>10. /\ Parse(d) = [name |-> d.name, path |-> d.path, nodes |-> N]
       /\ Parse(e) = [name |-> e.name, path |-> e.path,
                      nodes |-> [t \in {Sorted(e.nodes, r) : r \in DOMAIN e.nodes} |->
                        BuildNode(e, CHOOSE r \in DOMAIN e.nodes : Sorted(e.nodes, r) = t)]]
  BY DEF Parse
<1> HIDE DEF x, y, o, e, N
<1>11. {Sorted(y, r) : r \in DOMAIN y} = DOMAIN N
  BY <1>3, <1>4, <1>7
<1>12. ASSUME NEW t \in DOMAIN N PROVE BuildNode(e, from(t)) = N[t]
  <2>1. PICK r \in DOMAIN x : t = Sorted(x, r)
    BY <1>7
  <2>2. o(r) \in DOMAIN y /\ Sorted(y, o(r)) = t
    BY <1>3, <1>4, <2>1
  <2>3. from(t) \in DOMAIN y /\ Sorted(y, from(t)) = t
    BY <2>2, Zenon
  <2> HIDE DEF from
  <2>4. PICK u \in DOMAIN x : from(t) = o(u)
    BY <1>3, <2>3
  <2>5. u = r
    BY <1>4, <1>8, <2>1, <2>3, <2>4
  <2> QED
    BY <1>5, <1>6, <2>1, <2>4, <2>5
<1>13. [t \in DOMAIN N |-> BuildNode(e, from(t))] = N
  <2> HIDE DEF from
  <2> QED
    BY <1>9, <1>12
<1>14. Parse(e).nodes = N
  <2>1. Parse(e).nodes = [t \in {Sorted(y, r) : r \in DOMAIN y} |-> BuildNode(e, from(t))]
    BY <1>2, <1>10
  <2> HIDE DEF from
  <2> QED
    BY <1>11, <1>13, <2>1
<1>15. Parse(e) = [name |-> e.name, path |-> e.path, nodes |-> Parse(e).nodes]
  BY <1>10
<1> QED
  BY <1>2, <1>10, <1>14, <1>15 DEF e, y, x

\* The snapshot does not depend on the order in which Microsoft's file lists siblings of
\* different names (ddf.Parse, parse.go:41): an update that only reorders the file
\* changes no generated name.
THEOREM SiblingOrder == Spec => []SiblingOrderIrrelevant
<1>1. IInv /\ WalkInv => SiblingOrderIrrelevant
  <2> SUFFICES ASSUME WalkInv,
                      NEW p \in DOMAIN doc.nodes, NEW q \in Siblings(doc.nodes, p),
                      \A r, s \in Siblings(doc.nodes, p) :
                        doc.nodes[r].name = doc.nodes[s].name => r = s
               PROVE  Parse([doc EXCEPT !.nodes = Exchanged(doc.nodes, p, q)]) = csp
    BY DEF SiblingOrderIrrelevant
  <2>1. doc \in Docs /\ csp = Parse(doc)
    BY DEF WalkInv, Parsed
  <2>2. Swap(doc, p, q)
    BY <2>1 DEF Swap
  <2> QED
    BY <2>1, <2>2, ExchangedParse
<1> QED
  BY <1>1, WalkInvariant, PTL
=============================================================================
