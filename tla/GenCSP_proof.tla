---------------------------- MODULE GenCSP_proof ----------------------------
(***************************************************************************)
(* Proofs about GenCSP, for any snapshot trees, any number of runs and any *)
(* files written by hand: wherever a run is stopped, what is generated is  *)
(* of one set of snapshots, and a run that succeeds is complete.           *)
(***************************************************************************)
EXTENDS GenCSP, TLAPS

-----------------------------------------------------------------------------
(***************************************************************************)
(* The inductive invariant.                                                *)
(***************************************************************************)

Shape ==
  /\ DOMAIN out = Paths
  /\ tree.snapshots \in Trees
  /\ pc \in Ended \cup {"clear", "emit"}
  /\ open \in BOOLEAN /\ (open => pc = "emit")

\* A job has packages the trees know, each in a directory of its own.
Loaded ==
  pc \in {"clear", "emit", "ok"} =>
    /\ job = [release |-> job.release, pkgs |-> job.pkgs]
    /\ job.pkgs \subseteq AllSnapshots /\ job.pkgs # {} /\ DirsApart(job.pkgs)

\* Whatever is not due any more has been written, and the registry, which is the last,
\* is not begun before the service names are known to differ.
Progress ==
  pc = "emit" =>
    /\ todo \subseteq Targets(job) /\ Registry \in todo
    /\ \A p \in Targets(job) \ todo : out[p] = Rendered(job, p)
    /\ open /\ Due = Registry => ServicesApart(job.pkgs)

\* In the end everything has been written.
Written ==
  pc = "ok" =>
    /\ \A p \in Targets(job) : out[p] = Rendered(job, p)
    /\ ServicesApart(job.pkgs)

IInv == Shape /\ Loaded /\ Progress /\ Unmixed /\ Written

-----------------------------------------------------------------------------

\* The files of a job are among those there can be.
LEMMA TargetsArePaths ==
  ASSUME NEW j, j.pkgs \subseteq AllSnapshots
  PROVE  Targets(j) \subseteq Paths
  BY DEF Targets, Paths

\* The registry is always one of them.
LEMMA RegistryIsTarget ==
  ASSUME NEW j
  PROVE  Registry \in Targets(j)
  BY DEF Targets

\* While files are due, the next one is among them, and it is the registry only when
\* nothing else is due.
LEMMA DueIsDue ==
  ASSUME Registry \in todo
  PROVE  Due \in todo /\ (Due = Registry => todo = {Registry})
<1>1. \E p \in todo : p = Registry => todo = {Registry}
  OBVIOUS
<1> QED
  BY <1>1, Zenon DEF Due

\* A rendered file is none of the others.
LEMMA RenderedIsGen ==
  ASSUME NEW j, NEW p
  PROVE  /\ Rendered(j, p).kind = "gen"
         /\ Rendered(j, p) \notin {Absent, Torn, Hand}
  BY DEF Rendered, Gen, Absent, Torn, Hand

\* Before the first run there is nothing that was generated.
LEMMA InitIInv == Init => IInv
  BY DEF Init, IInv, Shape, Loaded, Progress, Unmixed, Written, Ended

\* Between two runs: another tree, or a file written by hand where there was none.
LEMMA WorldIInv == IInv /\ World => IInv'
<1> SUFFICES ASSUME IInv, World PROVE IInv'
  OBVIOUS
<1> USE DEF IInv
<1>1. CASE \E t \in Trees : Fetch(t)
  <2> PICK t \in Trees : Fetch(t)
    BY <1>1
  <2>1. PICK r \in {"", "one", "two"} : tree' = [release |-> r, snapshots |-> t]
    BY DEF Fetch
  <2>2. tree'.snapshots \in Trees /\ UNCHANGED <<out, pc, job, todo, open>>
    BY <2>1 DEF Fetch
  <2> QED
    BY <2>2 DEF Shape, Loaded, Progress, Unmixed, Written, Due, Generated
<1>2. CASE \E p \in Paths : WriteByHand(p)
  <2> PICK p \in Paths : WriteByHand(p)
    BY <1>2
  <2>1. /\ pc \in Ended /\ out[p] = Absent /\ out' = [out EXCEPT ![p] = Hand]
        /\ UNCHANGED <<tree, pc, job, todo, open>>
    BY DEF WriteByHand
  <2>2. Shape'
    BY <2>1 DEF Shape
  <2>3. Loaded'
    BY <2>1 DEF Loaded
  <2>4. Progress'
    BY <2>1 DEF Progress, Ended
  <2>5. Generated' \subseteq Generated /\ \A q \in Generated' : out'[q] = out[q]
    BY <2>1 DEF Generated, Shape, Hand
  <2>6. Unmixed'
    BY <2>1, <2>5 DEF Unmixed, Ended
  <2>7. Written'
    <3>1. \A q \in Paths : out[q] # Absent => out'[q] = out[q]
      BY <2>1 DEF Shape
    <3> QED
      BY <2>1, <3>1, RenderedIsGen, TargetsArePaths DEF Written, Loaded
  <2> QED
    BY <2>2, <2>3, <2>4, <2>6, <2>7
<1> QED
  BY <1>1, <1>2 DEF World

\* Clearing leaves nothing that was generated when the writing begins.
LEMMA ClearIInv == IInv /\ Clear => IInv'
<1> SUFFICES ASSUME IInv, Clear PROVE IInv'
  OBVIOUS
<1> USE DEF IInv
<1>1. pc = "clear" /\ UNCHANGED <<tree, job, open>>
  BY DEF Clear
<1>2. CASE Generated # {}
  <2>1. UNCHANGED <<pc, todo>> /\ \E q \in Paths : out' = [out EXCEPT ![q] = Absent]
    BY <1>2 DEF Clear, Generated
  <2> QED
    BY <1>1, <2>1 DEF Shape, Loaded, Progress, Unmixed, Written
<1>3. CASE Generated = {}
  <2>1. pc' = "emit" /\ todo' = Targets(job) /\ UNCHANGED out
    BY <1>3 DEF Clear
  <2>2. Targets(job)' = Targets(job) /\ Registry \in Targets(job)
    BY <1>1, RegistryIsTarget DEF Targets
  <2>3. Progress'
    <3>1. ~open'
      BY <1>1 DEF Shape
    <3> QED
      BY <1>1, <2>1, <2>2, <3>1 DEF Progress
  <2>4. Generated' = {}
    BY <1>3, <2>1 DEF Generated
  <2> QED
    BY <1>1, <2>1, <2>3, <2>4 DEF Shape, Loaded, Unmixed, Written
<1> QED
  BY <1>2, <1>3

\* A run that fails has no duties left.
LEMMA StopIInv == IInv /\ Stop => IInv'
  BY DEF IInv, Stop, Shape, Loaded, Progress, Unmixed, Written, Ended

\* A run that begins writes nothing yet.
LEMMA LoadIInv == IInv /\ Load => IInv'
<1> SUFFICES ASSUME IInv, Load PROVE IInv'
  OBVIOUS
<1> USE DEF IInv
<1> DEFINE pkgs == Packages(tree.snapshots)
<1>1. /\ \/ pc' = "failed"
         \/ /\ pc' = "clear" /\ job' = [release |-> tree.release, pkgs |-> pkgs]
            /\ pkgs # {} /\ DirsApart(pkgs)
      /\ pc \in Ended /\ UNCHANGED <<tree, out, todo, open>>
  BY DEF Load
<1>2. pkgs \subseteq AllSnapshots
  BY DEF Shape, Packages, AllSnapshots
<1>3. Shape'
  BY <1>1 DEF Shape, Ended
<1>4. Loaded'
  <2>1. pc' = "clear" => job' = [release |-> job'.release, pkgs |-> job'.pkgs] /\ job'.pkgs = pkgs
    BY <1>1
  <2> HIDE DEF pkgs
  <2> QED
    BY <1>1, <1>2, <2>1 DEF Loaded
<1> QED
  BY <1>1, <1>3, <1>4 DEF Progress, Unmixed, Written

\* Opening a file destroys only one that is due.
LEMMA EmptyIInv == IInv /\ Empty => IInv'
<1> SUFFICES ASSUME IInv, Empty PROVE IInv'
  OBVIOUS
<1> USE DEF IInv
<1>1. /\ pc = "emit" /\ (Due = Registry => ServicesApart(job.pkgs))
      /\ out' = [out EXCEPT ![Due] = Torn] /\ open'
      /\ UNCHANGED <<tree, pc, job, todo>>
  BY DEF Empty
<1>2. Due \in todo /\ Due' = Due
  BY <1>1, DueIsDue DEF Progress, Due
<1>3. \A p \in Paths \ {Due} : out'[p] = out[p]
  BY <1>1 DEF Shape
<1>4. Targets(job) \subseteq Paths
  BY <1>1, TargetsArePaths DEF Loaded
<1>5. Shape'
  BY <1>1, Zenon DEF Shape, Empty
<1>6. Loaded'
  BY <1>1 DEF Loaded
<1>7. Progress'
  <2>1. \A p \in Targets(job) \ todo : out'[p] = Rendered(job, p)
    BY <1>1, <1>2, <1>3, <1>4 DEF Progress
  <2> QED
    BY <1>1, <1>2, <2>1 DEF Progress
<1>8. Unmixed'
  <2>1. out'[Due] = Torn \/ Due \notin Paths
    BY <1>1 DEF Shape
  <2>2. \A p \in Generated' : p \in Generated /\ out'[p] = out[p]
    BY <1>3, <2>1 DEF Generated, Torn
  <2> QED
    BY <1>1, <2>2 DEF Unmixed
<1>9. Written'
  BY <1>1 DEF Written
<1> QED
  BY <1>5, <1>6, <1>7, <1>8, <1>9

\* Filling a file renders what belongs there.
LEMMA FillIInv == IInv /\ Fill => IInv'
<1> SUFFICES ASSUME IInv, Fill PROVE IInv'
  OBVIOUS
<1> USE DEF IInv
<1>1. /\ pc = "emit" /\ open /\ ~open'
      /\ out' = [out EXCEPT ![Due] = Rendered(job, Due)]
      /\ todo' = todo \ {Due}
      /\ pc' = IF todo' = {} THEN "ok" ELSE "emit"
      /\ UNCHANGED <<tree, job>>
  BY DEF Fill
<1>2. Due \in todo /\ (Due = Registry => todo = {Registry})
  BY <1>1, DueIsDue DEF Progress
<1>3. \A p \in Paths : out'[p] = IF p = Due THEN Rendered(job, p) ELSE out[p]
  BY <1>1 DEF Shape
<1>4. Targets(job) \subseteq Paths
  BY <1>1, TargetsArePaths DEF Loaded
<1>5. Shape'
  <2>1. DOMAIN out' = Paths
    BY <1>1 DEF Shape
  <2> QED
    BY <1>1, <2>1 DEF Shape, Ended, Fill
<1>6. Loaded'
  BY <1>1 DEF Loaded
<1>7. \A p \in Targets(job) \ todo' : out'[p] = Rendered(job, p)
  BY <1>1, <1>3, <1>4 DEF Progress
<1>8. Progress'
  BY <1>1, <1>2, <1>7 DEF Progress
<1>9. Unmixed'
  <2>1. \A p \in Generated' : p \in Targets(job) /\ out'[p] = Rendered(job, p)
    BY <1>1, <1>2, <1>3 DEF Generated, Unmixed, Progress
  <2> QED
    BY <1>1, <2>1 DEF Unmixed
<1>10. Written'
  <2>1. pc' = "ok" => todo' = {} /\ Due = Registry
    BY <1>1, <1>2 DEF Progress
  <2> QED
    BY <1>1, <1>7, <2>1 DEF Progress, Written
<1> QED
  BY <1>5, <1>6, <1>8, <1>9, <1>10

\* Along every behaviour: what is due, what is written and what it was rendered from.
THEOREM Invariance == Spec => []IInv
<1>1. IInv /\ [Next]_vars => IInv'
  <2> SUFFICES ASSUME IInv, [Next]_vars PROVE IInv'
    OBVIOUS
  <2>1. CASE World
    BY <2>1, WorldIInv
  <2>2. CASE Run
    BY <2>2, LoadIInv, ClearIInv, EmptyIInv, FillIInv, StopIInv DEF Run
  <2>3. CASE UNCHANGED vars
    BY <2>3 DEF vars, IInv, Shape, Loaded, Progress, Unmixed, Written, Due, Generated
  <2> QED
    BY <2>1, <2>2, <2>3 DEF Next
<1> QED
  BY <1>1, InitIInv, PTL DEF Spec

\* From the time a run writes, every generated file is of its snapshots and release,
\* also when it is stopped half way or an earlier run was (generator.go:37-42).
THEOREM NeverMixed == Spec => []Unmixed
<1>1. IInv => Unmixed
  BY DEF IInv
<1> QED
  BY <1>1, Invariance, PTL

\* A job that was loaded and written is complete.
LEMMA WrittenIsComplete ==
  ASSUME Loaded, Written
  PROVE  Complete
<1> SUFFICES ASSUME pc = "ok" PROVE Complete
  BY DEF Complete
<1> DEFINE listed == [release |-> out[Registry].release, pkgs |-> out[Registry].of]
<1>1. Registry \in Targets(job)
  BY RegistryIsTarget
<1>2. out[Registry] = Gen(job.release, job.pkgs)
  BY <1>1 DEF Written, Rendered, ReleaseIn, Registry
<1>3. listed.release = job.release /\ listed.pkgs = job.pkgs
  BY <1>2 DEF Gen
<1>4. ASSUME NEW s \in job.pkgs, NEW p \in PathsOf(s)
      PROVE  out[p] = Gen(ReleaseIn(job, p), {s})
  <2>1. p \in Targets(job) /\ p[1] = Dir(s)
    BY <1>4 DEF Targets, PathsOf
  <2>2. p # Registry
    BY <2>1 DEF Registry, Dir
  <2>3. {t \in job.pkgs : Dir(t) = p[1]} = {s}
    BY <2>1 DEF Loaded, DirsApart
  <2> QED
    BY <2>1, <2>2, <2>3 DEF Written, Rendered
<1>5. listed = job
  BY <1>3 DEF Loaded
<1> HIDE DEF listed
<1>6. /\ ServicesApart(listed.pkgs)
      /\ \A s \in listed.pkgs : \A p \in PathsOf(s) : out[p] = Gen(ReleaseIn(listed, p), {s})
  BY <1>4, <1>5 DEF Written
<1> QED
  BY <1>5, <1>6, Zenon DEF Complete, listed


\* A run that succeeds has written every file of every package and a registry of just
\* those packages, whatever it found below the output root (generator.go:28-53).
THEOREM CompleteWhenOk == Spec => []Complete
<1>1. IInv => Complete
  BY WrittenIsComplete DEF IInv
<1> QED
  BY <1>1, Invariance, PTL

-----------------------------------------------------------------------------
(***************************************************************************)
(* Types.                                                                  *)
(***************************************************************************)

\* What may lie at a path: of a package, only in the package's directory.
Fits(p, x) ==
  \/ x \in {Absent, Torn, Hand}
  \/ /\ x.kind = "gen" /\ x.of # {} /\ x.of \subseteq AllSnapshots
     /\ p # Registry => \E s \in x.of : x.of = {s} /\ Dir(s) = p[1]

\* A file replaced by what may lie there leaves a tree of its type.
LEMMA OutType ==
  ASSUME TypeOK, NEW q, NEW x, q \in Paths => Fits(q, x), out' = [out EXCEPT ![q] = x]
  PROVE  DOMAIN out' = Paths /\ \A p \in Paths : Fits(p, out'[p])
<1>1. DOMAIN out = Paths /\ \A p \in Paths : Fits(p, out[p])
  BY DEF TypeOK, Fits
<1> QED
  BY <1>1

\* What a job of packages in directories of their own renders fits where it is due.
LEMMA RenderedFits ==
  ASSUME NEW j, j.pkgs \subseteq AllSnapshots, j.pkgs # {}, DirsApart(j.pkgs),
         NEW p \in Targets(j)
  PROVE  Fits(p, Rendered(j, p))
<1>1. CASE p = Registry
  BY <1>1 DEF Rendered, Gen, Fits
<1>2. CASE p # Registry
  <2>1. PICK s \in j.pkgs : p \in PathsOf(s)
    BY <1>2 DEF Targets
  <2>2. p[1] = Dir(s)
    BY <2>1 DEF PathsOf
  <2>3. {t \in j.pkgs : Dir(t) = p[1]} = {s}
    BY <2>2 DEF DirsApart
  <2>4. Rendered(j, p) = Gen(ReleaseIn(j, p), {s})
    BY <1>2, <2>3 DEF Rendered
  <2>5. Rendered(j, p).kind = "gen" /\ Rendered(j, p).of = {s}
    BY <2>4 DEF Gen
  <2> QED
    BY <2>2, <2>5 DEF Fits
<1> QED
  BY <1>1, <1>2

\* Every step.
LEMMA NextTypes == TypeOK /\ IInv /\ [Next]_vars => TypeOK'
<1> SUFFICES ASSUME TypeOK, IInv, [Next]_vars PROVE TypeOK'
  OBVIOUS
<1> DEFINE Tree == DOMAIN out = Paths /\ \A p \in Paths : Fits(p, out[p])
<1>1. Tree
  BY DEF TypeOK, Fits
<1>2. Tree' /\ UNCHANGED <<tree, hands>> /\ pc' \in Ended \cup {"clear", "emit"}
        /\ todo' \subseteq Paths /\ open' \in BOOLEAN /\ runs' \in 0..MaxRuns => TypeOK'
  BY DEF TypeOK, Fits
<1> DEFINE Snaps == [release : {"", "one", "two"}, snapshots : Trees]
<1>3. ASSUME NEW t \in Trees, Fetch(t) PROVE TypeOK'
  <2>1. tree' \in Snaps
    <3>1. PICK r \in {"", "one", "two"} : tree' = [release |-> r, snapshots |-> t]
      BY <1>3 DEF Fetch
    <3> QED
      BY <3>1
  <2>2. UNCHANGED <<out, pc, todo, open, runs, hands>>
    BY <1>3 DEF Fetch
  <2> QED
    BY <2>1, <2>2 DEF TypeOK
<1>4. ASSUME NEW p \in Paths, WriteByHand(p) PROVE TypeOK'
  <2>1. Tree'
    BY <1>4, OutType DEF WriteByHand, Fits
  <2>2. hands' \in 0..MaxHand
    <3>1. hands \in 0..MaxHand
      BY Zenon DEF TypeOK
    <3>2. hands < MaxHand /\ hands' = hands + 1
      BY <1>4 DEF WriteByHand
    <3> QED
      BY <3>1, <3>2, BoundsAssumption
  <2> QED
    BY <1>4, <2>1, <2>2 DEF WriteByHand, TypeOK, Fits
<1>5. CASE Load
  <2>1. runs' \in 0..MaxRuns
    <3>1. runs \in 0..MaxRuns
      BY Zenon DEF TypeOK
    <3>2. runs < MaxRuns /\ runs' = runs + 1
      BY <1>5 DEF Load
    <3> QED
      BY <3>1, <3>2, BoundsAssumption
  <2>2. pc' \in Ended \cup {"clear", "emit"} /\ UNCHANGED <<tree, out, todo, open, hands>>
    BY <1>5 DEF Load, Ended
  <2> QED
    BY <2>1, <2>2 DEF TypeOK
<1>6. CASE Clear
  <2>1. UNCHANGED <<tree, job, open, runs, hands>> /\ pc = "clear"
    BY <1>6 DEF Clear
  <2>2. CASE Generated # {}
    <3>1. PICK q \in Paths : out' = [out EXCEPT ![q] = Absent]
      BY <1>6, <2>2 DEF Clear, Generated
    <3>2. Tree'
      BY <3>1, OutType DEF Fits
    <3>3. UNCHANGED <<pc, todo>>
      BY <1>6, <2>2 DEF Clear
    <3> HIDE DEF Tree
    <3> QED
      BY <1>2, <2>1, <3>2, <3>3 DEF TypeOK
  <2>3. CASE Generated = {}
    <3>1. pc' = "emit" /\ todo' = Targets(job) /\ UNCHANGED out
      BY <1>6, <2>3 DEF Clear
    <3>2. Targets(job) \subseteq Paths
      BY <2>1, TargetsArePaths DEF IInv, Loaded
    <3> QED
      BY <2>1, <3>1, <3>2 DEF TypeOK
  <2> QED
    BY <2>2, <2>3
<1>7. CASE Empty
  <2>1. Tree'
    BY <1>7, OutType DEF Empty, Fits
  <2>2. UNCHANGED <<tree, pc, todo, runs, hands>> /\ open' = TRUE
    BY <1>7 DEF Empty
  <2> HIDE DEF Tree
  <2> QED
    BY <1>2, <2>1, <2>2 DEF TypeOK
<1>8. CASE Fill
  <2>1. pc = "emit" /\ Due \in Targets(job)
    BY <1>8, DueIsDue DEF Fill, IInv, Progress
  <2>2. Fits(Due, Rendered(job, Due))
    BY <2>1, RenderedFits DEF IInv, Loaded
  <2>3. Tree'
    BY <1>8, <2>2, OutType DEF Fill
  <2>4. /\ UNCHANGED <<tree, runs, hands>> /\ open' = FALSE /\ todo' \subseteq todo
        /\ pc' \in {"ok", "emit"}
    BY <1>8 DEF Fill
  <2> HIDE DEF Tree
  <2> QED
    BY <1>2, <2>3, <2>4 DEF TypeOK, Ended
<1>9. CASE Stop \/ UNCHANGED vars
  BY <1>9 DEF Stop, vars, TypeOK, Ended
<1> QED
  BY <1>3, <1>4, <1>5, <1>6, <1>7, <1>8, <1>9 DEF Next, World, Run

\* Every variable keeps its type; in particular a file of a package is of that package
\* alone and lies in its directory, whatever run wrote it.
THEOREM TypeCorrect == Spec => []TypeOK
<1>1. Init => TypeOK
  <2>1. 0 \in 0..MaxRuns /\ 0 \in 0..MaxHand
    BY BoundsAssumption
  <2>2. Init => tree \in [release : {"", "one", "two"}, snapshots : Trees]
    BY DEF Init
  <2> QED
    BY <2>1, <2>2 DEF Init, TypeOK, Ended
<1> QED
  BY <1>1, NextTypes, Invariance, PTL DEF Spec

=============================================================================
