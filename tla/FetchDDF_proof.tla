--------------------------- MODULE FetchDDF_proof ---------------------------
(***************************************************************************)
(* Proofs about FetchDDF, for any zips, any behaviour of Microsoft's       *)
(* server, any flags, and any number of runs that may be stopped anywhere: *)
(* a run that succeeds leaves the mirror of its zip, and one that is given *)
(* a digest changes the tree only towards the mirror of that zip.          *)
(***************************************************************************)
EXTENDS FetchDDF, TLAPS

\* The files a run writes.
Wanted == SnapshotNames(job.zip) \cup {Prov}

-----------------------------------------------------------------------------
(***************************************************************************)
(* The inductive invariant.                                                *)
(***************************************************************************)

Shape ==
  /\ meta = [f \in Files |-> meta[f]]
  /\ pc \in Ended \cup {"acquire", "write", "prune"}
  /\ open \in BOOLEAN /\ (open => pc = "write")
  /\ {"want", "zip"} \subseteq DOMAIN job

\* What is written comes from a zip that parses and, where a digest was given, has it.
Verified ==
  pc \in {"write", "prune", "ok"} =>
    /\ job.zip \in Zips /\ Parses(job.zip)
    /\ job.want \in {<<>>, <<job.zip>>}

\* Whatever is not due any more has been written.
Progress ==
  /\ pc = "write" => todo \subseteq Wanted /\ Prov \in todo
  /\ pc \in {"write", "prune", "ok"} =>
       \A f \in Wanted : (pc = "write" /\ f \in todo) \/ meta[f] = ContentOf(job, f)
  /\ pc = "ok" => Stale = {}

IInv == Shape /\ Verified /\ Progress

-----------------------------------------------------------------------------

\* What a run writes is among the files there can be.
LEMMA WantedAreFiles ==
  ASSUME job.zip \in Zips
  PROVE  Wanted \subseteq Files /\ Prov \in Wanted
  BY DEF Wanted, Files

\* While files are due, the next one is among them.
LEMMA DueIsDue ==
  ASSUME Prov \in todo
  PROVE  Due \in todo /\ (Due = Prov => todo = {Prov})
<1>1. \E f \in todo : f = Prov => todo = {Prov}
  OBVIOUS
<1> QED
  BY <1>1, Zenon DEF Due

\* The snapshot of a root that has its name alone.
LEMMA ContentOfRoot ==
  ASSUME job.zip \in Zips, Parses(job.zip), NEW r \in Roots(job.zip)
  PROVE  LET f == RootName(job.zip, r)
         IN  f \in Wanted /\ f # Prov /\ ContentOf(job, f) = Snapshot(job.zip, r)
<1> DEFINE f == RootName(job.zip, r)
           named(x) == RootName(job.zip, x) = f
           c == CHOOSE x \in Roots(job.zip) : named(x)
<1>1. f \in SnapshotNames(job.zip)
  BY DEF SnapshotNames
<1>2. f \in Wanted /\ f # Prov
  BY <1>1, NamesAssumption DEF Wanted
<1>3. c \in Roots(job.zip) /\ RootName(job.zip, c) = f
  <2>1. named(r)
    OBVIOUS
  <2> QED
    BY <2>1, Zenon
<1>4. c = r
  BY <1>3 DEF Parses
<1>5. ContentOf(job, f) = Snapshot(job.zip, c)
  BY <1>2 DEF ContentOf
<1> QED
  BY <1>2, <1>4, <1>5

\* A repository before the first run has no snapshots, or those of the pin.
LEMMA InitIInv == Init => IInv
<1> SUFFICES ASSUME Init PROVE IInv
  OBVIOUS
<1>1. /\ pc = "idle" /\ ~open /\ open \in BOOLEAN
      /\ meta = [f \in Files |-> Absent] \/ meta = Mirror(PinnedJob(0))
  BY DEF Init
<1>2. meta = [f \in Files |-> meta[f]]
  BY <1>1 DEF Mirror
<1>3. {"want", "zip"} \subseteq DOMAIN job
  BY DEF Init, PinnedJob
<1>4. Shape
  BY <1>1, <1>2, <1>3 DEF Shape, Ended
<1> QED
  BY <1>1, <1>4 DEF IInv, Verified, Progress

\* The tree and the run are as before when only the world has changed.
LEMMA WorldIInv == IInv /\ World => IInv'
<1> SUFFICES ASSUME IInv, World PROVE IInv'
  OBVIOUS
<1>1. UNCHANGED <<meta, pc, job, todo, open>>
  BY DEF World, Link, Upload, NextDay
<1> QED
  BY <1>1 DEF IInv, Shape, Verified, Progress, Wanted, Stale

\* A run that begins has written nothing.
LEMMA BeginIInv ==
  ASSUME IInv, NEW f \in Flags, Begin(f)
  PROVE  IInv'
<1>1. pc' = "acquire" /\ pc \in Ended /\ UNCHANGED <<meta, todo, open>>
  BY DEF Begin
<1>2. {"want", "zip"} \subseteq DOMAIN job'
  BY DEF Begin
<1>3. Shape'
  BY <1>1, <1>2 DEF IInv, Shape, Ended
<1> QED
  BY <1>1, <1>3 DEF IInv, Verified, Progress

\* The digest is compared before anything is written.
LEMMA AcquireIInv ==
  ASSUME IInv, NEW z \in Zips, Acquire(z)
  PROVE  IInv'
<1>1. /\ pc = "acquire" /\ pc' = "write" /\ Parses(z)
      /\ todo' = SnapshotNames(z) \cup {Prov}
      /\ UNCHANGED <<meta, open>>
  BY DEF Acquire
<1>2. job' = [job EXCEPT !.zip = z] /\ job.want \in {<<>>, <<z>>}
  BY DEF Acquire
<1>3. job'.zip = z /\ job'.want = job.want
  BY <1>2 DEF IInv, Shape
<1>5. todo' = Wanted'
  BY <1>1, <1>3 DEF Wanted
<1>6. Verified'
  BY <1>1, <1>2, <1>3 DEF Verified
<1>7. Progress'
  <2>1. Prov \in todo'
    BY <1>1
  <2> QED
    BY <1>1, <1>5, <2>1 DEF Progress
<1>8. Shape'
  <2>1. {"want", "zip"} \subseteq DOMAIN job'
    BY <1>2 DEF IInv, Shape
  <2> QED
    BY <1>1, <2>1 DEF IInv, Shape
<1> QED
  BY <1>1, <1>6, <1>7, <1>8 DEF IInv

\* A run that is refused or stopped has written no more.
LEMMA EndIInv ==
  ASSUME IInv, Unreachable \/ Stop \/ \E z \in Zips : Reject(z)
  PROVE  IInv'
<1>1. pc' \in {"failed", "rejected"} /\ UNCHANGED <<meta, job>>
  BY DEF Unreachable, Stop, Reject
<1>2. open' = FALSE \/ (pc = "acquire" /\ open' = open)
  BY DEF Unreachable, Stop, Reject
<1>3. open' \in BOOLEAN /\ ~open'
  <2>1. CASE open' = FALSE
    BY <2>1
  <2>2. CASE pc = "acquire" /\ open' = open
    <3>1. pc # "write"
      BY <2>2
    <3> QED
      BY <2>2, <3>1, Zenon DEF IInv, Shape
  <2> QED
    BY <1>2, <2>1, <2>2
<1> QED
  BY <1>1, <1>3 DEF IInv, Shape, Verified, Progress, Ended

\* Opening a file destroys only one that is due.
LEMMA EmptyIInv ==
  ASSUME IInv, Empty
  PROVE  IInv'
<1>1. /\ pc = "write" /\ meta' = [meta EXCEPT ![Due] = Torn] /\ open' = TRUE
      /\ UNCHANGED <<pc, job, todo>>
  BY DEF Empty
<1>2. Due \in todo /\ \A f \in Files : meta'[f] = IF f = Due THEN Torn ELSE meta[f]
  BY <1>1, DueIsDue DEF IInv, Shape, Progress
<1>3. Shape'
  BY <1>1, Zenon DEF IInv, Shape
<1>4. Progress'
  BY <1>1, <1>2, WantedAreFiles DEF IInv, Progress, Verified, Wanted
<1> QED
  BY <1>1, <1>3, <1>4 DEF IInv, Verified

\* Filling a file puts there what belongs there.
LEMMA FillIInv ==
  ASSUME IInv, Fill
  PROVE  IInv'
<1>1. /\ pc = "write" /\ meta' = [meta EXCEPT ![Due] = ContentOf(job, Due)]
      /\ open' = FALSE /\ todo' = todo \ {Due}
      /\ pc' = IF todo' = {} THEN "prune" ELSE "write"
      /\ UNCHANGED job
  BY DEF Fill
<1>2. /\ Due \in todo /\ (Due = Prov => todo = {Prov})
      /\ \A f \in Files : meta'[f] = IF f = Due THEN ContentOf(job, f) ELSE meta[f]
  BY <1>1, DueIsDue DEF IInv, Shape, Progress
<1>3. Shape'
  <2>1. meta' = [f \in Files |-> meta'[f]]
    BY <1>1 DEF IInv, Shape
  <2>2. pc' \in {"prune", "write"} /\ open' \in BOOLEAN /\ ~open'
    BY <1>1
  <2> QED
    BY <1>1, <2>1, <2>2 DEF IInv, Shape
<1>4. Verified'
  BY <1>1 DEF IInv, Verified
<1>5. Progress'
  <2>1. Wanted \subseteq Files /\ Wanted' = Wanted
    BY <1>1, WantedAreFiles DEF IInv, Verified, Wanted
  <2>2. \A f \in Wanted : f \in todo' \/ meta'[f] = ContentOf(job, f)
    BY <1>1, <1>2, <2>1 DEF IInv, Progress
  <2>3. pc' = "write" => todo' \subseteq Wanted /\ Prov \in todo'
    BY <1>1, <1>2 DEF IInv, Progress
  <2> QED
    BY <1>1, <2>1, <2>2, <2>3 DEF Progress
<1> QED
  BY <1>3, <1>4, <1>5 DEF IInv

\* Only a file the run has not written is removed.
LEMMA PruneIInv ==
  ASSUME IInv, NEW f \in Files, PruneStale(f)
  PROVE  IInv'
<1>1. /\ pc = "prune" /\ f \in Stale /\ meta' = [meta EXCEPT ![f] = Absent]
      /\ UNCHANGED <<pc, job, todo, open>>
  BY DEF PruneStale
<1>2. f \notin Wanted
  BY <1>1 DEF Stale, Wanted
<1>3. \A g \in Files : g # f => meta'[g] = meta[g]
  BY <1>1 DEF IInv, Shape
<1>4. Wanted \subseteq Files /\ Prov \in Wanted /\ Wanted' = Wanted
  BY <1>1, WantedAreFiles DEF IInv, Verified, Wanted
<1>5. Shape'
  <2>1. meta' = [g \in Files |-> meta'[g]]
    BY <1>1 DEF IInv, Shape
  <2> QED
    BY <1>1, <2>1, Zenon DEF IInv, Shape
<1>6. Verified'
  BY <1>1 DEF IInv, Verified
<1>7. Progress'
  BY <1>1, <1>2, <1>3, <1>4 DEF IInv, Progress
<1> QED
  BY <1>5, <1>6, <1>7 DEF IInv

\* A run succeeds when nothing is stale.
LEMMA FinishIInv ==
  ASSUME IInv, Finish
  PROVE  IInv'
<1>1. pc = "prune" /\ pc' = "ok" /\ Stale = {} /\ UNCHANGED <<meta, job, todo, open>>
  BY DEF Finish
<1>2. Stale' = Stale /\ Wanted' = Wanted
  BY <1>1 DEF Stale, Wanted
<1> QED
  BY <1>1, <1>2 DEF IInv, Shape, Verified, Progress, Ended

\* Along every behaviour: what was checked, what is due and what has been written.
THEOREM Invariance == Spec => []IInv
<1>1. IInv /\ [Next]_vars => IInv'
  <2> SUFFICES ASSUME IInv, [Next]_vars PROVE IInv'
    OBVIOUS
  <2>1. CASE World
    BY <2>1, WorldIInv
  <2>2. CASE Run
    <3>1. CASE \E f \in Flags : Begin(f)
      BY <3>1, BeginIInv
    <3>2. CASE \E z \in Zips : Acquire(z)
      BY <3>2, AcquireIInv
    <3>3. CASE Unreachable \/ Stop \/ \E z \in Zips : Reject(z)
      BY <3>3, EndIInv
    <3>4. CASE Empty \/ Fill \/ Finish
      BY <3>4, EmptyIInv, FillIInv, FinishIInv
    <3>5. CASE \E f \in Files : PruneStale(f)
      BY <3>5, PruneIInv
    <3> QED
      BY <2>2, <3>1, <3>2, <3>3, <3>4, <3>5 DEF Run
  <2>3. CASE UNCHANGED vars
    BY <2>3 DEF vars, world, IInv, Shape, Verified, Progress, Wanted, Stale
  <2> QED
    BY <2>1, <2>2, <2>3 DEF Next
<1> QED
  BY <1>1, InitIInv, PTL DEF Spec

\* A run that succeeds leaves just the snapshots of its zip, one for every root, and
\* its provenance, whatever it found and wherever earlier runs were stopped
\* (main.go:97-131).
THEOREM MirrorLeft == Spec => []MirrorsZip
<1>1. IInv => MirrorsZip
  <2> SUFFICES ASSUME IInv, pc = "ok" PROVE MirrorsZip
    BY DEF MirrorsZip
  <2>1. /\ job.zip \in Zips /\ Parses(job.zip) /\ Wanted \subseteq Files
        /\ \A f \in Wanted : meta[f] = ContentOf(job, f)
    BY WantedAreFiles DEF IInv, Verified, Progress
  <2>2. \A f \in Files \ Wanted : meta[f] = Absent
    BY DEF IInv, Progress, Stale, Wanted
  <2>3. \A f \in Files : meta[f] = IF f \in Wanted THEN ContentOf(job, f) ELSE Absent
    BY <2>1, <2>2
  <2>4. meta = [f \in Files |-> IF f \in Wanted THEN ContentOf(job, f) ELSE Absent]
    BY <2>3 DEF IInv, Shape
  <2>5. meta = Mirror(job)
    BY <2>4 DEF Mirror, Wanted
  <2>6. \A r \in Roots(job.zip) : \E f \in Files : meta[f] = Snapshot(job.zip, r)
    BY <2>1, ContentOfRoot
  <2> QED
    BY <2>5, <2>6 DEF MirrorsZip
<1> QED
  BY <1>1, Invariance, PTL

-----------------------------------------------------------------------------
(***************************************************************************)
(* Types.                                                                  *)
(***************************************************************************)

\* What a run writes into a file of its own belongs there.
LEMMA ContentBelongs ==
  ASSUME NEW j \in Jobs, NEW f, f \in SnapshotNames(j.zip) \cup {Prov}
  PROVE  ContentOf(j, f) \in ContentsFor(f)
<1>1. CASE f = Prov
  <2>1. ContentOf(j, f) = Provenance(j)
    BY <1>1 DEF ContentOf
  <2>2. Provenance(j) \in Provenances
    BY DEF Provenance, Provenances, Jobs
  <2> QED
    BY <1>1, <2>1, <2>2 DEF ContentsFor
<1>2. CASE f # Prov
  <2> DEFINE named(x) == RootName(j.zip, x) = f
             c == CHOOSE r \in Roots(j.zip) : named(r)
  <2>1. \E r \in Roots(j.zip) : named(r)
    BY <1>2 DEF SnapshotNames
  <2>2. c \in Roots(j.zip) /\ RootName(j.zip, c) = f
    BY <2>1, Zenon
  <2>3. ContentOf(j, f) = Snapshot(j.zip, c)
    BY <1>2 DEF ContentOf
  <2>4. j.zip \in Zips
    BY DEF Jobs
  <2> HIDE DEF c
  <2> QED
    BY <2>2, <2>3, <2>4 DEF ContentsFor
<1> QED
  BY <1>1, <1>2

\* The run with the defaults.
LEMMA PinnedJobType ==
  ASSUME NEW day \in 0..MaxDays
  PROVE  PinnedJob(day) \in Jobs
BY PinAssumption DEF PinnedJob, Jobs, Releases, Urls

\* A file with something else in it that belongs there.
LEMMA MetaType ==
  ASSUME TypeOK, NEW f, NEW x, f \in Files => x \in ContentsFor(f),
         meta' = [meta EXCEPT ![f] = x]
  PROVE  DOMAIN meta' = Files /\ \A g \in Files : meta'[g] \in ContentsFor(g)
BY DEF TypeOK

\* At the start.
LEMMA InitTypes == Init => TypeOK
<1> SUFFICES ASSUME Init PROVE TypeOK
  OBVIOUS
<1>1. 0 \in 0..MaxDays /\ 0 \in 0..MaxRuns
  BY BoundsAssumption
<1>2. PinnedJob(0) \in Jobs
  BY <1>1, PinnedJobType
<1>3. DOMAIN meta = Files /\ \A f \in Files : meta[f] \in ContentsFor(f)
  <2>1. ASSUME NEW f \in Files PROVE Absent \in ContentsFor(f)
    BY DEF ContentsFor
  <2>2. CASE meta = [f \in Files |-> Absent]
    BY <2>1, <2>2
  <2>3. CASE meta = Mirror(PinnedJob(0))
    <3>1. ASSUME NEW f \in Files PROVE meta[f] \in ContentsFor(f)
      BY <1>2, <2>1, <2>3, ContentBelongs DEF Mirror
    <3> QED
      BY <2>3, <3>1 DEF Mirror
  <2> QED
    BY <2>2, <2>3 DEF Init
<1>4. link \in Urls
  BY PinAssumption DEF Init, Urls
<1> QED
  BY <1>1, <1>2, <1>3, <1>4 DEF Init, TypeOK, Ended

\* A run's flags come from the command line and the page.
LEMMA BeginTypes ==
  ASSUME TypeOK, NEW f \in Flags, Begin(f)
  PROVE  TypeOK'
<1> DEFINE new == f.discover /\ link # f.url
<1>1. job' \in Jobs
  <2>1. /\ f.url \in Urls /\ f.release \in Releases /\ f.local \in BOOLEAN
        /\ f.want \in {<<>>} \cup {<<z>> : z \in Zips}
        /\ f.fetched # <<>> => f.fetched[1] \in 0..MaxDays
    BY FlagsAssumption DEF Urls, Releases
  <2>2. link \in Urls /\ link \in Releases /\ today \in 0..MaxDays
    BY DEF TypeOK, Releases
  <2>3. job' = [release |-> IF new THEN link ELSE f.release,
                url     |-> IF new THEN link ELSE f.url,
                want    |-> IF new THEN <<>> ELSE f.want,
                local   |-> f.local,
                zip     |-> PinZip,
                fetched |-> IF f.fetched = <<>> THEN today ELSE f.fetched[1]]
    BY DEF Begin
  <2> QED
    BY <2>1, <2>2, <2>3, PinAssumption DEF Jobs
<1>2. runs' \in 0..MaxRuns
  BY BoundsAssumption DEF Begin, TypeOK
<1> QED
  BY <1>1, <1>2 DEF Begin, TypeOK

\* A run that has acquired a zip writes files.
LEMMA AcquireTypes ==
  ASSUME TypeOK, NEW z \in Zips, Acquire(z)
  PROVE  TypeOK'
<1>1. job' \in Jobs
  BY DEF Acquire, TypeOK, Jobs
<1>2. todo' \subseteq Files
  BY DEF Acquire, Files
<1> QED
  BY <1>1, <1>2 DEF Acquire, TypeOK

\* While a run writes, what is due is of its zip.
DueBelongs ==
  pc = "write" => todo \subseteq SnapshotNames(job.zip) \cup {Prov} /\ Prov \in todo

\* The files it writes keep what belongs in them.
LEMMA WriteTypes ==
  ASSUME TypeOK, DueBelongs, Empty \/ Fill
  PROVE  TypeOK'
<1>1. Due \in todo /\ todo \subseteq SnapshotNames(job.zip) \cup {Prov} /\ job \in Jobs
  BY DueIsDue DEF Empty, Fill, DueBelongs, TypeOK
<1>2. Torn \in ContentsFor(Due) /\ ContentOf(job, Due) \in ContentsFor(Due)
  BY <1>1, ContentBelongs DEF ContentsFor
<1>3. DOMAIN meta' = Files /\ \A g \in Files : meta'[g] \in ContentsFor(g)
  BY <1>2, MetaType DEF Empty, Fill
<1> QED
  BY <1>3 DEF Empty, Fill, TypeOK

\* The world keeps to the uploads there are.
LEMMA WorldTypes ==
  ASSUME TypeOK, World
  PROVE  TypeOK'
<1>1. ASSUME NEW u \in Urls, Link(u) PROVE TypeOK'
  BY <1>1 DEF Link, TypeOK
<1>2. ASSUME NEW u \in Urls, NEW z \in Zips, Upload(u, z) PROVE TypeOK'
  <2>1. served' \in [Urls -> Zips]
    BY <1>2 DEF Upload, TypeOK
  <2> QED
    BY <1>2, <2>1 DEF Upload, TypeOK
<1>3. CASE NextDay
  <2>1. today' \in 0..MaxDays
    BY <1>3, BoundsAssumption DEF NextDay, TypeOK
  <2> QED
    BY <1>3, <2>1 DEF NextDay, TypeOK
<1> QED
  BY <1>1, <1>2, <1>3 DEF World

\* Every step of a run.
LEMMA RunTypes ==
  ASSUME TypeOK, DueBelongs, Run
  PROVE  TypeOK'
<1>1. ASSUME NEW f \in Files, PruneStale(f) PROVE TypeOK'
  <2>1. Absent \in ContentsFor(f)
    BY DEF ContentsFor
  <2>2. DOMAIN meta' = Files /\ \A g \in Files : meta'[g] \in ContentsFor(g)
    BY <1>1, <2>1, MetaType DEF PruneStale
  <2> QED
    BY <1>1, <2>2 DEF PruneStale, TypeOK
<1>2. CASE Unreachable \/ Finish \/ Stop \/ \E z \in Zips : Reject(z)
  BY <1>2 DEF Unreachable, Finish, Stop, Reject, TypeOK, Ended
<1> QED
  BY <1>1, <1>2, BeginTypes, AcquireTypes, WriteTypes DEF Run

\* Every variable keeps its type; in particular a snapshot only ever lies under the name
\* of its root, and what the provenance records are the flags of a run.
THEOREM TypeCorrect == Spec => []TypeOK
<1>1. TypeOK /\ IInv /\ [Next]_vars => TypeOK'
  <2>1. IInv => DueBelongs
    BY DEF IInv, Progress, Wanted, DueBelongs
  <2>2. TypeOK /\ UNCHANGED vars => TypeOK'
    BY DEF vars, TypeOK
  <2> QED
    BY <2>1, <2>2, WorldTypes, RunTypes DEF Next
<1> QED
  BY <1>1, InitTypes, Invariance, PTL DEF Spec

-----------------------------------------------------------------------------
(***************************************************************************)
(* The digest.                                                             *)
(***************************************************************************)

\* What a run that was given a digest works towards.
LEMMA AskedIsMirrored ==
  ASSUME TypeOK, IInv, pc \in {"write", "prune"}, job.want # <<>>
  PROVE  Mirror([job EXCEPT !.zip = job.want[1]]) = Mirror(job)
<1>1. job.want[1] = job.zip
  BY DEF IInv, Verified
<1>2. [job EXCEPT !.zip = job.zip] = job
  BY DEF TypeOK, Jobs
<1> QED
  BY <1>1, <1>2

\* The steps that change the tree change one file, towards the mirror.
LEMMA TowardsMirror ==
  ASSUME TypeOK, IInv, Run, NEW f \in Files
  PROVE  /\ meta' # meta => pc \in {"write", "prune"}
         /\ \/ meta'[f] \in {meta[f], Mirror(job)[f]}
            \/ meta'[f] = Torn /\ Mirror(job)[f] # Absent
<1>1. CASE Empty \/ Fill
  <2>1. pc = "write" /\ Due \in Wanted
    BY <1>1, DueIsDue DEF Empty, Fill, IInv, Progress
  <2>2. Wanted \subseteq Files
    BY <2>1, WantedAreFiles DEF IInv, Verified
  <2>3. Mirror(job)[Due] = ContentOf(job, Due)
    BY <2>1, <2>2 DEF Mirror, Wanted
  <2>4. ContentOf(job, Due) # Absent
    BY DEF ContentOf, Provenance, Snapshot, Absent
  <2>5. \E c \in {Torn, ContentOf(job, Due)} : meta' = [meta EXCEPT ![Due] = c]
    BY <1>1 DEF Empty, Fill
  <2>6. f # Due => meta'[f] = meta[f]
    BY <2>5 DEF TypeOK
  <2>7. meta'[Due] \in {Torn, ContentOf(job, Due)}
    BY <2>1, <2>2, <2>5 DEF TypeOK
  <2> QED
    BY <2>1, <2>3, <2>4, <2>6, <2>7
<1>2. CASE \E g \in Files : PruneStale(g)
  <2>1. PICK g \in Files : PruneStale(g)
    BY <1>2
  <2>2. pc = "prune" /\ g \notin Wanted /\ meta' = [meta EXCEPT ![g] = Absent]
    BY <2>1 DEF PruneStale, Stale, Wanted
  <2>3. Mirror(job)[g] = Absent
    BY <2>2 DEF Mirror, Wanted
  <2>4. meta'[f] = IF f = g THEN Absent ELSE meta[f]
    BY <2>2 DEF TypeOK
  <2> QED
    BY <2>2, <2>3, <2>4
<1>3. CASE (\E g \in Flags : Begin(g)) \/ (\E z \in Zips : Acquire(z) \/ Reject(z))
            \/ Unreachable \/ Finish \/ Stop
  BY <1>3 DEF Begin, Acquire, Reject, Unreachable, Finish, Stop
<1> QED
  BY <1>1, <1>2, <1>3 DEF Run

\* A run that was given a digest changes the tree only towards the mirror of the zip with
\* that digest, whatever it is served and wherever it is stopped (main.go:85-87).
THEOREM DigestHolds == Spec => AskedZipOnly
<1>1. TypeOK /\ IInv /\ [Next]_vars => [job.want # <<>> /\ meta' # meta => TowardsAsked]_vars
  <2> SUFFICES ASSUME TypeOK, IInv, Next, job.want # <<>>, meta' # meta
               PROVE  TowardsAsked
    OBVIOUS
  <2>1. Run
    BY DEF Next, World, Link, Upload, NextDay
  <2>2. Prov \in Files
    BY DEF Files
  <2>3. Mirror([job EXCEPT !.zip = job.want[1]]) = Mirror(job)
    BY <2>1, <2>2, TowardsMirror, AskedIsMirrored
  <2> QED
    BY <2>1, <2>3, TowardsMirror DEF TowardsAsked
<1> QED
  BY <1>1, TypeCorrect, Invariance, PTL DEF Spec, AskedZipOnly

=============================================================================
