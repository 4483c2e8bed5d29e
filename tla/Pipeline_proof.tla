--------------------------- MODULE Pipeline_proof ---------------------------
(***************************************************************************)
(* Proof about Pipeline, for any zips, any descriptions of snapshots and   *)
(* any number of weeks: what is committed or offered is one whole zip with *)
(* the code that gencsp makes of it, the pinned zip where it claims the    *)
(* pinned URL, whichever step of whichever week has failed or been stopped. *)
(***************************************************************************)
EXTENDS Pipeline, TLAPS

-----------------------------------------------------------------------------
(***************************************************************************)
(* The inductive invariant.                                                *)
(***************************************************************************)

\* The files fetchddf writes, and the packages gencsp builds.
Wanted == F!SnapshotNames(fjob.zip) \cup {F!Prov}
Job(t) == [release |-> Found(t).release, pkgs |-> G!Packages(SnapshotsIn(t))]

\* What belongs into a file of the generated tree.
Proper(j, p) == IF p \in G!Targets(j) THEN G!Rendered(j, p) ELSE G!Absent

Shape ==
  /\ meta = [f \in F!Files |-> meta[f]]
  /\ out = [p \in G!Paths |-> out[p]]
  /\ step \in {"rest", "discover", "fetch", "generate"}
  /\ "zip" \in DOMAIN fjob

\* A zip is whole before anything of it is written, and whatever is not due any more
\* has been.
Fetching ==
  /\ fpc = "write" => ftodo \subseteq Wanted /\ F!Prov \in ftodo
  /\ fpc \in {"write", "prune", "ok"} =>
       /\ fjob.zip \in Zips /\ F!Parses(fjob.zip)
       /\ \A f \in Wanted : (fpc = "write" /\ f \in ftodo) \/ meta[f] = F!ContentOf(fjob, f)
  /\ fpc = "ok" => F!Stale = {}

\* gencsp starts on a tree that is committed, so without a torn file.
Clean == \A p \in G!Paths : out[p] = G!Absent \/ out[p].kind = "gen"

\* gencsp works on what fetchddf has left, and whatever is not due any more is proper.
Generating ==
  /\ step \in {"discover", "fetch"} => Clean
  /\ step = "generate" =>
       /\ fpc = "ok"
       /\ gpc \in {"clear", "emit", "ok"} => gjob = Job(meta)
       /\ gpc = "clear" => Clean
       /\ gpc = "emit" => gtodo \subseteq G!Targets(gjob) /\ G!Registry \in gtodo
       /\ gpc \in {"emit", "ok"} =>
            \A p \in G!Paths : (gpc = "emit" /\ p \in gtodo) \/ out[p] = Proper(gjob, p)

\* Beside what Reproducible says, a published tree has the snapshots of its zip where
\* fetchddf puts them, so two of the same provenance have the same snapshots.
Good(t) ==
  /\ Reproducible(t)
  /\ t.meta = [f \in F!Files |-> t.meta[f]]
  /\ \A f \in F!Files \ {F!Prov} : t.meta[f] = F!Mirror(t.meta[F!Prov])[f]

Publishing ==
  /\ pr = <<>> \/ (pr = <<pr[1]>> /\ Good(pr[1]))
  /\ Good(committed)

IInv == Shape /\ Fetching /\ Generating /\ Publishing

-----------------------------------------------------------------------------
(***************************************************************************)
(* The mirror of a zip.                                                    *)
(***************************************************************************)

\* A snapshot in a mirror is of a root of its zip.
LEMMA MirroredSnapshot ==
  ASSUME NEW j, NEW f \in F!Files, F!Mirror(j)[f].kind = "snapshot"
  PROVE  \E r \in F!Roots(j.zip) : F!Mirror(j)[f] = F!Snapshot(j.zip, r)
<1> DEFINE named(r) == F!RootName(j.zip, r) = f
           c == CHOOSE r \in F!Roots(j.zip) : named(r)
<1>1. f \in F!SnapshotNames(j.zip) \cup {F!Prov}
  BY DEF F!Mirror, F!Absent
<1>2. F!Mirror(j)[f] = F!ContentOf(j, f)
  BY <1>1 DEF F!Mirror
<1>3. f # F!Prov
  BY <1>2 DEF F!ContentOf, F!Provenance
<1>4. F!Mirror(j)[f] = F!Snapshot(j.zip, c)
  BY <1>2, <1>3 DEF F!ContentOf
<1>5. c \in F!Roots(j.zip)
  <2>1. \E r \in F!Roots(j.zip) : named(r)
    BY <1>1, <1>3 DEF F!SnapshotNames
  <2> QED
    BY <2>1, Zenon
<1> QED
  BY <1>4, <1>5

\* The snapshot of every root is in the mirror.
LEMMA MirroredRoot ==
  ASSUME NEW j, j.zip \in Zips, F!Parses(j.zip), NEW r \in F!Roots(j.zip)
  PROVE  \E f \in F!Files : F!Mirror(j)[f] = F!Snapshot(j.zip, r)
<1> DEFINE f == F!RootName(j.zip, r)
           named(x) == F!RootName(j.zip, x) = f
           c == CHOOSE x \in F!Roots(j.zip) : named(x)
<1>1. f \in F!SnapshotNames(j.zip)
  BY DEF F!SnapshotNames
<1>2. f \in F!Files /\ f # F!Prov
  BY <1>1, NamesAssumption DEF F!Files
<1>3. c \in F!Roots(j.zip) /\ F!RootName(j.zip, c) = f
  <2>1. named(r)
    OBVIOUS
  <2> QED
    BY <2>1, Zenon
<1>4. c = r
  BY <1>3 DEF F!Parses
<1>5. F!Mirror(j)[f] = F!Snapshot(j.zip, c)
  BY <1>1, <1>2 DEF F!Mirror, F!ContentOf
<1> QED
  BY <1>2, <1>4, <1>5

\* The snapshots in a mirror depend on the zip alone.
LEMMA MirrorIsOfItsZip ==
  ASSUME NEW i, NEW j, i.zip = j.zip
  PROVE  \A f \in F!Files \ {F!Prov} : F!Mirror(i)[f] = F!Mirror(j)[f]
  BY DEF F!Mirror, F!ContentOf

\* A mirror with the code of its snapshots is reproducible.
LEMMA MirrorIsGood ==
  ASSUME NEW j, j.zip \in Zips, F!Parses(j.zip),
         NEW t, t.meta = F!Mirror(j), t.out = Surface(t.meta)
  PROVE  Good(t)
<1> DEFINE m == F!Mirror(j)
<1>1. m[F!Prov] = F!Provenance(j) /\ F!Prov \in F!Files
  BY DEF F!Mirror, F!ContentOf, F!Files
<1>2. m[F!Prov].kind = "provenance" /\ m[F!Prov].zip = j.zip
  BY <1>1 DEF F!Provenance
<1>3. \A f \in F!Files : m[f] # F!Torn
  BY DEF F!Mirror, F!ContentOf, F!Provenance, F!Snapshot, F!Absent, F!Torn
<1>4. \A f \in F!Files : m[f].kind = "snapshot" => m[f].zip = j.zip
  <2> SUFFICES ASSUME NEW f \in F!Files, m[f].kind = "snapshot"
               PROVE  m[f].zip = j.zip
    OBVIOUS
  <2>1. PICK r \in F!Roots(j.zip) : m[f] = F!Snapshot(j.zip, r)
    BY MirroredSnapshot
  <2> QED
    BY <2>1 DEF F!Snapshot
<1>5. \A r \in F!Roots(j.zip) : \E f \in F!Files : m[f] = F!Snapshot(j.zip, r)
  BY MirroredRoot
<1>6. m = [f \in F!Files |-> m[f]]
  BY DEF F!Mirror
<1>7. \A f \in F!Files \ {F!Prov} : m[f] = F!Mirror(m[F!Prov])[f]
  BY <1>2, MirrorIsOfItsZip
<1> HIDE DEF m
<1> QED
  BY <1>2, <1>3, <1>4, <1>5, <1>6, <1>7 DEF Good, Reproducible, m

\* A run of fetchddf that has succeeded has left the mirror of its zip.
LEMMA OkIsMirror ==
  ASSUME Shape, Fetching, fpc = "ok"
  PROVE  meta = F!Mirror(fjob)
<1>1. \A f \in Wanted : meta[f] = F!ContentOf(fjob, f)
  BY DEF Fetching
<1>2. \A f \in F!Files \ Wanted : meta[f] = F!Absent
  BY DEF Fetching, F!Stale, Wanted
<1> QED
  BY <1>1, <1>2 DEF Shape, F!Mirror, Wanted

-----------------------------------------------------------------------------
(***************************************************************************)
(* The steps.                                                              *)
(***************************************************************************)

\* The repository starts with the mirror of the pinned zip.
LEMMA InitIInv == Init => IInv
<1> SUFFICES ASSUME Init PROVE IInv
  OBVIOUS
<1> DEFINE j == F!PinnedJob(0)
<1>1. /\ meta = F!Mirror(j) /\ out = Surface(meta) /\ step = "rest" /\ pr = <<>>
      /\ committed = [meta |-> meta, out |-> out]
  BY DEF Init
<1>2. fpc = "idle" /\ fjob = j
  BY DEF Init, F!Init
<1>3. j.zip = PinZip /\ "zip" \in DOMAIN j
  BY DEF F!PinnedJob
<1>4. meta = [f \in F!Files |-> meta[f]]
  BY <1>1 DEF F!Mirror
<1>5. out = [p \in G!Paths |-> out[p]]
  BY <1>1 DEF Surface
<1>6. Good(committed)
  <2>1. committed.meta = F!Mirror(j) /\ committed.out = Surface(committed.meta)
    BY <1>1
  <2> HIDE DEF j
  <2> QED
    BY <1>3, <2>1, PinAssumption, MirrorIsGood
<1> QED
  BY <1>1, <1>2, <1>3, <1>4, <1>5, <1>6 DEF IInv, Shape, Fetching, Generating, Publishing

\* The world touches nothing of the repository.
LEMMA WorldIInv == IInv /\ World => IInv'
<1> SUFFICES ASSUME IInv, World PROVE IInv'
  OBVIOUS
<1>1. UNCHANGED <<meta, fpc, fjob, ftodo, gen, step, committed, pr>>
  BY DEF World, F!World, F!Link, F!Upload, F!NextDay
<1> QED
  BY <1>1 DEF IInv, Shape, Fetching, Generating, Publishing, Clean, Wanted, F!Stale, gen

\* A checkout has no torn file.
LEMMA CheckoutIInv == IInv /\ Checkout => IInv'
<1> SUFFICES ASSUME IInv, Checkout PROVE IInv'
  OBVIOUS
<1>1. /\ meta' = committed.meta /\ out' = committed.out
      /\ fpc' = "idle" /\ step' = "discover"
      /\ UNCHANGED <<fjob, ftodo, committed, pr>>
  BY DEF Checkout
<1>2. meta' = [f \in F!Files |-> meta'[f]]
  BY <1>1 DEF IInv, Publishing, Good
<1>3. out' = Surface(committed.meta)
  BY <1>1 DEF IInv, Publishing, Good, Reproducible
<1>4. out' = [p \in G!Paths |-> out'[p]]
  BY <1>3 DEF Surface
<1>5. Clean'
  <2> SUFFICES ASSUME NEW p \in G!Paths
               PROVE  out'[p] = G!Absent \/ out'[p].kind = "gen"
    BY DEF Clean
  <2> QED
    BY <1>3 DEF Surface, G!Rendered, G!Gen
<1> QED
  BY <1>1, <1>2, <1>4, <1>5 DEF IInv, Shape, Fetching, Generating, Publishing

\* The steps of fetchddf, which no generated file depends on.
LEMMA FetchedShape ==
  ASSUME IInv, step' \in {"discover", "fetch"}, step \in {"discover", "fetch"},
         UNCHANGED <<gen, committed, pr>>, Fetching',
         meta' = [f \in F!Files |-> meta'[f]], "zip" \in DOMAIN fjob'
  PROVE  IInv'
<1>1. UNCHANGED out
  BY DEF gen
<1> QED
  BY <1>1 DEF IInv, Shape, Generating, Publishing, Clean

\* A run of fetchddf begins.
LEMMA DiscoverIInv == IInv /\ Discover => IInv'
<1> SUFFICES ASSUME IInv, Discover PROVE IInv'
  OBVIOUS
<1>1. /\ step = "discover" /\ step' = "fetch" /\ fpc' = "acquire"
      /\ UNCHANGED <<meta, gen, committed, pr>>
  BY DEF Discover, F!Begin
<1>2. "zip" \in DOMAIN fjob'
  BY DEF Discover, F!Begin
<1>3. Fetching'
  BY <1>1 DEF Fetching
<1> QED
  BY <1>1, <1>2, <1>3, FetchedShape DEF IInv, Shape

\* Nothing is written of a zip that does not parse.
LEMMA AcquireFetching ==
  ASSUME IInv, NEW z \in Zips, F!Acquire(z)
  PROVE  Fetching' /\ UNCHANGED meta /\ "zip" \in DOMAIN fjob'
<1>1. /\ fpc' = "write" /\ F!Parses(z) /\ ftodo' = F!SnapshotNames(z) \cup {F!Prov}
      /\ fjob' = [fjob EXCEPT !.zip = z] /\ UNCHANGED meta
  BY DEF F!Acquire
<1>2. fjob'.zip = z /\ "zip" \in DOMAIN fjob'
  BY <1>1 DEF IInv, Shape
<1>3. ftodo' = Wanted' /\ F!Prov \in ftodo'
  BY <1>1, <1>2 DEF Wanted
<1>4. Fetching'
  BY <1>1, <1>2, <1>3 DEF Fetching
<1> QED
  BY <1>1, <1>2, <1>4

\* While files are due, the next one is among them, and the provenance is the last.
LEMMA DueIsDue ==
  ASSUME F!Prov \in ftodo
  PROVE  F!Due \in ftodo /\ (F!Due = F!Prov => ftodo = {F!Prov})
<1>1. \E f \in ftodo : f = F!Prov => ftodo = {F!Prov}
  OBVIOUS
<1> QED
  BY <1>1, Zenon DEF F!Due

\* What fetchddf writes is among the files there can be.
LEMMA WantedAreFiles ==
  ASSUME fjob.zip \in Zips
  PROVE  Wanted \subseteq F!Files
  BY DEF Wanted, F!Files

\* Opening a file destroys only one that is due; filling it puts there what belongs
\* there.
LEMMA WriteFetching ==
  ASSUME IInv, F!Empty \/ F!Fill
  PROVE  Fetching' /\ UNCHANGED fjob /\ meta' = [f \in F!Files |-> meta'[f]]
<1>1. fpc = "write" /\ UNCHANGED fjob
  BY DEF F!Empty, F!Fill
<1>2. F!Due \in ftodo /\ (F!Due = F!Prov => ftodo = {F!Prov}) /\ ftodo \subseteq Wanted
  BY <1>1, DueIsDue DEF IInv, Fetching
<1>3. Wanted \subseteq F!Files /\ Wanted' = Wanted
  BY <1>1, WantedAreFiles DEF IInv, Fetching, Wanted
<1>4. \E c : meta' = [meta EXCEPT ![F!Due] = c]
  BY DEF F!Empty, F!Fill
<1>5. /\ meta' = [f \in F!Files |-> meta'[f]]
      /\ \A f \in F!Files \ {F!Due} : meta'[f] = meta[f]
  BY <1>4 DEF IInv, Shape
<1>6. CASE F!Empty
  <2>1. UNCHANGED <<fpc, ftodo>>
    BY <1>6 DEF F!Empty
  <2> QED
    BY <1>1, <1>2, <1>3, <1>5, <2>1 DEF IInv, Fetching
<1>7. CASE F!Fill
  <2>1. /\ ftodo' = ftodo \ {F!Due} /\ fpc' = IF ftodo' = {} THEN "prune" ELSE "write"
        /\ meta' = [meta EXCEPT ![F!Due] = F!ContentOf(fjob, F!Due)]
    BY <1>7 DEF F!Fill
  <2>2. meta'[F!Due] = F!ContentOf(fjob, F!Due)
    BY <1>2, <1>3, <2>1 DEF IInv, Shape
  <2>3. \A f \in Wanted : f \in ftodo' \/ meta'[f] = F!ContentOf(fjob, f)
    BY <1>1, <1>3, <1>5, <2>1, <2>2 DEF IInv, Fetching
  <2>4. fpc' = "write" => ftodo' \subseteq Wanted /\ F!Prov \in ftodo'
    BY <1>1, <1>2, <2>1 DEF IInv, Fetching
  <2> QED
    BY <1>1, <1>3, <1>5, <2>1, <2>3, <2>4 DEF IInv, Fetching
<1> QED
  BY <1>1, <1>5, <1>6, <1>7

\* Only a file the run has not written is removed.
LEMMA PruneFetching ==
  ASSUME IInv, NEW g \in F!Files, F!PruneStale(g)
  PROVE  Fetching' /\ UNCHANGED fjob /\ meta' = [f \in F!Files |-> meta'[f]]
<1>1. /\ fpc = "prune" /\ g \in F!Stale /\ meta' = [meta EXCEPT ![g] = F!Absent]
      /\ UNCHANGED <<fpc, fjob, ftodo>>
  BY DEF F!PruneStale
<1>2. g \notin Wanted /\ Wanted' = Wanted
  BY <1>1 DEF F!Stale, Wanted
<1>3. /\ meta' = [f \in F!Files |-> meta'[f]]
      /\ \A f \in F!Files \ {g} : meta'[f] = meta[f]
  BY <1>1 DEF IInv, Shape
<1>4. Wanted \subseteq F!Files
  BY <1>1, WantedAreFiles DEF IInv, Fetching
<1>5. Fetching'
  BY <1>1, <1>2, <1>3, <1>4 DEF IInv, Fetching
<1> QED
  BY <1>1, <1>3, <1>5

\* A run ends: with nothing stale, or with no promise.
LEMMA EndFetching ==
  ASSUME IInv, F!Finish \/ F!Unreachable \/ F!Stop \/ \E z \in Zips : F!Reject(z)
  PROVE  Fetching' /\ UNCHANGED <<fjob, meta>>
<1>1. CASE F!Finish
  <2>1. fpc = "prune" /\ fpc' = "ok" /\ F!Stale = {} /\ UNCHANGED <<meta, fjob, ftodo>>
    BY <1>1 DEF F!Finish
  <2>2. F!Stale' = F!Stale /\ Wanted' = Wanted
    BY <2>1 DEF F!Stale, Wanted
  <2> QED
    BY <2>1, <2>2 DEF IInv, Fetching
<1>2. CASE F!Unreachable \/ F!Stop \/ \E z \in Zips : F!Reject(z)
  <2>1. fpc' \in {"failed", "rejected"} /\ UNCHANGED <<meta, fjob>>
    BY <1>2 DEF F!Unreachable, F!Stop, F!Reject
  <2> QED
    BY <2>1 DEF Fetching
<1> QED
  BY <1>1, <1>2

\* A step of fetchddf.
LEMMA FetchIInv == IInv /\ Fetch => IInv'
<1> SUFFICES ASSUME IInv, Fetch PROVE IInv'
  OBVIOUS
<1>1. /\ step = "fetch" /\ fpc \notin F!Ended /\ F!Run
      /\ UNCHANGED <<gen, step, committed, pr>>
  BY DEF Fetch
<1>2. ~\E f \in {Update} : F!Begin(f)
  BY <1>1 DEF F!Begin
<1>3. /\ Fetching' /\ meta' = [f \in F!Files |-> meta'[f]]
      /\ "zip" \in DOMAIN fjob'
  <2>1. CASE \E z \in Zips : F!Acquire(z)
    BY <2>1, AcquireFetching DEF IInv, Shape
  <2>2. CASE F!Empty \/ F!Fill
    BY <2>2, WriteFetching DEF IInv, Shape
  <2>3. CASE \E f \in F!Files : F!PruneStale(f)
    BY <2>3, PruneFetching DEF IInv, Shape
  <2>4. CASE F!Finish \/ F!Unreachable \/ F!Stop \/ \E z \in Zips : F!Reject(z)
    BY <2>4, EndFetching DEF IInv, Shape
  <2> QED
    BY <1>1, <1>2, <2>1, <2>2, <2>3, <2>4 DEF F!Run
<1> QED
  BY <1>1, <1>3, FetchedShape

\* gencsp starts on the mirror that fetchddf has left.
LEMMA FetchedIInv == IInv /\ Fetched => IInv'
<1> SUFFICES ASSUME IInv, Fetched PROVE IInv'
  OBVIOUS
<1>1. /\ step = "fetch" /\ step' = "generate" /\ fpc = "ok"
      /\ UNCHANGED <<meta, fpc, fjob, ftodo, out, committed, pr>>
  BY DEF Fetched, G!Load, fetch
<1>2. (gpc' = "clear" /\ gjob' = Job(meta)) \/ gpc' = "failed"
  <2>1. Found(meta).snapshots = SnapshotsIn(meta)
    BY DEF Found
  <2> QED
    BY <2>1 DEF Fetched, G!Load, Job
<1>3. Job(meta)' = Job(meta) /\ F!Stale' = F!Stale /\ Wanted' = Wanted
  BY <1>1 DEF Job, SnapshotsIn, Found, F!Stale, Wanted
<1>4. Fetching'
  BY <1>1, <1>3 DEF IInv, Fetching
<1>5. Generating'
  <2>1. Clean'
    BY <1>1 DEF IInv, Generating, Clean
  <2> QED
    BY <1>1, <1>2, <1>3, <2>1 DEF Generating
<1> QED
  BY <1>1, <1>4, <1>5 DEF IInv, Shape, Publishing

\* A step of gencsp leaves the rest alone.
LEMMA GeneratedShape ==
  ASSUME IInv, Generate, out' = [p \in G!Paths |-> out'[p]], Generating'
  PROVE  IInv'
<1>1. UNCHANGED <<meta, fpc, fjob, ftodo, step, committed, pr>>
  BY DEF Generate, fetch
<1>2. F!Stale' = F!Stale /\ Wanted' = Wanted
  BY <1>1 DEF F!Stale, Wanted
<1> QED
  BY <1>1, <1>2 DEF IInv, Shape, Fetching, Publishing

\* While files are due, the next one is among them.
LEMMA DueIsDueToo ==
  ASSUME G!Registry \in gtodo
  PROVE  G!Due \in gtodo /\ (G!Due = G!Registry => gtodo = {G!Registry})
<1>1. \E p \in gtodo : p = G!Registry => gtodo = {G!Registry}
  OBVIOUS
<1> QED
  BY <1>1, Zenon DEF G!Due

\* Clearing a tree without torn files leaves nothing.
LEMMA ClearIInv ==
  ASSUME IInv, Generate, G!Clear
  PROVE  IInv'
<1>1. /\ gpc = "clear" /\ step = "generate" /\ step' = "generate"
      /\ UNCHANGED <<meta, fpc, gjob>>
  BY DEF Generate, G!Clear, fetch
<1>2. Job(meta)' = Job(meta)
  BY <1>1 DEF Job, SnapshotsIn, Found
<1>3. Clean /\ fpc = "ok" /\ gjob = Job(meta)
  BY <1>1 DEF IInv, Generating
<1>4. CASE G!Generated # {}
  <2>1. UNCHANGED gpc /\ \E q \in G!Paths : out' = [out EXCEPT ![q] = G!Absent]
    BY <1>4 DEF G!Clear, G!Generated
  <2>2. out' = [p \in G!Paths |-> out'[p]] /\ Clean'
    BY <1>3, <2>1 DEF IInv, Shape, Clean
  <2>3. Generating'
    BY <1>1, <1>2, <1>3, <2>1, <2>2 DEF Generating
  <2> QED
    BY <2>2, <2>3, GeneratedShape
<1>5. CASE G!Generated = {}
  <2>1. gpc' = "emit" /\ gtodo' = G!Targets(gjob) /\ UNCHANGED out
    BY <1>5 DEF G!Clear
  <2>2. \A p \in G!Paths : out[p] = G!Absent
    BY <1>3, <1>5 DEF G!Generated, Clean
  <2>3. G!Targets(gjob)' = G!Targets(gjob) /\ G!Registry \in G!Targets(gjob)
    BY <1>1 DEF G!Targets
  <2>4. \A p \in G!Paths : p \in gtodo' \/ out'[p] = Proper(gjob', p)
    BY <1>1, <2>1, <2>2 DEF Proper
  <2>5. Generating'
    BY <1>1, <1>2, <1>3, <2>1, <2>3, <2>4 DEF Generating
  <2>6. out' = [p \in G!Paths |-> out'[p]]
    BY <2>1 DEF IInv, Shape
  <2> QED
    BY <2>5, <2>6, GeneratedShape
<1> QED
  BY <1>4, <1>5

\* Opening a generated file destroys only one that is due; filling it renders what
\* belongs there.
LEMMA EmitIInv ==
  ASSUME IInv, Generate, G!Empty \/ G!Fill
  PROVE  IInv'
<1>1. /\ gpc = "emit" /\ step = "generate" /\ step' = "generate"
      /\ UNCHANGED <<meta, fpc, gjob>>
  BY DEF Generate, G!Empty, G!Fill, fetch
<1>2. Job(meta)' = Job(meta)
  BY <1>1 DEF Job, SnapshotsIn, Found
<1>3. /\ fpc = "ok" /\ gjob = Job(meta)
      /\ gtodo \subseteq G!Targets(gjob) /\ G!Registry \in gtodo
      /\ \A p \in G!Paths : p \in gtodo \/ out[p] = Proper(gjob, p)
  BY <1>1 DEF IInv, Generating
<1>4. G!Due \in gtodo /\ (G!Due = G!Registry => gtodo = {G!Registry})
  BY <1>3, DueIsDueToo
<1>5. \E c : out' = [out EXCEPT ![G!Due] = c]
  BY DEF G!Empty, G!Fill
<1>6. /\ out' = [p \in G!Paths |-> out'[p]]
      /\ \A p \in G!Paths \ {G!Due} : out'[p] = out[p]
  BY <1>5 DEF IInv, Shape
<1>7. CASE G!Empty
  <2>1. UNCHANGED <<gpc, gtodo>>
    BY <1>7 DEF G!Empty
  <2>2. \A p \in G!Paths : p \in gtodo \/ out'[p] = Proper(gjob, p)
    BY <1>3, <1>4, <1>6
  <2>3. Generating'
    BY <1>1, <1>2, <1>3, <2>1, <2>2 DEF Generating
  <2> QED
    BY <1>6, <2>3, GeneratedShape
<1>8. CASE G!Fill
  <2>1. /\ gtodo' = gtodo \ {G!Due} /\ gpc' = IF gtodo' = {} THEN "ok" ELSE "emit"
        /\ out' = [out EXCEPT ![G!Due] = G!Rendered(gjob, G!Due)]
    BY <1>8 DEF G!Fill
  <2>2. G!Due \in G!Paths => out'[G!Due] = Proper(gjob, G!Due)
    BY <1>3, <1>4, <2>1 DEF IInv, Shape, Proper
  <2>3. \A p \in G!Paths : p \in gtodo' \/ out'[p] = Proper(gjob, p)
    BY <1>3, <1>6, <2>1, <2>2
  <2>4. gpc' = "emit" => gtodo' \subseteq G!Targets(gjob) /\ G!Registry \in gtodo'
    BY <1>3, <1>4, <2>1
  <2>5. Generating'
    BY <1>1, <1>2, <1>3, <2>1, <2>3, <2>4 DEF Generating
  <2> QED
    BY <1>6, <2>5, GeneratedShape
<1> QED
  BY <1>7, <1>8

\* A step of gencsp.
LEMMA GenerateIInv == IInv /\ Generate => IInv'
<1> SUFFICES ASSUME IInv, Generate PROVE IInv'
  OBVIOUS
<1>1. gpc \notin G!Ended /\ G!Run
  BY DEF Generate
<1>2. ~G!Load
  BY <1>1 DEF G!Load
<1>3. CASE G!Stop
  <2>1. /\ step = "generate" /\ step' = "generate" /\ gpc' = "failed"
        /\ UNCHANGED <<out, fpc>>
    BY <1>3 DEF Generate, G!Stop, fetch
  <2>2. Generating'
    BY <2>1 DEF IInv, Generating
  <2> QED
    BY <2>1, <2>2, GeneratedShape DEF IInv, Shape
<1> QED
  BY <1>1, <1>2, <1>3, ClearIInv, EmitIInv DEF G!Run

\* What is offered is the mirror of a zip with the code of its snapshots.
LEMMA GeneratedIInv == IInv /\ Generated => IInv'
<1> SUFFICES ASSUME IInv, Generated PROVE IInv'
  OBVIOUS
<1>1. /\ step = "generate" /\ gpc = "ok" /\ step' = "rest"
      /\ pr' = (IF Differs THEN <<Here>> ELSE pr)
      /\ UNCHANGED <<meta, fpc, fjob, ftodo, out, committed>>
  BY DEF Generated, fetch, gen
<1>2. /\ fpc = "ok" /\ gjob = Job(meta)
      /\ \A p \in G!Paths : out[p] = Proper(gjob, p)
  BY <1>1 DEF IInv, Generating
<1>3. meta = F!Mirror(fjob) /\ fjob.zip \in Zips /\ F!Parses(fjob.zip)
  BY <1>2, OkIsMirror DEF IInv, Fetching
<1>4. out = Surface(meta)
  BY <1>2 DEF IInv, Shape, Surface, Proper, Job
<1>5. Good(Here)
  <2>1. Here.meta = meta /\ Here.out = out
    BY DEF Here
  <2> QED
    BY <1>3, <1>4, <2>1, MirrorIsGood
<1>6. Publishing'
  BY <1>1, <1>5 DEF IInv, Publishing
<1>7. F!Stale' = F!Stale /\ Wanted' = Wanted
  BY <1>1 DEF F!Stale, Wanted
<1> QED
  BY <1>1, <1>6, <1>7 DEF IInv, Shape, Fetching, Generating

\* A step that fails, and a merge, publish nothing that was not offered.
LEMMA RestIInv == IInv /\ (Fails \/ Merge) => IInv'
<1> SUFFICES ASSUME IInv, Fails \/ Merge PROVE IInv'
  OBVIOUS
<1>1. UNCHANGED <<meta, fpc, fjob, ftodo, gen>>
  BY DEF Fails, Merge, fetch
<1>2. /\ F!Stale' = F!Stale /\ Wanted' = Wanted /\ Job(meta)' = Job(meta)
      /\ Clean' = Clean
  BY <1>1 DEF F!Stale, Wanted, Job, SnapshotsIn, Found, Clean, gen
<1>3. step' = "rest" \/ UNCHANGED step
  BY DEF Fails, Merge
<1>4. Publishing'
  <2>1. CASE Fails
    BY <2>1 DEF Fails, IInv, Publishing
  <2>2. CASE Merge
    BY <2>2 DEF Merge, IInv, Publishing
  <2> QED
    BY <2>1, <2>2
<1> QED
  BY <1>1, <1>2, <1>3, <1>4 DEF IInv, Shape, Fetching, Generating, gen

-----------------------------------------------------------------------------
(***************************************************************************)
(* The theorems.                                                           *)
(***************************************************************************)

\* Along every behaviour: the mirror under way, the surface under way, and what has
\* been published.
THEOREM Invariance == Spec => []IInv
<1>1. IInv /\ [Next]_vars => IInv'
  <2> SUFFICES ASSUME IInv, [Next]_vars PROVE IInv'
    OBVIOUS
  <2>1. CASE Next
    BY <2>1, WorldIInv, CheckoutIInv, DiscoverIInv, FetchIInv, FetchedIInv, GenerateIInv,
       GeneratedIInv, RestIInv DEF Next
  <2>2. CASE UNCHANGED vars
    <3>1. UNCHANGED <<meta, fpc, fjob, ftodo, out, gpc, gjob, gtodo, step, committed, pr>>
      BY <2>2 DEF vars, fetch, gen
    <3> QED
      BY <3>1 DEF IInv, Shape, Fetching, Generating, Publishing, Clean, Wanted, Job,
         SnapshotsIn, Found, F!Stale
  <2> QED
    BY <2>1, <2>2
<1> QED
  BY <1>1, InitIInv, PTL DEF Spec

\* No pull request and no commit holds a half-fetched tree or generated code of other
\* snapshots, whatever has failed in any week (ddf-update.yml:30-69).
THEOREM PublishedIsReproducible == Spec => []AlwaysReproducible
<1>1. IInv => AlwaysReproducible
  BY DEF IInv, Publishing, Good, AlwaysReproducible
<1> QED
  BY <1>1, Invariance, PTL

\* Two trees of which one is a mirror have the same snapshots when their provenance has
\* the same zip.
LEMMA SameZipSameSnapshots ==
  ASSUME NEW j, meta = F!Mirror(j), NEW t, Good(t), t.meta[F!Prov].zip = j.zip
  PROVE  SnapshotsIn(meta) = SnapshotsIn(t.meta)
<1>1. \A f \in F!Files \ {F!Prov} : meta[f] = t.meta[f]
  BY MirrorIsOfItsZip DEF Good
<1>2. meta[F!Prov].kind # "snapshot" /\ t.meta[F!Prov].kind # "snapshot"
  BY DEF F!Mirror, F!Files, F!ContentOf, F!Provenance, Good, Reproducible
<1>3. \A f \in F!Files : meta[f].kind = "snapshot" <=> t.meta[f].kind = "snapshot"
  BY <1>1, <1>2
<1>4. \A f \in F!Files : meta[f].kind = "snapshot" => meta[f] = t.meta[f]
  BY <1>1, <1>2
<1> QED
  BY <1>3, <1>4 DEF SnapshotsIn

\* A drop that the workflow has taken in whole is offered (ddf-update.yml:41-48): its new
\* files are not tracked, but the provenance is, and it names another zip.
THEOREM DropsAreSeen == Spec => []NewDropIsSeen
<1>1. IInv => NewDropIsSeen
  <2> SUFFICES ASSUME IInv, step = "generate", gpc = "ok",
                      SnapshotsIn(meta) # SnapshotsIn(committed.meta)
               PROVE  Differs
    BY DEF NewDropIsSeen
  <2> DEFINE old == committed.meta[F!Prov]
  <2>1. meta = F!Mirror(fjob)
    BY OkIsMirror DEF IInv, Generating
  <2>2. Good(committed)
    BY DEF IInv, Publishing
  <2>3. old.zip # fjob.zip
    BY <2>1, <2>2, SameZipSameSnapshots
  <2>4. F!Prov \in F!Files /\ meta[F!Prov] = F!Provenance(fjob)
    BY <2>1 DEF F!Mirror, F!Files, F!ContentOf
  <2>5. old # F!Absent /\ Bytes(old) = old
    BY <2>2 DEF Good, Reproducible, F!Absent, Bytes
  <2>6. Bytes(meta[F!Prov]) # Bytes(old)
    BY <2>3, <2>4, <2>5 DEF F!Provenance, Bytes
  <2> QED
    BY <2>4, <2>5, <2>6 DEF Differs, ChangedFiles, Here
<1> QED
  BY <1>1, Invariance, PTL

-----------------------------------------------------------------------------
(***************************************************************************)
(* Types.                                                                  *)
(***************************************************************************)

P == INSTANCE FetchDDF_proof WITH
       Flags <- {Update}, pc <- fpc, job <- fjob, todo <- ftodo, open <- fopen, runs <- fruns

\* What lies in a published tree belongs there.
Typed(t) == \A f \in F!Files : t.meta[f] \in F!ContentsFor(f)

TypedTrees == Typed(committed) /\ (pr # <<>> => Typed(pr[1]))

\* What is assumed of the workflow's world is what is assumed of fetchddf's.
LEMMA SameWorld ==
  /\ PinZip \in Zips /\ <<PinUrl, PinZip>> \in Uploads
  /\ Uploads \subseteq {u[1] : u \in Uploads} \X Zips
  /\ DOMAIN Entries = Zips
  /\ MaxRuns \in Nat /\ MaxDays \in Nat
  /\ \A f \in {Update} :
       /\ f.url \in {u[1] : u \in Uploads}
       /\ f.want \in {<<>>} \cup {<<z>> : z \in Zips}
       /\ f.fetched \in {<<>>} \cup {<<day>> : day \in 0..MaxDays}
       /\ f.discover \in BOOLEAN
       /\ f.local \in BOOLEAN
  /\ \A z \in Zips : P!Prov \notin P!SnapshotNames(z)
<1>1. \A z \in Zips : F!Prov \notin F!SnapshotNames(z)
  BY NamesAssumption
<1>2. \A z \in Zips : P!Prov \notin P!SnapshotNames(z)
  BY <1>1 DEF F!Prov, P!Prov, F!Roots, P!Roots, F!RootName, P!RootName, F!NameOf, P!NameOf,
     F!ScopedName, P!ScopedName, F!SnapshotName, P!SnapshotName, F!SnapshotNames, P!SnapshotNames
<1>3. /\ Update.url \in {u[1] : u \in Uploads} /\ Update.want \in {<<z>> : z \in Zips}
      /\ Update.fetched = <<>> /\ Update.discover \in BOOLEAN /\ Update.local \in BOOLEAN
  BY PinAssumption DEF Update
<1> QED
  BY <1>2, <1>3, PinAssumption, UploadsAssumption, EntriesAssumption, BoundsAssumption

\* Types are the same, whether stated of fetchddf or of what is proved of it.
LEMMA SameTypes == F!TypeOK <=> P!TypeOK
BY DEF F!TypeOK, P!TypeOK, F!Urls, P!Urls, F!Files, P!Files, F!Jobs, P!Jobs, F!Releases, P!Releases, F!Provenances, P!Provenances,
       F!Ended, P!Ended,
       F!ContentsFor, P!ContentsFor, F!Provenance, P!Provenance, F!Snapshot, P!Snapshot,
       F!Absent, P!Absent, F!Torn, P!Torn, F!Prov, P!Prov, F!Roots, P!Roots,
       F!RootName, P!RootName, F!NameOf, P!NameOf, F!ScopedName, P!ScopedName,
       F!SnapshotName, P!SnapshotName, F!SnapshotNames, P!SnapshotNames

\* So are the steps of the world.
LEMMA SameWorldStep == F!World <=> P!World
BY DEF F!World, P!World, F!Link, P!Link, F!Upload, P!Upload, F!NextDay, P!NextDay, F!Urls, P!Urls

\* The steps of a run are the same ones, too.
LEMMA SameRun == F!Run <=> P!Run
BY DEF F!Run, P!Run, F!Files, P!Files, F!Ended, P!Ended,
       F!Begin, P!Begin, F!Acquire, P!Acquire, F!Reject, P!Reject, F!Unreachable, P!Unreachable,
       F!Empty, P!Empty, F!Fill, P!Fill, F!Finish, P!Finish, F!Stop, P!Stop,
       F!PruneStale, P!PruneStale, F!Stale, P!Stale, F!Due, P!Due, F!Parses, P!Parses,
       F!Available, P!Available, F!ContentOf, P!ContentOf,
       F!Provenance, P!Provenance, F!Snapshot, P!Snapshot,
       F!Absent, P!Absent, F!Torn, P!Torn, F!Prov, P!Prov, F!Roots, P!Roots,
       F!RootName, P!RootName, F!NameOf, P!NameOf, F!ScopedName, P!ScopedName,
       F!SnapshotName, P!SnapshotName, F!SnapshotNames, P!SnapshotNames

\* What is due is of the zip that fetchddf has acquired.
LEMMA DueBelongs == Fetching => P!DueBelongs
BY DEF Fetching, Wanted, P!DueBelongs, F!Prov, P!Prov, F!Roots, P!Roots,
       F!RootName, P!RootName, F!NameOf, P!NameOf, F!ScopedName, P!ScopedName,
       F!SnapshotName, P!SnapshotName, F!SnapshotNames, P!SnapshotNames

\* The world and fetchddf keep their types.
LEMMA FetchingTypes ==
  ASSUME F!TypeOK, Fetching, F!World \/ F!Run
  PROVE  F!TypeOK'
<1>1. P!TypeOK /\ P!DueBelongs /\ (P!World \/ P!Run)
  BY SameTypes, SameWorldStep, SameRun, DueBelongs
<1>2. P!TypeOK'
  BY <1>1, SameWorld, P!WorldTypes, P!RunTypes
<1> QED
  BY <1>2, SameTypes, PTL

\* At the start.
LEMMA InitTypes == Init => F!TypeOK /\ TypedTrees
<1> SUFFICES ASSUME Init PROVE F!TypeOK /\ TypedTrees
  OBVIOUS
<1>1. P!Init
  BY DEF Init, F!Init, P!Init, F!Urls, P!Urls, F!Files, P!Files, F!Mirror, P!Mirror,
         F!PinnedJob, P!PinnedJob, F!ContentOf, P!ContentOf,
         F!Provenance, P!Provenance, F!Snapshot, P!Snapshot,
         F!Absent, P!Absent, F!Torn, P!Torn, F!Prov, P!Prov, F!Roots, P!Roots,
         F!RootName, P!RootName, F!NameOf, P!NameOf, F!ScopedName, P!ScopedName,
         F!SnapshotName, P!SnapshotName, F!SnapshotNames, P!SnapshotNames
<1>2. F!TypeOK
  BY <1>1, SameWorld, SameTypes, P!InitTypes
<1>3. committed.meta = meta /\ pr = <<>>
  BY DEF Init
<1> QED
  BY <1>2, <1>3 DEF TypedTrees, Typed, F!TypeOK

\* A step that leaves fetchddf and the world alone.
LEMMA FetchTypesKept ==
  ASSUME F!TypeOK, UNCHANGED <<world, fetch>>
  PROVE  F!TypeOK'
BY DEF F!TypeOK, world, fetch

\* A checkout puts back a tree of its type.
LEMMA CheckoutTypes ==
  ASSUME F!TypeOK, TypedTrees, Publishing, Checkout
  PROVE  F!TypeOK'
<1>1. /\ meta' = committed.meta /\ fpc' = "idle"
      /\ UNCHANGED <<world, fjob, ftodo, fopen, fruns>>
  BY DEF Checkout
<1>2. DOMAIN committed.meta = F!Files
  BY DEF Publishing, Good
<1> QED
  BY <1>1, <1>2 DEF F!TypeOK, F!Ended, TypedTrees, Typed, world

\* Every step.
LEMMA NextTypes ==
  F!TypeOK /\ TypedTrees /\ IInv /\ [Next]_vars => F!TypeOK' /\ TypedTrees'
<1> SUFFICES ASSUME F!TypeOK, TypedTrees, IInv, [Next]_vars PROVE F!TypeOK' /\ TypedTrees'
  OBVIOUS
<1>1. TypedTrees /\ UNCHANGED <<committed, pr>> => TypedTrees'
  BY DEF TypedTrees, Typed
<1>2. CASE World \/ Fetch
  BY <1>1, <1>2, FetchingTypes DEF World, Fetch, IInv
<1>3. CASE Discover
  <2>1. F!Run /\ UNCHANGED <<committed, pr>>
    BY <1>3 DEF Discover, F!Run
  <2> QED
    BY <1>1, <2>1, FetchingTypes DEF IInv
<1>4. CASE Checkout
  BY <1>1, <1>4, CheckoutTypes DEF Checkout, IInv
<1>5. CASE Fetched \/ Generate \/ Fails
  BY <1>1, <1>5, FetchTypesKept DEF Fetched, Generate, Fails
<1>6. CASE Generated
  <2>1. Typed(Here)
    BY DEF Typed, Here, F!TypeOK
  <2>2. UNCHANGED <<world, fetch, committed>> /\ (pr' = <<Here>> \/ pr' = pr)
    BY <1>6 DEF Generated
  <2>3. TypedTrees'
    BY <2>1, <2>2 DEF TypedTrees, Typed
  <2> QED
    BY <2>2, <2>3, FetchTypesKept
<1>7. CASE Merge
  <2>1. UNCHANGED <<world, fetch>> /\ pr # <<>> /\ committed' = pr[1] /\ pr' = <<>>
    BY <1>7 DEF Merge
  <2> QED
    BY <2>1, FetchTypesKept DEF TypedTrees, Typed
<1>8. CASE UNCHANGED vars
  BY <1>1, <1>8, FetchTypesKept DEF vars
<1> QED
  BY <1>2, <1>3, <1>4, <1>5, <1>6, <1>7, <1>8 DEF Next

\* Every variable of the workflow keeps its type: fetchddf works on a checkout whose
\* files are those an earlier week's run has left.
THEOREM TypeCorrect == Spec => []TypeOK
<1>1. F!TypeOK /\ TypedTrees /\ IInv => TypeOK
  <2> SUFFICES ASSUME F!TypeOK, IInv PROVE TypeOK
    OBVIOUS
  <2>1. ASSUME NEW t, Good(t) PROVE DOMAIN t.meta = F!Files /\ DOMAIN t.out = G!Paths
    <3>1. t.out = Surface(t.meta) /\ t.meta = [f \in F!Files |-> t.meta[f]]
      BY <2>1 DEF Good, Reproducible
    <3>2. DOMAIN Surface(t.meta) = G!Paths
      BY DEF Surface
    <3> QED
      BY <3>1, <3>2
  <2>2. CASE pr = <<>>
    <3>1. ToSet(pr) = {} /\ Len(pr) <= 1
      BY <2>2 DEF ToSet
    <3> QED
      BY <2>1, <3>1 DEF TypeOK, IInv, Shape, Publishing
  <2>3. CASE pr = <<pr[1]>> /\ Good(pr[1])
    <3>1. \A x : ToSet(<<x>>) = {x} /\ Len(<<x>>) <= 1
      BY DEF ToSet
    <3>2. ToSet(pr) = {pr[1]} /\ Len(pr) <= 1
      BY <2>3, <3>1, Zenon
    <3> QED
      BY <2>1, <2>3, <3>2 DEF TypeOK, IInv, Shape, Publishing
  <2> QED
    BY <2>2, <2>3 DEF IInv, Publishing
<1> QED
  BY <1>1, InitTypes, NextTypes, Invariance, PTL DEF Spec

-----------------------------------------------------------------------------
(***************************************************************************)
(* The pin.                                                                *)
(***************************************************************************)

\* A tree does not claim the pinned URL without the pinned digest.
PinKept(t) == t[F!Prov].kind = "provenance" /\ t[F!Prov].source = PinUrl => t[F!Prov].zip = PinZip

\* fetchddf asks for the pinned digest unless the page has led it to another URL, and
\* what it writes has the digest; so all the trees are as pinned.
Asked ==
  /\ fpc = "acquire" /\ fjob.url = PinUrl => fjob.want = <<PinZip>>
  /\ fpc \in {"write", "prune", "ok"} /\ fjob.url = PinUrl => fjob.zip = PinZip

TreesKept ==
  PinKept(meta) /\ PinKept(committed.meta) /\ (pr # <<>> => PinKept(pr[1].meta))

\* At the start every tree is the pinned one.
LEMMA InitPinned == Init => Asked /\ TreesKept
<1> SUFFICES ASSUME Init PROVE Asked /\ TreesKept
  OBVIOUS
<1>1. /\ fpc = "idle" /\ meta = F!Mirror(F!PinnedJob(0))
      /\ committed.meta = meta /\ pr = <<>>
  BY DEF Init, F!Init
<1>2. meta[F!Prov] = F!Provenance(F!PinnedJob(0))
  BY <1>1 DEF F!Mirror, F!Files, F!ContentOf
<1>3. PinKept(meta)
  BY <1>2 DEF PinKept, F!Provenance, F!PinnedJob
<1> QED
  BY <1>1, <1>3 DEF Asked, TreesKept

\* The workflow gives no flag but -discover.
LEMMA DiscoverPinned ==
  ASSUME Asked, TreesKept, Discover
  PROVE  Asked' /\ TreesKept'
<1> DEFINE new == Update.discover /\ link # Update.url
<1>1. /\ fpc' = "acquire" /\ UNCHANGED <<meta, committed, pr>>
      /\ fjob'.url = IF new THEN link ELSE Update.url
      /\ fjob'.want = IF new THEN <<>> ELSE Update.want
  BY DEF Discover, F!Begin
<1>2. Update.url = PinUrl /\ Update.want = <<PinZip>> /\ Update.discover
  BY DEF Update
<1> QED
  BY <1>1, <1>2 DEF Asked, TreesKept

\* The digest is compared before anything is written.
LEMMA AcquirePinned ==
  ASSUME F!TypeOK, Asked, NEW z \in Zips, F!Acquire(z)
  PROVE  Asked' /\ UNCHANGED meta
<1>1. /\ fpc = "acquire" /\ fpc' = "write" /\ fjob.want \in {<<>>, <<z>>}
      /\ fjob' = [fjob EXCEPT !.zip = z] /\ UNCHANGED meta
  BY DEF F!Acquire
<1>2. fjob'.url = fjob.url /\ fjob'.zip = z
  BY <1>1 DEF F!TypeOK, F!Jobs
<1>3. fjob.url = PinUrl => z = PinZip
  BY <1>1 DEF Asked
<1> QED
  BY <1>1, <1>2, <1>3 DEF Asked

\* Every provenance that is written is that of the run.
LEMMA WritePinned ==
  ASSUME F!TypeOK, Asked, PinKept(meta), F!Empty \/ F!Fill \/ \E f \in F!Files : F!PruneStale(f)
  PROVE  Asked' /\ PinKept(meta')
<1>1. /\ fpc \in {"write", "prune"} /\ fpc' \in {"write", "prune"} /\ UNCHANGED fjob
  BY DEF F!Empty, F!Fill, F!PruneStale
<1>2. \E f, c : /\ meta' = [meta EXCEPT ![f] = c]
                /\ f = F!Prov => c \in {F!Torn, F!Absent, F!Provenance(fjob)}
  BY DEF F!Empty, F!Fill, F!PruneStale, F!ContentOf
<1>3. meta'[F!Prov] \in {meta[F!Prov], F!Torn, F!Absent, F!Provenance(fjob)}
  <2>1. F!Prov \in DOMAIN meta
    BY DEF F!TypeOK, F!Files
  <2> QED
    BY <1>2, <2>1
<1>4. PinKept(meta')
  <2>1. CASE meta'[F!Prov] = meta[F!Prov]
    BY <2>1 DEF PinKept
  <2>2. CASE meta'[F!Prov] \in {F!Torn, F!Absent}
    BY <2>2 DEF PinKept, F!Torn, F!Absent
  <2>3. CASE meta'[F!Prov] = F!Provenance(fjob)
    BY <1>1, <2>3 DEF PinKept, F!Provenance, Asked
  <2> QED
    BY <1>3, <2>1, <2>2, <2>3
<1>5. Asked'
  BY <1>1 DEF Asked
<1> QED
  BY <1>4, <1>5

\* A step of fetchddf.
LEMMA FetchPinned ==
  ASSUME F!TypeOK, Asked, TreesKept, Fetch
  PROVE  Asked' /\ TreesKept'
<1>1. /\ fpc \notin F!Ended /\ F!Run /\ UNCHANGED <<committed, pr>>
  BY DEF Fetch
<1>2. ~\E f \in {Update} : F!Begin(f)
  BY <1>1 DEF F!Begin
<1>3. Asked' /\ PinKept(meta')
  <2>1. CASE \E z \in Zips : F!Acquire(z)
    BY <2>1, AcquirePinned DEF TreesKept
  <2>2. CASE F!Empty \/ F!Fill \/ \E f \in F!Files : F!PruneStale(f)
    BY <2>2, WritePinned DEF TreesKept
  <2>3. CASE F!Finish
    BY <2>3 DEF F!Finish, Asked, TreesKept
  <2>4. CASE F!Unreachable \/ F!Stop \/ \E z \in Zips : F!Reject(z)
    <3>1. fpc' \in {"failed", "rejected"} /\ UNCHANGED meta
      BY <2>4 DEF F!Unreachable, F!Stop, F!Reject
    <3> QED
      BY <3>1 DEF Asked, TreesKept
  <2> QED
    BY <1>1, <1>2, <2>1, <2>2, <2>3, <2>4 DEF F!Run
<1> QED
  BY <1>1, <1>3 DEF TreesKept

\* Every step.
LEMMA NextPinned ==
  F!TypeOK /\ Asked /\ TreesKept /\ [Next]_vars => Asked' /\ TreesKept'
<1> SUFFICES ASSUME F!TypeOK, Asked, TreesKept, [Next]_vars PROVE Asked' /\ TreesKept'
  OBVIOUS
<1>1. UNCHANGED <<meta, fpc, fjob, committed, pr>> => Asked' /\ TreesKept'
  BY DEF Asked, TreesKept
<1>2. CASE World
  BY <1>1, <1>2 DEF World, F!World, F!Link, F!Upload, F!NextDay
<1>3. CASE Checkout
  BY <1>3 DEF Checkout, Asked, TreesKept
<1>4. CASE Fetched \/ Generate \/ Fails
  BY <1>1, <1>4 DEF Fetched, Generate, Fails, fetch
<1>5. CASE Generated
  BY <1>5 DEF Generated, Here, fetch, Asked, TreesKept
<1>6. CASE Merge
  BY <1>6 DEF Merge, fetch, Asked, TreesKept
<1>7. CASE UNCHANGED vars
  BY <1>1, <1>7 DEF vars, fetch
<1> QED
  BY <1>2, <1>3, <1>4, <1>5, <1>6, <1>7, DiscoverPinned, FetchPinned DEF Next

\* What claims the pinned URL has the pinned digest, in the working copy, on the main
\* branch and in a pull request: the workflow passes no digest of its own
\* (main.go:65-67, 85-87).
THEOREM PinHolds == Spec => []PinnedIsPinned
<1>1. TypeOK => F!TypeOK
  BY DEF TypeOK
<1>2. IInv /\ TreesKept => PinnedIsPinned
  <2> SUFFICES ASSUME IInv, TreesKept PROVE PinnedIsPinned
    OBVIOUS
  <2>1. \A trees \in ToSet(pr) : pr # <<>> /\ trees = pr[1]
    BY DEF IInv, Publishing, ToSet
  <2> QED
    BY <2>1, Zenon DEF TreesKept, PinKept, PinnedIsPinned
<1> QED
  BY <1>1, <1>2, InitPinned, NextPinned, TypeCorrect, Invariance, PTL DEF Spec

=============================================================================
