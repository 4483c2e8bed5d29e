------------------------------ MODULE Pipeline ------------------------------
(***************************************************************************)
(* The weekly ddf-update workflow: a checkout of the repository, fetchddf  *)
(* -discover, gencsp, git diff, and a pull request that a maintainer may   *)
(* merge.  A step that fails ends the run.                                 *)
(***************************************************************************)
EXTENDS Naturals, Sequences, SequencesExt

CONSTANTS
  Zips, Entries, Uploads, PinUrl, PinZip, PinRelease, MaxRuns, MaxDays,  \* FetchDDF
  Described   \* what gencsp makes of each snapshot

VARIABLES
  link, served, today,                     \* the world
  meta, fpc, fjob, ftodo, fopen, fruns,    \* fetchddf and metadata/csp
  out, gpc, gjob, gtodo, gopen, gruns,     \* gencsp and windowscsp
  step,       \* the workflow's step
  committed,  \* the trees on the main branch, [meta, out]
  pr          \* the trees of the open pull request, <<>> when there is none

world  == <<link, served, today>>
fetch  == <<meta, fpc, fjob, ftodo, fopen, fruns>>
gen    == <<out, gpc, gjob, gtodo, gopen, gruns>>
vars   == <<world, fetch, gen, step, committed, pr>>

\* What the workflow passes to fetchddf: -discover.
Update ==
  [url |-> PinUrl, release |-> PinRelease, want |-> <<PinZip>>, fetched |-> <<>>,
   discover |-> TRUE, local |-> FALSE]

F == INSTANCE FetchDDF WITH Flags <- {Update},
       pc <- fpc, job <- fjob, todo <- ftodo, open <- fopen, runs <- fruns

\* The pinned zip is one that fetchddf took in when it was pinned, and Microsoft has no
\* CSP that is called PROVENANCE.
ASSUME PinAssumption   == PinZip \in Zips /\ <<PinUrl, PinZip>> \in Uploads /\ F!Parses(PinZip)
ASSUME UploadsAssumption == Uploads \subseteq {u[1] : u \in Uploads} \X Zips
ASSUME EntriesAssumption == DOMAIN Entries = Zips
ASSUME BoundsAssumption  == MaxRuns \in Nat /\ MaxDays \in Nat
ASSUME NamesAssumption == \A z \in Zips : F!Prov \notin F!SnapshotNames(z)

\* The snapshots gencsp finds in a metadata tree, and the release: none when there is
\* a file it cannot read.
SnapshotsIn(tree) == {Described[tree[f]] : f \in {g \in F!Files : tree[g].kind = "snapshot"}}

Found(tree) ==
  [release   |-> IF tree[F!Prov].kind = "provenance" /\ \A f \in F!Files : tree[f] # F!Torn
                 THEN tree[F!Prov].release ELSE "",
   snapshots |-> SnapshotsIn(tree)]

G == INSTANCE GenCSP WITH
       Trees <- {{Described[F!Snapshot(z, r)] : r \in F!Roots(z)} : z \in Zips},
       MaxHand <- 0, hands <- 0, tree <- Found(meta),
       pc <- gpc, job <- gjob, todo <- gtodo, open <- gopen, runs <- gruns

\* What gencsp generates from a metadata tree.
Surface(tree) ==
  LET j == [release |-> Found(tree).release, pkgs |-> G!Packages(SnapshotsIn(tree))]
  IN  [p \in G!Paths |-> IF p \in G!Targets(j) THEN G!Rendered(j, p) ELSE G!Absent]

\* A repository whose trees are of the pinned zip.
Init ==
  /\ F!Init
  /\ meta = F!Mirror(F!PinnedJob(0))
  /\ out = Surface(meta)
  /\ gpc = "idle" /\ gjob = G!NoJob /\ gtodo = {} /\ gopen = FALSE /\ gruns = 0
  /\ step = "rest"
  /\ committed = [meta |-> meta, out |-> out]
  /\ pr = <<>>

World == F!World /\ UNCHANGED <<gen, step, committed, pr>>

\* The workflow starts from what is committed.
Checkout ==
  /\ step = "rest"
  /\ meta' = committed.meta
  /\ out' = committed.out
  /\ fpc' = "idle" /\ gpc' = "idle"
  /\ step' = "discover"
  /\ UNCHANGED <<world, fjob, ftodo, fopen, fruns, gjob, gtodo, gopen, gruns, committed, pr>>

Discover ==
  /\ step = "discover"
  /\ F!Begin(Update)
  /\ step' = "fetch"
  /\ UNCHANGED <<gen, committed, pr>>

\* fetchddf runs to its end.
Fetch ==
  /\ step = "fetch"
  /\ fpc \notin F!Ended
  /\ F!Run
  /\ UNCHANGED <<gen, step, committed, pr>>

\* gencsp is run whether or not fetchddf succeeded.
FetchedAnyway ==
  /\ step = "fetch" /\ fpc \in F!Ended
  /\ UNCHANGED <<world, fetch, committed, pr>>
  /\ G!Load
  /\ step' = "generate"

\* gencsp is run next.
Fetched ==
  /\ step = "fetch" /\ fpc = "ok"
  /\ UNCHANGED <<world, fetch, committed, pr>>
  /\ G!Load
  /\ step' = "generate"

\* gencsp runs to its end.
Generate ==
  /\ step = "generate"
  /\ gpc \notin G!Ended
  /\ UNCHANGED <<world, fetch, step, committed, pr>>
  /\ G!Run

\* What is in a file: the same snapshot may come in two zips.
Bytes(c) == IF c.kind = "snapshot" THEN Described[c] ELSE c

\* git diff --quiet, which sees only the files that are tracked.
ChangedFiles(trees, old) ==
  {f \in F!Files : old.meta[f] # F!Absent /\ Bytes(trees.meta[f]) # Bytes(old.meta[f])}
ChangedPaths(trees, old) ==
  {p \in G!Paths : old.out[p] # G!Absent /\ trees.out[p] # old.out[p]}

Here == [meta |-> meta, out |-> out]

\* A diff of the snapshots alone, without their provenance.
DiffersInSnapshots == ChangedFiles(Here, committed) \ {F!Prov} # {}

Differs == ChangedFiles(Here, committed) # {} \/ ChangedPaths(Here, committed) # {}

\* A pull request, when there is a difference.
Generated ==
  /\ step = "generate" /\ gpc = "ok"
  /\ pr' = IF Differs THEN <<Here>> ELSE pr
  /\ step' = "rest"
  /\ UNCHANGED <<world, fetch, gen, committed>>

\* A step has failed: the build and the tests of a changed tree are one.
Fails ==
  /\ \/ step = "fetch" /\ fpc \in {"failed", "rejected"}
     \/ step = "generate" /\ gpc = "failed"
     \/ step = "generate" /\ gpc = "ok" /\ Differs
  /\ step' = "rest"
  /\ UNCHANGED <<world, fetch, gen, committed, pr>>

Merge ==
  /\ pr # <<>>
  /\ committed' = pr[1]
  /\ pr' = <<>>
  /\ UNCHANGED <<world, fetch, gen, step>>

Next ==
  \/ World \/ Checkout \/ Discover \/ Fetch \/ Fetched \/ Generate \/ Generated
  \/ Fails \/ Merge

Spec == Init /\ [][Next]_vars

-----------------------------------------------------------------------------

\* Every variable of the workflow has its type: the one type invariant of the module.
TypeOK ==
  /\ F!TypeOK
  /\ step \in {"rest", "discover", "fetch", "generate"}
  /\ Len(pr) <= 1
  /\ \A trees \in {committed} \cup ToSet(pr) :
       DOMAIN trees.meta = F!Files /\ DOMAIN trees.out = G!Paths

\* The trees are of one zip, whole, with its provenance, and the generated code is what
\* gencsp makes of the snapshots beside it.
Reproducible(trees) ==
  /\ trees.meta[F!Prov].kind = "provenance"
  /\ \A f \in F!Files : trees.meta[f] # F!Torn
  /\ \A r \in F!Roots(trees.meta[F!Prov].zip) :
       \E f \in F!Files : trees.meta[f] = F!Snapshot(trees.meta[F!Prov].zip, r)
  /\ \A f \in F!Files :
       trees.meta[f].kind = "snapshot" => trees.meta[f].zip = trees.meta[F!Prov].zip
  /\ trees.out = Surface(trees.meta)

\* No pull request, and so no commit, holds a half-fetched tree or generated code of
\* other snapshots, whichever step failed in this week's or an earlier run: the
\* determinism gate of ci.yml:42-62 passes on it.
AlwaysReproducible ==
  Reproducible(committed) /\ (pr # <<>> => Reproducible(pr[1]))

\* A drop that the workflow has taken in whole is offered: new files are not tracked,
\* so git diff must see the drop by files that were there before.
NewDropIsSeen ==
  step = "generate" /\ gpc = "ok" /\ SnapshotsIn(meta) # SnapshotsIn(committed.meta) => Differs

\* A tree that claims the pinned URL has the pinned digest, in the working copy, on the
\* main branch and in a pull request: the workflow passes no -sha256, so that a zip
\* changed behind that URL is never taken in as the pinned one, whatever the page links
\* from week to week (main.go:65-67, 85-87).
PinnedIsPinned ==
  \A t \in {meta, committed.meta} \cup {trees.meta : trees \in ToSet(pr)} :
    t[F!Prov].kind = "provenance" /\ t[F!Prov].source = PinUrl => t[F!Prov].zip = PinZip

\* ddf-update.yml:4-7 says that the snapshots are refreshed when the zip's content has
\* changed: a run is not turned away for it.
ChangedContentIsTaken == step = "fetch" => fpc # "rejected"

=============================================================================
