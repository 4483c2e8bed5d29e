------------------------------- MODULE GenCSP -------------------------------
(***************************************************************************)
(* cmd/gencsp: the generated packages of windowscsp are removed and        *)
(* written again from the snapshots, file by file.  A run may stop at any  *)
(* step; os.WriteFile empties a file before it fills it, and an empty file *)
(* has no DO-NOT-EDIT header.                                              *)
(***************************************************************************)
EXTENDS Naturals, Sequences

CONSTANTS
  Trees,    \* the snapshot trees a run may find, as sets of snapshots
  MaxRuns,  \* bound: runs in a behaviour
  MaxHand   \* bound: files written by hand

ASSUME BoundsAssumption == MaxRuns \in Nat /\ MaxHand \in Nat

VARIABLES
  tree,   \* the snapshot tree: its release, none when unreadable, and snapshots
  out,    \* the files below windowscsp
  pc,     \* where the run is
  job,    \* the packages the run has built, and their release
  todo,   \* the paths it has yet to write
  open,   \* whether the next one has been emptied
  runs,   \* runs so far
  hands   \* files written by hand so far

vars == <<tree, out, pc, job, todo, open, runs, hands>>

-----------------------------------------------------------------------------
(***************************************************************************)
(* Packages.  A snapshot is a record of the words of its base name, as     *)
(* spelled, whether it ends in _User, whether it is of the Policy family,  *)
(* the name of its CSP, whether it leads to URIs, enumerations and methods *)
(* at all, and whatever else there is to it.                               *)
(***************************************************************************)

\* Lower case and underscores: the spelling of a word is lost.
PackageName(s) == [i \in DOMAIN s.words |-> s.words[i].word]

Dir(s) == <<IF s.policy THEN "policy" ELSE "csp", PackageName(s)>>

ServiceName(s) == <<s.csp>> \o IF s.user THEN <<"User">> ELSE <<>>

\* A snapshot whose nodes lead to no method has no package.
Packages(snapshots) == {s \in snapshots : s.methods}

\* The files of a package, each by its directory and name.
PathsOf(s) ==
  {Dir(s)} \X ({"doc", "service", "crud"} \cup (IF s.uris THEN {"uris"} ELSE {})
                                           \cup (IF s.enums THEN {"enums"} ELSE {}))

Registry == <<<<>>, "registry">>

AllSnapshots == UNION Trees
Paths == {Registry} \cup UNION {PathsOf(s) : s \in AllSnapshots}

\* No two packages share a directory; no two of a family share a service name.
DirsApart(pkgs)     == \A s, t \in pkgs : Dir(s) = Dir(t) => s = t
ServicesApart(pkgs) ==
  \A s, t \in pkgs : s.policy = t.policy /\ ServiceName(s) = ServiceName(t) => s = t

-----------------------------------------------------------------------------
(***************************************************************************)
(* Contents of files.                                                      *)
(***************************************************************************)

Absent == [kind |-> "absent"]
Torn   == [kind |-> "torn"]
Hand   == [kind |-> "hand"]

\* A generated file and what it was rendered from.
Gen(release, pkgs) == [kind |-> "gen", release |-> release, of |-> pkgs]

\* Only the package comment and the registry name the release.
ReleaseIn(j, path) == IF path[2] \in {"doc", "registry"} THEN j.release ELSE ""

\* Every file rendered from the same package.
RenderedAlike(j, path) ==
  Gen(ReleaseIn(j, path), IF path = Registry THEN j.pkgs ELSE {CHOOSE s \in j.pkgs : TRUE})

\* The file of a package, or the registry, as a job renders it.
Rendered(j, path) ==
  Gen(ReleaseIn(j, path), IF path = Registry THEN j.pkgs
                          ELSE {s \in j.pkgs : Dir(s) = path[1]})

\* The paths a job writes.
Targets(j) == {Registry} \cup UNION {PathsOf(s) : s \in j.pkgs}

-----------------------------------------------------------------------------

Ended == {"idle", "ok", "failed"}

NoJob == [release |-> "", pkgs |-> {}]

\* Nothing generated yet.
Init ==
  /\ tree \in [release : {"one"}, snapshots : Trees]
  /\ out = [p \in Paths |-> Absent]
  /\ pc = "idle"
  /\ job = NoJob
  /\ todo = {}
  /\ open = FALSE
  /\ runs = 0
  /\ hands = 0

\* Another release is fetched; or one is not fetched to the end, and cannot be read.
Fetch(t) ==
  /\ pc \in Ended
  /\ \E r \in {"", "one", "two"} : tree' = [release |-> r, snapshots |-> t]
  /\ UNCHANGED <<out, pc, job, todo, open, runs, hands>>

\* A developer writes a file.
WriteByHand(p) ==
  /\ pc \in Ended
  /\ hands < MaxHand /\ hands' = hands + 1
  /\ out[p] = Absent
  /\ out' = [out EXCEPT ![p] = Hand]
  /\ UNCHANGED <<tree, pc, job, todo, open, runs>>

\* loadPackages when two packages share a directory.
LoadCollides ==
  LET pkgs == Packages(tree.snapshots)
  IN  /\ pc \in Ended
      /\ runs < MaxRuns /\ runs' = runs + 1
      /\ IF tree.release # "" /\ pkgs # {}
         THEN pc' = "clear" /\ job' = [release |-> tree.release, pkgs |-> pkgs]
         ELSE pc' = "failed" /\ job' = NoJob
      /\ UNCHANGED <<tree, out, todo, open, hands>>

\* loadRelease and loadPackages.
Load ==
  LET pkgs == Packages(tree.snapshots)
  IN  /\ pc \in Ended
      /\ runs < MaxRuns /\ runs' = runs + 1
      /\ IF tree.release # "" /\ pkgs # {} /\ DirsApart(pkgs)
         THEN pc' = "clear" /\ job' = [release |-> tree.release, pkgs |-> pkgs]
         ELSE pc' = "failed" /\ job' = NoJob
      /\ UNCHANGED <<tree, out, todo, open, hands>>

Generated == {p \in Paths : out[p].kind = "gen"}

\* clearGenerated that leaves what will be written again.
ClearOthers ==
  LET gone == Generated \ Targets(job)
  IN  /\ pc = "clear"
      /\ IF gone # {}
         THEN /\ out' = [out EXCEPT ![CHOOSE p \in gone : TRUE] = Absent]
              /\ UNCHANGED <<pc, todo>>
         ELSE /\ pc' = "emit" /\ todo' = Targets(job)
              /\ UNCHANGED out
      /\ UNCHANGED <<tree, job, open, runs, hands>>

\* clearGenerated comes to the next file that begins with the header, or to the end.
Clear ==
  /\ pc = "clear"
  /\ IF Generated # {}
     THEN /\ out' = [out EXCEPT ![CHOOSE p \in Generated : TRUE] = Absent]
          /\ UNCHANGED <<pc, todo>>
     ELSE /\ pc' = "emit" /\ todo' = Targets(job)
          /\ UNCHANGED out
  /\ UNCHANGED <<tree, job, open, runs, hands>>

\* The next file, in some fixed order with the registry last.
Due == CHOOSE p \in todo : p = Registry => todo = {Registry}

\* writeGen opens the next file, which empties it, whatever it was; the registry
\* only when the service names are apart.
Empty ==
  /\ pc = "emit" /\ ~open
  /\ Due = Registry => ServicesApart(job.pkgs)
  /\ out' = [out EXCEPT ![Due] = Torn]
  /\ open' = TRUE
  /\ UNCHANGED <<tree, pc, job, todo, runs, hands>>

Fill ==
  /\ pc = "emit" /\ open
  /\ out' = [out EXCEPT ![Due] = Rendered(job, Due)]
  /\ open' = FALSE
  /\ todo' = todo \ {Due}
  /\ pc' = IF todo' = {} THEN "ok" ELSE "emit"
  /\ UNCHANGED <<tree, job, runs, hands>>

\* A collision of services, a file that does not render or cannot be written or
\* removed; or the process is killed.
Stop ==
  /\ pc \in {"clear", "emit"}
  /\ pc' = "failed"
  /\ todo' = {}
  /\ open' = FALSE
  /\ UNCHANGED <<tree, out, job, runs, hands>>

World == (\E t \in Trees : Fetch(t)) \/ (\E p \in Paths : WriteByHand(p))

Run == Load \/ Clear \/ Empty \/ Fill \/ Stop

Next == World \/ Run

Spec == Init /\ [][Next]_vars

-----------------------------------------------------------------------------

\* Every variable has its type: the one type invariant of the module.  What is
\* generated of a package lies in the package's directory.
TypeOK ==
  /\ tree \in [release : {"", "one", "two"}, snapshots : Trees]
  /\ DOMAIN out = Paths
  /\ \A p \in Paths :
       \/ out[p] \in {Absent, Torn, Hand}
       \/ /\ out[p].kind = "gen" /\ out[p].of # {} /\ out[p].of \subseteq AllSnapshots
          /\ p # Registry => \E s \in out[p].of : out[p].of = {s} /\ Dir(s) = p[1]
  /\ pc \in Ended \cup {"clear", "emit"}
  /\ todo \subseteq Paths
  /\ open \in BOOLEAN
  /\ runs \in 0..MaxRuns
  /\ hands \in 0..MaxHand

\* A run never mixes fresh output with leftovers: from the time it writes, every
\* generated file is of its snapshots and release, also when it fails half way or an
\* earlier run did (generator.go:37-42).
Unmixed ==
  pc = "emit" \/ (pc = "ok" /\ job # NoJob) =>
    \A p \in Generated : p \in Targets(job) /\ out[p] = Rendered(job, p)

\* A run that succeeds has written every file of every package and a registry that
\* names just the packages that are there, each rendered from its own snapshot, under
\* names that differ.
Complete ==
  pc = "ok" =>
    LET listed == [release |-> out[Registry].release, pkgs |-> out[Registry].of]
    IN  /\ listed = job
        /\ ServicesApart(listed.pkgs)
        /\ \A s \in listed.pkgs : \A p \in PathsOf(s) :
             out[p] = Gen(ReleaseIn(listed, p), {s})

=============================================================================
