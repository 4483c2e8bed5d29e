------------------------------ MODULE FetchDDF ------------------------------
(***************************************************************************)
(* cmd/fetchddf: a zip of DDF files is found, verified and parsed, and the *)
(* snapshot tree metadata/csp is rewritten to mirror it, file by file.  A  *)
(* run may stop at any step; os.WriteFile empties a file before it fills   *)
(* it.  Two zips have the same SHA-256 only if they are the same.          *)
(***************************************************************************)
EXTENDS Naturals, Sequences

CONSTANTS
  Zips,     \* the zips there are
  Entries,  \* the .xml entries of each zip, in order: [parts, area, roots]
  Uploads,  \* <<url, zip>> that Microsoft's server may hold at some time
  PinUrl,   \* defaultURL
  PinZip,   \* the zip of defaultSHA256
  PinRelease,  \* defaultRelease
  Flags,    \* the command lines users give: [url, release, want, fetched, discover, local]
  MaxRuns,  \* bound: runs in a behaviour
  MaxDays   \* bound: days that pass

ASSUME PinAssumption == PinZip \in Zips /\ <<PinUrl, PinZip>> \in Uploads
ASSUME UploadsAssumption == Uploads \subseteq {u[1] : u \in Uploads} \X Zips
ASSUME EntriesAssumption == DOMAIN Entries = Zips
ASSUME BoundsAssumption == MaxRuns \in Nat /\ MaxDays \in Nat

\* -url names a file of the server, -sha256 a zip's digest or nothing, -fetched a day or
\* nothing; -discover and -zip are given or not.
ASSUME FlagsAssumption ==
  \A f \in Flags :
    /\ f.url \in {u[1] : u \in Uploads}
    /\ f.want \in {<<>>} \cup {<<z>> : z \in Zips}
    /\ f.fetched \in {<<>>} \cup {<<day>> : day \in 0..MaxDays}
    /\ f.discover \in BOOLEAN
    /\ f.local \in BOOLEAN

VARIABLES
  link,    \* the first zip URL on the Microsoft Learn page
  served,  \* the zip behind each URL
  today,   \* the date
  meta,    \* the files of metadata/csp
  pc,      \* where the run is
  job,     \* its flags, and the zip it has acquired
  todo,    \* the files it has yet to write
  open,    \* whether the next one has been emptied
  runs     \* runs so far

world == <<link, served, today>>
vars  == <<link, served, today, meta, pc, job, todo, open, runs>>

Urls == {u[1] : u \in Uploads}

-----------------------------------------------------------------------------
(***************************************************************************)
(* Names.  A snapshot is named by the parts of its base name and whether   *)
(* it ends in _AreaDDF; an entry's roots are given by their scopes, none   *)
(* for an entry that does not parse.                                       *)
(***************************************************************************)

SnapshotName(e) == [parts |-> e.parts, area |-> e.area]

\* A scope takes its place before the _AreaDDF marker.
ScopedName(name, scope) == [name EXCEPT !.parts = Append(@, scope)]

\* Only a root of several is told apart by its scope, unless that is Device.
NameOf(e, j) ==
  IF Len(e.roots) > 1 /\ e.roots[j] # "Device"
  THEN ScopedName(SnapshotName(e), e.roots[j])
  ELSE SnapshotName(e)

\* The roots of a zip: entry and position.
Roots(z) == UNION {{<<i, j>> : j \in DOMAIN Entries[z][i].roots} : i \in DOMAIN Entries[z]}

RootName(z, r) == NameOf(Entries[z][r[1]], r[2])

SnapshotNames(z) == {RootName(z, r) : r \in Roots(z)}

\* The zip has entries, they parse, and no two roots share a name.
Parses(z) ==
  /\ Entries[z] # <<>>
  /\ \A i \in DOMAIN Entries[z] : Entries[z][i].roots # <<>>
  /\ \A r, s \in Roots(z) : RootName(z, r) = RootName(z, s) => r = s

\* PROVENANCE.json is a file like the snapshots.
Prov == [parts |-> <<"PROVENANCE">>, area |-> FALSE]

\* Microsoft has no CSP of that name: its snapshot would be overwritten.
ASSUME NamesAssumption == \A z \in Zips : Prov \notin SnapshotNames(z)

Files == {Prov} \cup UNION {SnapshotNames(z) : z \in Zips}

-----------------------------------------------------------------------------
(***************************************************************************)
(* Contents of files.                                                      *)
(***************************************************************************)

Absent == [kind |-> "absent"]
Torn   == [kind |-> "torn"]

Snapshot(z, r) == [kind |-> "snapshot", zip |-> z, root |-> r]

Provenance(j) ==
  [kind |-> "provenance", release |-> j.release, source |-> j.url,
   zip |-> j.zip, fetched |-> j.fetched]

\* What a run writes into a file.
ContentOf(j, f) ==
  IF f = Prov THEN Provenance(j)
  ELSE Snapshot(j.zip, CHOOSE r \in Roots(j.zip) : RootName(j.zip, r) = f)

\* The tree a run is to leave behind.
Mirror(j) ==
  [f \in Files |-> IF f \in SnapshotNames(j.zip) \cup {Prov} THEN ContentOf(j, f) ELSE Absent]

\* The run with the defaults, on a day.
PinnedJob(day) ==
  [release |-> PinRelease, url |-> PinUrl, want |-> <<PinZip>>, local |-> FALSE,
   zip |-> PinZip, fetched |-> day]

-----------------------------------------------------------------------------

Ended == {"idle", "ok", "failed", "rejected"}

\* No snapshots yet, or those of an earlier run.
Init ==
  /\ link = PinUrl
  /\ served \in [Urls -> Zips] /\ \A u \in Urls : <<u, served[u]>> \in Uploads
  /\ served[PinUrl] = PinZip
  /\ today = 0
  /\ meta \in {[f \in Files |-> Absent], Mirror(PinnedJob(0))}
  /\ pc = "idle"
  /\ job = PinnedJob(0)
  /\ todo = {}
  /\ open = FALSE
  /\ runs = 0

\* Microsoft lists another URL, or puts another zip behind one; a day passes.
Link(u) ==
  /\ link' = u
  /\ UNCHANGED <<served, today, meta, pc, job, todo, open, runs>>

Upload(u, z) ==
  /\ <<u, z>> \in Uploads
  /\ served' = [served EXCEPT ![u] = z]
  /\ UNCHANGED <<link, today, meta, pc, job, todo, open, runs>>

NextDay ==
  /\ today < MaxDays
  /\ today' = today + 1
  /\ UNCHANGED <<link, served, meta, pc, job, todo, open, runs>>

\* The flags of a run that is given none.
Defaults ==
  [url |-> PinUrl, release |-> PinRelease, want |-> <<PinZip>>, fetched |-> <<>>,
   discover |-> FALSE, local |-> FALSE]

\* A run that knows nothing of the digest as soon as it looks for a link.
BeginUnchecked(f) ==
  LET new == f.discover /\ link # f.url
  IN  /\ pc \in Ended
      /\ runs < MaxRuns
      /\ runs' = runs + 1
      /\ pc' = "acquire"
      /\ job' = [release |-> IF new THEN link ELSE f.release,
                 url     |-> IF new THEN link ELSE f.url,
                 want    |-> IF f.discover THEN <<>> ELSE f.want,
                 local   |-> f.local,
                 zip     |-> PinZip,
                 fetched |-> IF f.fetched = <<>> THEN today ELSE f.fetched[1]]
      /\ UNCHANGED <<link, served, today, meta, todo, open>>

\* A run starts with the flags f.  With -discover, a link that is not its URL replaces
\* the URL and the release, and nothing is known of the digest.
Begin(f) ==
  LET new == f.discover /\ link # f.url
  IN  /\ pc \in Ended
      /\ runs < MaxRuns
      /\ runs' = runs + 1
      /\ pc' = "acquire"
      /\ job' = [release |-> IF new THEN link ELSE f.release,
                 url     |-> IF new THEN link ELSE f.url,
                 want    |-> IF new THEN <<>> ELSE f.want,
                 local   |-> f.local,
                 zip     |-> PinZip,
                 fetched |-> IF f.fetched = <<>> THEN today ELSE f.fetched[1]]
      /\ UNCHANGED <<link, served, today, meta, todo, open>>

\* The zip a run may get: any that lies on the disk, or the one behind its URL.
Available == IF job.local THEN Zips ELSE {served[job.url]}

\* The zip is there, and is written whatever its digest.
AcquireUnverified(z) ==
  /\ pc = "acquire" /\ z \in Available /\ Parses(z)
  /\ pc' = "write"
  /\ job' = [job EXCEPT !.zip = z]
  /\ todo' = SnapshotNames(z) \cup {Prov}
  /\ UNCHANGED <<link, served, today, meta, open, runs>>

\* The zip is there, has the digest asked for and parses: the snapshots are written
\* in a fixed order, the provenance last.
Acquire(z) ==
  /\ pc = "acquire" /\ z \in Available /\ Parses(z)
  /\ job.want \in {<<>>, <<z>>}
  /\ pc' = "write"
  /\ job' = [job EXCEPT !.zip = z]
  /\ todo' = SnapshotNames(z) \cup {Prov}
  /\ UNCHANGED <<link, served, today, meta, open, runs>>

\* The page or the zip cannot be had.
Unreachable ==
  /\ pc = "acquire"
  /\ pc' = "failed"
  /\ UNCHANGED <<link, served, today, meta, job, todo, open, runs>>

\* The zip has another digest, or does not parse.
Reject(z) ==
  /\ pc = "acquire" /\ z \in Available
  /\ \/ job.want \notin {<<>>, <<z>>} /\ pc' = "rejected"
     \/ job.want \in {<<>>, <<z>>} /\ ~Parses(z) /\ pc' = "failed"
  /\ UNCHANGED <<link, served, today, meta, job, todo, open, runs>>

\* The next file, in some fixed order with the provenance last.
Due == CHOOSE f \in todo : f = Prov => todo = {Prov}

\* os.WriteFile opens the next file, which empties it, and fills it.
Empty ==
  /\ pc = "write" /\ ~open
  /\ meta' = [meta EXCEPT ![Due] = Torn]
  /\ open' = TRUE
  /\ UNCHANGED <<link, served, today, pc, job, todo, runs>>

\* A file filled with what belongs into the next one.
FillAhead ==
  /\ pc = "write" /\ open
  /\ meta' = [meta EXCEPT ![Due] = ContentOf(job, CHOOSE f \in todo : f = Due => todo = {Due})]
  /\ open' = FALSE
  /\ todo' = todo \ {Due}
  /\ pc' = IF todo' = {} THEN "prune" ELSE "write"
  /\ UNCHANGED <<link, served, today, job, runs>>

Fill ==
  /\ pc = "write" /\ open
  /\ meta' = [meta EXCEPT ![Due] = ContentOf(job, Due)]
  /\ open' = FALSE
  /\ todo' = todo \ {Due}
  /\ pc' = IF todo' = {} THEN "prune" ELSE "write"
  /\ UNCHANGED <<link, served, today, job, runs>>

\* The files of the tree that this run has not written.
Stale == {f \in Files : meta[f] # Absent} \ (SnapshotNames(job.zip) \cup {Prov})

PruneStale(f) ==
  /\ pc = "prune" /\ f \in Stale
  /\ meta' = [meta EXCEPT ![f] = Absent]
  /\ UNCHANGED <<link, served, today, pc, job, todo, open, runs>>

\* A run that leaves what it did not write.
FinishUnpruned ==
  /\ pc = "prune"
  /\ pc' = "ok"
  /\ UNCHANGED <<link, served, today, meta, job, todo, open, runs>>

Finish ==
  /\ pc = "prune" /\ Stale = {}
  /\ pc' = "ok"
  /\ UNCHANGED <<link, served, today, meta, job, todo, open, runs>>

\* A write fails, or the process is killed.
Stop ==
  /\ pc \in {"write", "prune"}
  /\ pc' = "failed"
  /\ todo' = {}
  /\ open' = FALSE
  /\ UNCHANGED <<link, served, today, meta, job, runs>>

World == (\E u \in Urls : Link(u)) \/ (\E u \in Urls, z \in Zips : Upload(u, z)) \/ NextDay

Run ==
  \/ \E f \in Flags : Begin(f)
  \/ \E z \in Zips : Acquire(z) \/ Reject(z)
  \/ Unreachable \/ Empty \/ Fill \/ Finish \/ Stop
  \/ \E f \in Files : PruneStale(f)

Next == World \/ Run

Spec == Init /\ [][Next]_vars

-----------------------------------------------------------------------------

\* A discovered release is named by its link.
Releases == {PinRelease} \cup Urls \cup {f.release : f \in Flags}

Jobs == [release : Releases, url : Urls, want : {<<>>} \cup {<<z>> : z \in Zips},
         local : BOOLEAN, zip : Zips, fetched : 0..MaxDays]

Provenances == [kind : {"provenance"}, release : Releases, source : Urls, zip : Zips,
                fetched : 0..MaxDays]

\* A snapshot lies under its own name.
ContentsFor(f) ==
  {Absent, Torn}
    \cup (IF f = Prov THEN Provenances ELSE {})
    \cup UNION {{Snapshot(z, r) : r \in {x \in Roots(z) : RootName(z, x) = f}} : z \in Zips}

\* Every variable has its type: the one type invariant of the module.
TypeOK ==
  /\ link \in Urls
  /\ served \in [Urls -> Zips]
  /\ today \in 0..MaxDays
  /\ DOMAIN meta = Files
  /\ \A f \in Files : meta[f] \in ContentsFor(f)
  /\ pc \in Ended \cup {"acquire", "write", "prune"}
  /\ job \in Jobs
  /\ todo \subseteq Files
  /\ open \in BOOLEAN
  /\ runs \in 0..MaxRuns

\* A run that succeeds leaves the snapshots of its zip, one for every root, the
\* provenance of the run and nothing else, whatever lay there before and wherever an
\* earlier run was stopped (main.go:97-131).
MirrorsZip ==
  pc = "ok" =>
    /\ meta = Mirror(job)
    /\ \A r \in Roots(job.zip) : \E f \in Files : meta[f] = Snapshot(job.zip, r)

\* What a step changes, it changes towards the mirror of the zip that was asked for.
TowardsAsked ==
  LET asked == Mirror([job EXCEPT !.zip = job.want[1]])
  IN  \A f \in Files :
        meta'[f] \in {meta[f], asked[f]} \/ (meta'[f] = Torn /\ asked[f] # Absent)

\* A run that was given a digest changes the tree only towards the mirror of the zip with
\* that digest, wherever it got its zip from and wherever it is stopped: nothing of
\* another zip is written, and nothing is removed for another's sake (main.go:50,
\* 85-87).
AskedZipOnly == [][job.want # <<>> /\ meta' # meta => TowardsAsked]_vars

\* internal/ddf/model.go:12 says that the provenance records where the snapshot tree
\* came from: between two runs every snapshot is of the zip it names.
ProvenanceIsTrue ==
  pc \in Ended /\ meta[Prov].kind = "provenance" =>
    \A f \in Files : meta[f].kind = "snapshot" => meta[f].zip = meta[Prov].zip

=============================================================================
