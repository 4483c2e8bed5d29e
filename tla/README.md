# A verification project for go-sdk-windowscsp

go-sdk-windowscsp is a Go SDK for the Windows Configuration Service Providers
(CSPs). Microsoft publishes the CSPs as DDF files; the repository fetches them
into `metadata/`, generates one Go package per CSP and per policy area from
them, and gives those packages a transport: a `client.Client` that addresses
nodes of a device's tree by OMA-URI.

The TLA+ modules here follow the code under `src/`. TLC checks them on small
instances; TLAPS proves the theorems of section 6 for every value of the constants.

    tlc -workers 2 -config InMemory.cfg MCInMemory     # one of the runs of section 5
    tlapm InMemory_proof.tla                           # one of the proof modules

## 1. The system

| Component | Source | State | Operations | Modules |
|---|---|---|---|---|
| `client` | `windowscsp/client` | none | the `Client` interface, `Value` and its decoding, errors | `CspCalls`, `Values` (no floats, no base64) |
| in-memory tree | `windowscsp/clienttest` | mutex, map from OMA-URI to value, `Executed` | Seed, Get, List, Add, Replace, Delete, Exec | `OmaUri`, `InMemory` |
| SyncML recorder | `windowscsp/syncml/syncml.go` | slice of operations | Get, List, Add, Replace, Delete, Exec, Ops, Document | `SyncML`, `XmlText`, `Recorder` |
| SyncML executor | `windowscsp/syncml/executor.go` | none; the device is behind the sender | the same six calls, each one round trip | `SyncML`, `Executor` |
| DDF fetcher | `cmd/fetchddf` | the snapshot directory with PROVENANCE.json | discover, acquire, parse the zip, write, prune | `FetchDDF` |
| DDF parser | `internal/ddf` | none | XML to a tree of nodes, siblings sorted | `Ddf` (no descriptive fields) |
| generator | `internal/codegen`, `fileasm` | the output tree | load, clear, emit packages, emit registry | `GenCSP` |
| package builder | `internal/codegen/build` | name tables of one package | walk the nodes, claim names, resolve parameters, URIs, methods, enumerations | `Builder`, `Service` |
| naming | `internal/codegen/naming` | none | package, export, parameter, constant names | `Naming` |
| templates | `internal/codegen/render`, `view` | none | Go text | what a Get method does, in `Service`; the rest is layout |
| generated code | `windowscsp/csp`, `windowscsp/policy`, `registry.go` | none | one method per CSP node and verb | by its generator (see section 8) |
| workflows | `.github/workflows` | the repository | weekly DDF update, determinism gate | `Pipeline` |

**How they interact.** A program calls a generated method, which makes one call
of `client.Client` on a URI. Behind the interface is a transport: the in-memory
tree in tests (shared by goroutines, hence its mutex), the recorder (queues, and
renders a batch that somebody else delivers), or the executor (renders one
command, hands it to a `SenderFunc` and reads the response). At build time the
components meet only through files: `fetchddf` writes `metadata/csp`, `gencsp`
reads it and writes `windowscsp`, the weekly workflow runs both in a checkout,
asks `git diff` and opens a pull request.

**What is hard.**

- Concurrency: the in-memory tree's loops over a map that the loop itself
  shrinks, in an order Go does not define; goroutines that share an executor
  while every request on the wire has the same CmdID.
- Shared memory without concurrency: `Recorder.Ops` returns its own slice, so
  old views and the growing queue share arrays.
- Delivery: a send that fails before or after the device has acted, requests
  that arrive when nobody waits any more, responses that lack elements.
- Partial failure and restarts: neither tool is atomic. Each rewrites a tree
  file by file, may be stopped between or inside writes, and must heal whatever
  an earlier run left.
- Staleness: a digest check that `-discover` switches off, provenance written
  last, packages of CSPs that are gone, `git diff` blind to new files.
- Names: prefixes of URIs that are not segment prefixes; snapshot, package and
  service names that collide after normalisation; node names that fall together
  when they become Go identifiers, are numbered, and then fall on other nodes'
  names; a walk whose state must not leak from one node to its sibling.
- Text: entities that are already in a value, line ends, numbers read in one base
  here and another there.

**What makes each part correct.** The tree is linearizable and its deletes stay
in the subtree. The recorder is a log of the calls. The executor acts on a
request once and never claims what the device did not do. A successful fetch
leaves the mirror of its zip, and a digest that was asked for is that of whatever is
written. Generated files are never of two generations. What the workflow commits is
reproducible from itself, and the pinned zip where it claims the pinned URL. A
package declares no name twice, each of its methods addresses the node it was
made from and exists because the node's access set allows it, and the order of
Microsoft's file makes no difference. What a typed getter returned goes back out
as the same value.

## 2. The modules

| Module | Models | Notes |
|---|---|---|
| `GoText` | external: what the code uses of `strings`, `strconv`, `unicode` | a text is a sequence of character codes |
| `OmaUri` | `norm`, the prefix tests and the cut of a child name (`clienttest.go:57-66, 100, 119`) | beside `Segments`, the reference reading |
| `CspCalls` | the calls of `client.Client`, their results | vocabulary of the transports |
| `CspTree` | abstract: a tree on which each call is one step | what `InMemory` implements |
| `InMemory` | `clienttest.InMemory` | one action per method body, one per iteration of a range loop |
| `SyncML` | `Document`, `writeOp`, `hasPayloadMeta`, `hasData`, `statusFor`, `resultFor`, the split of a listing | a document is the sequence of its commands |
| `CommandLog` | abstract: a log of commands and immutable copies of it | what `Recorder` implements |
| `Recorder` | `syncml.Recorder` over Go slices | `append` and its spare room are explicit |
| `XmlText` | `escape` (`syncml.go:96`), and external: how an XML reader reads the text of an element | |
| `Values` | `client.Value`: Int, Bool, the string formats and their decoders; `strconv` as far as they tell | width of an int is a constant |
| `Device` | external: a device that accepts or refuses commands | what the executor relies on |
| `RemoteTree` | abstract: calls carried out at most once, answered truly or not at all | what `Executor` implements |
| `Executor` | `syncml.Executor` with concurrent callers and an unreliable sender | |
| `FetchDDF` | `cmd/fetchddf` with Microsoft's server, the clock and stops | |
| `GenCSP` | `cmd/gencsp` and `internal/codegen/generator.go`, among hand-written files | |
| `Ddf` | `internal/ddf`: `Parse` of one root | a tree is a function from positions to nodes |
| `Naming` | `internal/codegen/naming` | |
| `Service` | the kinds of `valueKind`, and a generated Get (`functions.tmpl:5-19`) | |
| `Builder` | `internal/codegen/build` | the recursion as a machine with an agenda |
| `Pipeline` | `.github/workflows/ddf-update.yml`; instances of `FetchDDF` and `GenCSP` share the checkout | composition |
| `*_proof` | theorems; `Text_proof` has those of the pure modules, over the texts of `MCText` | section 6 |
| `MC*` | constants for TLC; `MCText` enumerates the texts on which the pure modules are checked | |

### State and actions against the code

**InMemory.** `mu`, `nodes` and `Executed` are the struct's fields; `pc`, `call`,
`res` and `frame` are the goroutines' stacks. `Lock` is `t.mu.Lock()`, `Return`
the deferred unlock. `Store` is the body of Seed, Add and Replace. `ListStep`
and `DeleteStep` are one iteration of the range over the map: any entry that is
still in the map and has not been produced may be next, which is what the Go
specification says of a map that loses entries during iteration. `ListDone` and
`DeleteDone` are the code after the loop.

**Recorder.** `ops` and each of `views` is a slice header; `arrays` are the backing
arrays. `AppendTo` is Go's `append`: it writes into the spare room if there is
any, otherwise it copies to an array of twice the capacity. Each method queues
its operation and sets the error it returns.

**Executor.** `Call` is a method up to the call of `send`; `Serve` is the device
acting on the request; `Receive` is `roundTrip` after `send` returned a response,
`SendFails` after it returned an error. A request whose send has failed is lost,
or moves to `late` and is served at any later time. `Arriving` gives every
response the model distinguishes: malformed or empty, without a status, with the
header's status before or after, with a status that is no number, without
results, with results of another command first, with the default format left
out. `log` and `late` are history and network; the executor itself has no state.

**FetchDDF.** `meta` is `metadata/csp`, `job` the locals of `run`. `Begin` is `main`
up to the call of `run`, with any of the command lines `Flags`: `-url`, `-release`,
`-sha256` (no digest for `''`), `-fetched`, `-discover` and `-zip`; there is one
`-out`. `Acquire`,
`Reject` and `Unreachable` are the ways to the first write; `Empty` and `Fill`
are the two halves of `os.WriteFile`, which truncates before it writes;
`PruneStale` and `Finish` are the prune; `Stop` is a failed write or a kill at any
point between. `todo` is the files yet to be written, taken in some fixed order
with the provenance last.

**GenCSP.** `out` is the tree below `windowscsp`, `job` the packages built. `Load` is
`loadRelease` and `loadPackages` with the directory collision check; `Clear` is
`clearGenerated`, file by file; `Empty` and `Fill` write; the registry is last and
needs distinct service names, as `emitRegistry` does. `Fetch` and `WriteByHand`
are what others do to the two trees between runs.

**Builder.** `Package` is one call; its stack is `agenda`, the nodes yet to be visited
in order, each with the walk state (`node` in the code) of its parent, and `cur`,
the node being visited. `Start` is `Package` up to the walk. `Visit` is `visit` up
to `claimBase`, with `segName` and `paramFor`. `claimBase` is a loop of `AskAgain`
that ends in `Claim` (back in `visit`) or `ClaimType` (back in `enumFor`); `used`
is `usedBases`, and it is counted up on every call, also on the ones that fail,
as in the code. `AddMember` is one iteration of `enumFor`'s loop; `AbandonEnum` its
early return, which keeps the claimed type name and drops the members; `EndEnum`
what follows the loop. `EmitInterior` and `EmitLeaf` are the rest of `visit`: which
methods, `ensureURI`, and for a container its children put before the rest of
the agenda. Nodes below a leaf are never visited. A node of the input is a record
of an XML node; `Ddf!Parse` makes the snapshot from it in `Init`, so a path that
the builder composes is compared with the path that the parser composed.

**Pipeline.** `step` is the workflow's step; `F` and `G` are instances of the two tools
on the checkout's trees, with their variables renamed. What `gencsp` finds is a
function of `meta` (`Found`). `Discover` is `fetchddf` with no flag but `-discover`
(`Update`). `Merge` is the maintainer.

### Abstractions

Values, snapshots and files are records that say what they were made from, not
their bytes; the properties compare origins. Two zips have one SHA-256 only if
they are the same. Text is abstract in the modules of the transports and the
tools, and concrete in `OmaUri`, `Naming`, `Values`, `XmlText`, `Ddf` and `Builder`.
XML parsing is external: a response either parses into elements or does not. Go
file text is not modelled: a file is a function of its package and, for `doc.go`
and the registry, of the release. In `Builder` a name with a fixed prefix (`URI`,
`Get`, `Create`, ...) is the pair of its prefix and its base, the package is the
set of what it declares, and the wording of comments is left out. A document is
one root: `fetchddf` splits the roots before the builder sees them.
The fetcher's writes are in an order of names; any fixed order with the
provenance last is allowed. `GenCSP` names packages and services in a simpler way than
`naming.go` and `build.go` (no fallback to `csp`, `ExportName` as the identity on a
base); what its properties need is only that names may fall together and that the code
tells when they do. The names themselves are in `Naming`. A device does not
receive one request twice unless the SDK sends it twice: duplication by the network
is left out. What a device lists for a leaf is the leaf's text, split by the same
`SplitNames` in `Device` as in `Executor`, so a fault of the split would not show
there in `Transparent`; for containers it would.

## 3. Assumptions

| Assumption | Why |
|---|---|
| URIs are sequences; the missing value is none of the values | typing |
| values are made by the constructors of `client.Value` (`PayloadsAssumption`, `ValuesAssumption`): a format, and no text for null and node | `value.go:29-73`; a `Value` literal with an empty format would leave the document without its Meta |
| a device has finitely many nodes, none with an empty name (`NodesAssumption`) | a listing is finite, and the code drops empty names (`executor.go`) |
| status codes of acceptance are 200..299, of refusal outside | definition of the two sets of `Device` |
| the pinned zip exists, has been uploaded to the pinned URL, and in the workflow parses (`PinAssumption`) | `main.go:36-39` |
| command lines name a file of the server, a zip's digest or none, a day or none (`FlagsAssumption`) | typing; the workflow's one command line is `Update` |
| uploads are of zips, and each zip has its entries (`UploadsAssumption`, `EntriesAssumption`) | typing |
| no snapshot is called PROVENANCE (`NamesAssumption`) | the fetcher writes `PROVENANCE.json` beside the snapshots and would overwrite it |
| a reserved name with `Name` added is not reserved (`ReservedAssumption`) | true of the table in `naming.go:92` |
| an int has at least one bit (`IntBitsAssumption`) | typing |
| a document is a finite tree: where there is a node there is its parent, its name is text, and its access is of the six verbs (`DocsAssumption`) | an XML file is one; `model.go:48` |
| the sender returns the response to the request it was given | `SenderFunc`'s comment; the code never compares LocURIs |
| bounds are natural numbers (`BoundsAssumption`, `MaxLenAssumption`, ...) | bounds |

## 4. Bounds

| Bound | Value | Why it is enough |
|---|---|---|
| `MaxLen` of URIs (MCText) | 4 | two segments, an empty one, doubled and trailing separators, a sibling with a longer name; every pair |
| ... of names | 5 | two words with two boundaries, leading digits, leading capitals of one, two and more letters, a reserved name |
| ... of XML text | 5 | `&amp;` as text, and each of its beginnings; CR LF and CR alone |
| ... of values | 4 | a sign, a base prefix, three digits, underscores between, before and after them |
| `IntBits` | 8 | both ends of the range within four characters |
| documents of `MCBuilder` | three families | every shape of at most three nodes whose names fall together directly, through a number, along a path (`A/B` and `AB`) or with `Root`; every access set and format of a node over a selection for the one below; enumerations of three members and of two neighbours with names, literals and a type name that clash |
| goroutines | 2 | a conflict is between two; the theorems have any number |
| paths (InMemory) | 3 | a target (spelled with a trailing separator), a sibling with its prefix, a grandchild without its parent |
| `MaxExec` | 1 | the order of `Executed` matters only to the refinement, which has one entry and calls under way |
| `MaxOps`, `MaxViews` | 4, 2 | capacities 1, 2, 4: two reallocations and an append into spare room with a view before and after |
| `MaxCalls` (Executor) | 2 | one late request and a later call, or two calls at once |
| `MaxRuns` | 3 (fetch), 2 (gen, pipeline) | a run over the leftovers of one stopped over the leftovers of another; a run after a stopped run |
| `MaxDays` | 1 | two dates |
| `MCFlags` | 6 command lines | none; `-discover`; `-zip`, with the pinned digest and with none; a download with no digest; a bump to another URL with its digest and `-discover` |
| `MaxHand` | 1 | a hand-written file in any place |

`CHECK_DEADLOCK FALSE` is set wherever the bounds on calls, runs or views make
the model end, and for `builder` and `text`, which end when they are done; the
in-memory run checks deadlock. Goroutines are symmetric in the run of `Executor`;
the runs that check liveness have no symmetry.

## 5. The runs

| Run | Shows |
|---|---|
| `text` | every short text of four kinds. URIs are read as segments: prefix test, cut, normal form. Package, alias and export names are the words of a name and nothing else, so exactly what differs only in boundaries or case clashes; parameter names are identifiers that are not reserved, and stable. Escaped text is read back by an XML reader. A value a getter returns goes out again as the same value; the constant of an allowed value comes back as itself, and only a leading zero is read differently by the generator and the decoder |
| `in_memory` | `InMemory` implements `CspTree`: the loops see and remove what an indivisible call would, a Delete takes only its subtree; and every call returns |
| `in_memory_missing` | violated: `Replace` of a missing node succeeds in the fake, while `errors.go:8` announces `ErrNotFound` |
| `recorder` | `Recorder` implements `CommandLog` although views share arrays; each command comes back out of the document as it was queued |
| `executor` | no request is acted on twice, outcomes are the device's, and `Executor` implements `RemoteTree` |
| `fetch_ddf` | success leaves the mirror of the zip; a run that is given a digest changes the tree only towards the mirror of that zip |
| `fetch_stopped` | violated: after a stopped run the provenance names one zip and snapshots are of another |
| `gen_csp` | generated files are of one generation while and after a run writes; success is complete, with distinct names |
| `pipeline` | commits and pull requests are whole and reproducible whatever fails; a new drop is never overlooked although `git diff` does not see new files; what claims the pinned URL is the pinned zip |
| `pipeline_changed` | violated: content that changes behind the pinned URL is refused, while the workflow's comment says it is taken in |
| `builder` | no name is declared twice however names fall together; what a method refers to is declared and its arguments differ; a method's URI is the path of its node; methods match access sets; the order in which the file lists siblings of different names is irrelevant; the builder ends |
| `builder_access` | violated: a container with a fixed name has no Delete method though its AccessType has Delete, while the README promises the operations for every node and the plan maps Delete without restriction |

**Fairness.** `in_memory` assumes that a goroutine inside a method keeps running (weak
fairness of `Work`), since nothing in a method blocks once it has the mutex; and
`sync.Mutex` hands itself to a goroutine that has waited for more than a
millisecond (its starvation mode), hence strong fairness of `Lock`. No call is
assumed to be made. `builder` assumes weak fairness of its next-state relation:
`Package` is one function on one goroutine that waits for nothing, so once called
it runs; that its loops and its recursion run out is what `Terminates` adds. The
tools and the executor promise nothing that must eventually happen: a sender may
block for ever.

**Every property can fail.** For each one there is a definition beside the code's
(`LockUnguarded`, `OpsFullCapacity`, `SendFailsRetries`, `ClearOthers`,
`ClaimUnchecked`, `NodeAtShared`, ...) that
changes it as a plausible bug would; TLC finds the property violated with it.

### Observed while modelling, without a run

- A slice that `Ops` returned may be read for ever, but a caller that appends to
  it writes into the array the queue grows in.
- A stopped `gencsp` can leave an empty `.go` file. It has no header, so
  `clearGenerated` never removes it; it stays if its package is gone.
- `WriteFile` overwrites a hand-written file that lies under a generated name.
- With `-zip`, the provenance still names the URL that would have been used. With
  `-sha256 ''` (`main.go:50`) any zip is accepted, on the disk or behind the URL, so
  `fetchddf -zip other.zip -sha256 ''` writes the pinned URL and release beside the
  digest of another zip: that the pinned URL means the pinned zip is a property of
  the workflow (`Pipeline!PinnedIsPinned`), not of the program.
- `-discover` compares the link with the `-url` given (`main.go:65`): with another `-url`
  it turns to the pinned URL without a digest when the page links that one. The
  flag's usage text says so.
- The weekly workflow opens a pull request every week: `PROVENANCE.json` has today's
  date (`main.go:118`), so `git diff` finds a change although the linked zip is the
  pinned one. `ddf-update.yml:4-6` says it is opened when the zip differs.
- `escape` leaves carriage returns alone, and an XML reader turns CR LF and CR into
  LF: `EscapedTextReadsBack` holds up to that.
- `Bool`'s comment says "case-insensitive" (`value.go:84`); `strconv.ParseBool` takes
  `true`, `True`, `TRUE`, `t`, `T` and `1`, but not `tRUE`.
- `ImportAlias`'s comment says "unique across both families" (`naming.go:43`): packages
  `a_b` and `ab` of one family would share one. None do in `metadata/`.
- Allowed values are read in base 0, device values in base 10 (`build.go:540`,
  `value.go:77`). Base 0 takes prefixes and underscores: `0x1` is a constant 1, which is
  sent as `1`, and `1_0` a constant 10; as a device's answer both are an error. With
  a leading zero both readings succeed and differ: `010` is a constant 8 and a value 10.
  The allowed values of int nodes in `metadata/` are plain decimals and `0x...`.
- Fixed containers with Delete, Add or Replace in their access sets (58, 69 and 31
  in `metadata/`) have no method for it; 34 dynamic containers have no Update. Below the leaf
  `./Device/Vendor/MSFT/Defender/Health/DeviceControl/State` there is another node,
  which is never visited.
- `reserved` lacks names that a generated method uses itself (`v`, `err`, `n`, `client`,
  `fmt`). No title in `metadata/` becomes one of them.
- Names of types and of constants share the scope of a Go package but are claimed in
  separate tables. A node `A` with a member described `Value` makes a type and a
  constant `AValue`, which does not compile. None do in `metadata/`.

## 6. What is proved

| Theorem | Statement |
|---|---|
| `InMemory_proof!TypeCorrect` | `TypeOK`, by `Invariance`: types, mutual exclusion, control flow, loops in step with the map |
| `InMemory_proof!Linearizability` | `Linearizable`: `InMemory` implements `CspTree` |
| `InMemory_proof!DeletesInside` | `DeleteStaysInSubtree`: nodes vanish only by a Delete, and only inside its target |
| `Recorder_proof!TypeCorrect`, `ViewsAreSafe` | `TypeOK`; `ViewsBehindQueue`: an append to the queue never writes where a view looks |
| `Recorder_proof!Refinement` | `RecordsCalls`: `Recorder` implements `CommandLog` |
| `Recorder_proof!DocumentReadsBack` | `DocumentCarriesQueue` |
| `Executor_proof!TypeCorrect`, `OnePlace`, `TrueAnswers`, `ActedOnOnce` | `TypeOK`, `InFlight`, `AnswersAreTrue`, `AtMostOnce` |
| `Executor_proof!Refinement` | `Transparent`: `Executor` implements `RemoteTree` |
| `FetchDDF_proof!TypeCorrect`, `MirrorLeft`, `DigestHolds` | `TypeOK`, `MirrorsZip`, `AskedZipOnly` |
| `GenCSP_proof!TypeCorrect`, `NeverMixed`, `CompleteWhenOk` | `TypeOK`, `Unmixed`, `Complete` |
| `Pipeline_proof!TypeCorrect`, `PublishedIsReproducible`, `DropsAreSeen`, `PinHolds` | `TypeOK`, `AlwaysReproducible`, `NewDropIsSeen`, `PinnedIsPinned` |
| `Builder_proof!BuilderTypeCorrect`, `BuilderNamesDistinct`, `BuilderConstantsDistinct`, `BuilderMethodsDeclared` | `TypeOK`, `NamesDistinct`, `ConstantsDistinct`, `MethodsAreDeclared` |
| `Builder_proof!BuilderMethodsMatchAccess`, `BuilderMethodsAddressed` | `MethodsMatchAccess`, `MethodsAddressTheirNode` |
| `Builder_proof!SiblingOrder` | `SiblingOrderIrrelevant` |
| `Text_proof!TestsAreBySegments`, `ChildrenAreSegments`, `KeysAreCanonical` | `BeneathIsSegmentPrefix`, `ChildIsNextSegment`, `NormIsCanonical` |
| `Text_proof!EscapedIsRead`, `ValuesComeBack` | `EscapedTextReadsBack`, `TypedValuesRoundTrip` |
| `Text_proof!NamesStay`, `NamesByWords` | `NamesAreStable`, `NamesAreTheirWords` |

So every invariant and action property of a passing run, and each of the three
refinements, is a theorem; liveness is not.
They hold for any goroutines, URIs, documents, values, zips, command lines, snapshot trees and bounds,
under the assumptions of section 3, and no other. Those of `Text_proof` are about
texts of any length over the characters that `MCText` lists for each kind
(`Chars`); most of the lemmas they rest on are about any characters.

**InMemory.** `Linearizable` is not inductive: a loop that has produced some keys must
be known to have seen exactly their children (List) or to have removed exactly
those inside the target (Delete), and nobody else may be in the map. `RangeInv`
and `MutexInv` say so. A Delete takes effect when it gets the mutex: the
refinement mapping hides the entries it has yet to remove and already shows its
result, so its iterations are stutters. Lemma `Alone` (no other goroutine ranges)
makes the mapping of the others independent of the step. That a Delete
stays in its subtree (`DeletesInside`) rests on the lemma of `Text_proof` that relates
its string test to segments.

**Recorder.** Views of the queue's own array must end before the queue does
(`ViewsBehindQueue`, with the types): then `append` writes behind all of them, and
a reallocation leaves their array for good (`AppendWritesBehind`). From it follows
that contents of views are constant and the queue is extended by one command. That the
document gives every command back (`DocumentReadsBack`) needs of the queue only its
types: no operation lacks its URI, and a payload has the format that `hasPayloadMeta`
looks at.

**Executor.** `InFlight` is the strengthening: a number without a reply is in one place
only. With it each `Act` finds no earlier reply (`ActedOnOnce`), and what is
received was read from the reply to the call's own number (`TrueAnswers`, with
lemma `StatusIsReplys` about `statusFor` over every arriving response). The refinement
maps a call to one of `RemoteTree` that takes effect when the device acts on it. For
that, `Carried` ties the goroutines' variables together: what is on the wire is the
request of the call under way, and the reply noted under its number was given to
that call, in a tree the device once had. Then what a device reads out of the document is
the call, what `statusFor` and `resultFor` find in any response that may arrive is that
reply or nothing, and a listing's text splits into its names (lemmas of `Text_proof`).
Steps of the network alone are stutters.

**FetchDDF, GenCSP.** Both have the same argument: whatever is not due any more holds
what belongs there (`Progress`), what is due is among the targets, and the next
file due is one of them. For the fetcher, `Verified` carries the digest check from
`Acquire` to the writes; names without clashes (`Parses`) make the content of a
name the snapshot of one root. A step that changes the tree changes one file, into
what the mirror of the run's zip has there or half way to it (`TowardsMirror`), and
where a digest was given that zip is the one asked for (`AskedIsMirrored`). For the generator, nothing generated is left when
the writing begins, and an opened file loses its header until it is filled.

**Pipeline.** `AlwaysReproducible` compares what is committed or offered with a whole zip and
the code of that zip; the argument follows one week. `Fetching`: when fetchddf says
`ok`, every wanted file holds what belongs there and nothing stale is left, so
`meta` is the mirror of its zip (lemma `OkIsMirror`). `Generating`: gencsp starts from
the generated files of the checkout, none of them torn (`Clean`), so clearing
removes them all, and whatever is not due any more is `Proper`; at `ok` the
tree is the surface of `meta`. Hence what is offered is a mirror with its surface
(lemma `MirrorIsGood`), and what is merged was offered (`Publishing`). A step that
failed or was stopped ends the week, and the next one starts from a checkout.
The lemmas are about the two tools as `Pipeline` composes them: they restate what
`FetchDDF_proof` and `GenCSP_proof` establish of each alone, since in the pipeline
each starts from the tree the other left. The types of the fetcher's variables
are taken over from `FetchDDF_proof`, instantiated on the checkout. A new drop is
seen (`DropsAreSeen`) because both the checkout's `meta` and what is committed are
mirrors of one zip each, so if the snapshots differ the zips do, and the
provenance, which is tracked, names the zip. That the pin holds (`PinHolds`) follows the
digest through a week: a run on the pinned URL asks for it (`Asked`), since the
workflow gives no flag but `-discover`, and what is written, offered and merged is
of a run that did (`TreesKept`).

**Builder.** Three tables make three kinds of names differ. `used` counts every name
that was asked for, and a name is taken only when its count is zero; `NamesUnused`
says that whatever the package declares, and whatever the visit under way has
claimed, has a positive count, so a name just claimed is new to methods, URIs and
types at once (`NamesDistinct`). `FirstFree` returns a name outside the set it is
given (lemma `FreeIsFree`); the set is the constants of finished blocks with
those of the block under construction, and `ConstantsKept` says that every
finished block is in it. That each literal has exactly one case needs `dup` to
hold of a member iff an earlier one has its literal (`GoodMembers`). `Walks` says
that the parameters of every walk state on the agenda differ, since `paramFor`
avoids those of the nodes above; `BlockInPlace` that the type a leaf's methods
name is that of the block just finished, or none. No assumption is made about what
the nodes are called, how they nest or what `ConstName` returns.

Which nodes get methods is a fact about the whole walk (`WalkInv`): the snapshot is
the parsed document (`Parsed`); what is on the agenda are its nodes (`Places`); no
method is more than its node's access calls for (`Sound`); and a node that no leaf
is above has its methods already unless it or a node above it is still pending
(`Complete`). At the end nothing is pending. This needs the parsed tree to be
one: `Parse` moves every node to the position that its rank among its siblings
gives it, and the lemmas about ranks in a finite order show that the positions are
closed under fronts and without gaps. `FillInv` follows a walk state down: filled in
with the placeholders of the dynamic nodes above, its parts make the path
that the parser composed for the node, and `ensureURI` hands them on. For
`SiblingOrder`, two siblings exchanged in the file have each other's positions
before the sort and their own ranks after it, because the order of names is total
on siblings that names tell apart; all below them moves along.

**Texts.** Induction over texts is out of reach as a rule for predicates, but sets and
functions can stand for predicates: a set of lengths that has 0 and is closed under
successor has every length, by the least counterexample (`Induction`,
`SeqInduction`), and in the same way a recursive function is what it is written as
(`Recursion`). From these follows how each operator grows from left to right, one
lemma for each: splitting, joining, keeping characters, runs of characters,
decimal numerals, `ExportName`, folding, escaping. The theorems rest on them:

- *URIs*: joining undoes splitting, so a string prefix that ends at a separator
  is a prefix of segments.
- *Escaping*: `ReadsAs` relates an escaped text to what a reader makes of it, one
  character at a time; the reader is never left in the middle of an entity, also when
  the text has entities in it.
- *Values*: the text that `Itoa` makes of a number is a numeral that stands for it
  (`ItoaIsNumeral`), hence read back in base 10 within any width (`FormatIsRead`);
  what setters send has no line ends in it (`Flat`) or is sent as it came, so
  the XML reader changes nothing the getter would notice. A text that base 10 can read has
  digits only, so base 0 finds no underscores and no prefix in it, and either the
  same number or the octal one (`DigitsAnnounce`, `ReadingsAgree`).
- *Names*: a text is made up of its words (`Worded`): its letters as `ExportName`
  capitalises them are its words joined with nothing between, its folded form is
  its words in small letters joined with underscores, up to the boundaries
  that `PackageName` trims. Both are proved along the text, where the last character decides
  whether a word goes on, ends or begins. Removing underscores joins the words
  (`NoUnderJoin`), and what `JoinExport` makes of segments that begin with letters is what
  `ExportName` makes of the path (`LettersOfSegments`).
- *Stability*: what is already in the form that a naming function produces
  (`Neat`, `Uncapped`) is left as it is.

**Only model-checked.** Liveness (`CallsReturn`, `Terminates`), which the prover does not
reason about under fairness. That a run's bounds are reached and that every
property can fail is what TLC shows, too.

## 7. Plan

What the plan named is modelled, except `Delivery` (a recorder's document on a
device), which adds nothing to `DocumentCarriesQueue`: each command comes out of
the document as it was queued, in order. The theorems it named are proved. Left:

1. The names of texts over all of ASCII: `WordSet` and `Worded` already are about every
   letter and digit; `MCText` enumerates fewer.
2. `Terminates` by a measure: that every step of the builder makes a number of nodes
   and members to come smaller is an action property, and so within reach.
3. The scopes of generated text: names that the template declares itself, and types
   and constants in one table (section 5, observed without a run).

## 8. Not modelled

- Generated packages and the registry's Go code, some 240,000 lines, as text: each
  method is one call of the interface in one of the shapes of `Service`; which
  methods, URIs, types and constants there are is what `Builder` is about, and the
  definitions are mapped to the code that generates them. Nearly all lines of the repository
  are of this kind, so the share of lines that are mapped stays small.
- The text of floats and of base64 data: the standard library's on both sides.
- Templates, gofmt, `FirstLine`, `WrapComment`, doc comments: layout.
- Descriptive fields of the DDF (applicability, group policy mapping, deprecation,
  dynamic naming, defaults): they are copied into snapshots and comments.
- XML parsing by `encoding/xml`, HTTP, the file system beyond truncate-then-write.
- `Executed` read by a test without the mutex; a recorder shared by goroutines:
  neither is promised.
- Examples, documentation, release and lint workflows.
