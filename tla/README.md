# TLA+ models of golib

`golib` (faustbrian/go-library-tools) is the command that a family of Go
libraries uses to verify itself: it runs gates (tests, linters, scanners,
coverage, mutation testing) over the modules of a repository, keeps evidence of
expensive verifications beside the source, starts service fixtures for gates
that need them, and upgrades its own pins. Most of it is sequential. What is
hard is where several processes share directories, where docker or a scanner
outlives a failure, and where a person edits or a machine stops in between.
These modules model those parts.

## 1. Inventory

| Part | State | Operations | Interacts through | Hard because |
|---|---|---|---|---|
| Evidence store (`internal/evidence`) | one JSON record per input digest | `Store`, `Load`, `Inspect` | files shared by all processes and committed to git | concurrent writers, kills, power loss, I/O errors |
| Report store (`internal/mutation/report_store.go`, `reuse.go`) | one report per input digest | `StoreReportWithReview`, `LoadReportWithReview`, `ReuseWithReview` | same files; a record names the digest of its report | the two stores are written one after the other |
| Mutation campaign (`internal/mutation/campaign.go`) | workspace, built tool, coverage profile | `Run`, `Import` | `go`, the gremlins tool, the two stores, the working tree | edits while it runs, several campaigns, restarts, reviews that change |
| Reviews (`equivalent.go`, `zero.go`) | inventories in the repository | `Review`, validation of a report | read once per campaign | a review is bound to a source that moves |
| Legacy import (`migration.go`, `verifier_compatibility.go`) | archive and ledger | `Import` | both stores, the working tree | edits between two readings, partial imports, campaigns that publish meanwhile |
| Service fixtures (`internal/services`, `gates/services.go`) | lease: containers, volumes, networks, identities | `Start`, `Close` | docker daemon; the gate that runs inside | partial starts, cancellation, failing cleanup, concurrent `Close` |
| Process executor (`gates/process.go`) | task directory, caches | `Run`, `runBounded`, cleanup | operating system, environment | goroutines, process groups, pipes, overflow against exit |
| Build caches (`gates/process.go`, `gates/mutation.go`) | invocation caches, borrowed session caches | classification of each command | directories shared by commands and invocations | provenance: who wrote what a verifier reads |
| Upgrade (`internal/upgrade`) | `.golib.yaml` and the CI workflow | `Plan`, `Apply` | two files that must agree | failure and stop between two replacements |
| Gate runner (`gates/runner.go` and the gate files) | retained tool binaries, temporary resources, the selected change range | `Check`, `Local`, `LocalChanges`, `Coverage`, `Docs`, `API`, `Mutation`, `MutationPackage`, `Release`, `Secrets`, `Workflows`, ... | executor, services, stores, git | order, early returns, cleanup, HEAD that moves |
| Change selection (`affected.go`, `fuzz_smoke.go`) | none that outlives a call | `ChangedModules`, `fuzzTargetAffected` | catalog, `go list`, git | closures over modules and imports, conservative widening |
| Workflow security (`workflows.go`, `local_actions.go`) | references inside of and finished | `Workflows` | `.github` and local actions | recursion with cycles, two names of a descriptor, limits |
| Catalog publication (`cohesion/aggregate.go`) | staged files and backups | `Aggregate`, `CheckAggregate` | several artifacts that must change together | failure, failing rollback, kill between renames |
| Specification decisions (`specification/check.go`) | none that outlives a call | `Check`, `CheckOnline` | seven documents of a module, DNS, HTTP authorities | documents that drift apart, answers that change |
| Command line (`cli/cli.go`) | the executor | `ExecuteContext` | all of the above | errors of the work and of the cleanup in one exit code |
| Coverage, inventory, configuration, documentation checks, cohesion rendering, release artefacts | none | pure functions of their input | | boundaries of parsers |

`PROJECT.json` repeats the list with the sources, and gives the hazards of this
code at the line where each bites, with the properties that would notice.

What makes the parts correct, in one sentence each:

- store: write once; the loser of a race gets the winner's document or a
  conflict; nothing torn is ever visible under a digest;
- campaign: a package passes only on a report that the tool gave for exactly
  the content of its digest and that today's reviews accept; killing it never
  blocks a later one;
- lease: no resource the lease tracks is left in docker without `Close` reporting
  it, and the order of removal never defeats the removal; the gate runs on a
  complete lease only;
- executor: a pass means that all output was seen and the scanner ended by
  itself; nothing of a call runs after it returned;
- caches: what a pinned verifier reads was never writable by repository code;
- gate runner: exit 0 means that every enabled gate ran on every selected
  module; scans see the tree before repository code may change it; what is left
  behind is reported;
- change selection: exactly what a change may reach, whatever the order;
- workflows: no accepted tree has a reachable action nobody inspected;
- import: evidence only for content that the ledger approves, and no checkpoint
  is lost;
- catalog publication: all artifacts or none, and no content is ever lost;
- specification: the documents tell of the same decisions, and their authorities
  still say what was reviewed;
- upgrade: both files change, or an error is reported and nothing changed, or
  running it again completes it.

## 2. Modules

| Module | Models | Needs |
|---|---|---|
| `ImmutableStore` | the promise of both stores: a write-once map, atomically | |
| `Publication` | the file protocol of `evidence.store` and `publishReport` | `ImmutableStore` (refinement) |
| `PublicationProofs` | proofs about it | `Publication`, TLAPS |
| `Campaign` | `Campaign.Run` and `runPackage` by several processes over both stores | the stores, one atomic step each, justified by the refinement |
| `CampaignProofs` | proofs about it | `Campaign`, TLAPS |
| `FixtureLease` | the promise of the fixtures: acquired, granted, removed, reported | |
| `ServiceLease` | `Manager.Start`, `Lease.Close`, `withModuleServices` | `FixtureLease` (refinement) |
| `ServiceLeaseProofs` | proofs about it | `ServiceLease`, TLAPS |
| `BoundedProcess` | `processExecutor.runBounded` and the scan that judges it | |
| `BoundedProcessProofs` | proofs about it | `BoundedProcess`, TLAPS |
| `CacheSession` | command classification and cache environment of invocations | |
| `CacheSessionProofs` | proofs about it | `CacheSession`, TLAPS |
| `Upgrade` | `upgrade.Apply` with `atomicWriteWithFiles` | |
| `UpgradeProofs` | proofs about it | `Upgrade`, TLAPS |
| `GateRunner` | one command that runs gates: the methods of `gates.Runner` under the executor of `cli` | |
| `GateRunnerProofs` | proofs about it | `GateRunner`, TLAPS |
| `CatalogPublication` | `cohesion.Aggregate`: staging, publication, rollback, check, kill and rerun | |
| `MigrationImport` | `Campaign.Import` beside an editor and a campaign | |
| `LocalActions` | the walk of `checkWorkflowSecurityWithFiles` and `localActionInspection` | |
| `ChangeSelection` | `ChangedModules` and `fuzzTargetAffected` | |
| `SpecificationDecisions` | `specification.Check` and `CheckOnline` | |
| `CommandLine` | `executeContext` around the five modules above it | `CatalogPublication`, `MigrationImport`, `LocalActions`, `ChangeSelection`, `SpecificationDecisions` |
| `CommandLineProofs` | proofs about it and its components | `CommandLine`, TLAPS |

An `MC...` module extends a module for TLC; its `.cfg` files are the runs. An
operator whose comment begins with "Mutant of" is a plausible bug of the
definition that follows it; it is used by no specification and exists to show
that a property would notice.

### Publication

`pc[w]` is the next file operation of a writer; `destination[k]` is the file
linked under a digest, `temporary[w]` the writer's temporary file. A document is
a *meaning* (what the canonical digests compare) and a *stamp* (completion and
elapsed time, which they ignore). Each operation of `store`
(`evidence.go:295-335`) and `publishReport` (`report_store.go:87-122`) is an
action with its failure as a disjunct; `Kill` ends a process anywhere,
`PowerLoss` ends all of them, tears what was not synced and may undo any link,
because no directory is synced. The removal of the temporary file is in a
`defer` whose error is ignored; leftovers have names no reader looks for and are
not kept in the state.

### Campaign

The digests are the things digested. A package has a `source` (what
`SourceDigest` covers and reviews are bound to) and a `rest` (everything else
hashed). `packageInputsForVerifiers` is three steps, because a concurrent edit
can fall between them: `ReadSource`, `HashRest` and `HashOwn` (files of the
dependencies, then the package's own, as `go list -deps` orders them), `Confirm`.
`Lookup` and `Verify` are `ReuseWithReview`; `Prepare`, `Execute`, the second
pass ending in `Reconfirm`, `StoreReport` and `StoreRecord` are the rest of
`runPackage` in its order. The report that the tool gives is any report
(`Flaky`), or one per content. `executed`, `accepted`, `past` and `powerLost`
are history. The records a campaign writes bind the digest of the built tool
(`Tools`), which is not part of the key. Abstracted: the canonical encodings, the
listing of files, the services and environment that are part of the key,
and the shared coverage profile. `Import` is `MigrationImport`.

### ServiceLease

A start function is a fixed program of docker calls: `Steps(service)` is its
sequence of operations (create, check, wait until ready, track, compose, publish,
withdraw). Start takes the services in the catalog's order: `pending` are those
not yet started, `First(pending)` is being started, `ip` is the position in its
program. The programs follow
`start`, `startRabbitStreamStandalone` and `startRabbitStream`; the plain
services of the catalog differ in data only and `valkey` stands for them.
Docker refuses duplicate names and the removal of what is in use. `Close` runs
under a context of its own: `Enter` is `sync.Once`, `RemoveNext` one removal,
`Answer` returns the cached error to a caller.

Docker makes more than the lease asks for, and the lease tracks none of it. A
container brings (`brings`) an anonymous volume if its image declares one
(`DataImages`, any set), and `certgen`, the member of the compose file without a
`networks` key (`rabbitstream_full.go:448-452`), brings `<project>_default`. `rm
--force` has no `--volumes`, so nothing that was brought is ever removed.
`Footprint` is a set of resources with what they bring. A call that fails or is
cancelled may have had its effect: `CreateStep` may leave what it was creating
(`Attempted`), `ComposeStep` any part of the members' footprint, and `RemoveNext`
may fail whether or not the resource is there, and report one that is gone. What a
call did in docker it has done when its client returns: the models have no effect
of a killed client that arrives later.

`FixtureLease` is the same without docker calls, lists and `sync.Once`: resources are
acquired until all that the selection needs are there or a call fails, are the gate's
until it returns, are removed in any order, and every caller is told the same report,
which holds all that is left and may hold what is gone. `ImplementsFixture` maps
`Stage` (from `phase` and `once`), the tracked resources that docker has, the error
once the cleanup is done, and the answers. It promises nothing of what docker
brought or a failed create left: section 5.

### BoundedProcess

The caller, the monitor goroutine, the copiers of `os/exec` and the scanner with
a child interleave. `Select` may take any ready case. A child may inherit the
pipes and outlive the leader. `Copy` is `boundedProcessOutput.Write` under its
mutex and `Callback` the call after the unlock. `Judge` is the scan of the
security gate, which fails on an error or an overflow.

### CacheSession

State is provenance: `writers[cache]` is who wrote into a build cache, by what
kind of command in which invocation. `Class` is the classification of
`Runner.command` and `mutationProcess`, path by path; `CacheOf` is
`commandEnvironment`. A repository command may start golib again (`OpenNested`),
whose environment has lost the session variable. Module and lint caches follow
the same classes and are not distinguished.

### Upgrade

Both files with each of their pins; `Plan` reads, `WriteTemporary`, `Sync` and
`Rename` are the atomic write of `Target`, which is the configuration, then the
workflow, then the configuration again when it is rolled back. A power loss may
undo renames independently and tears a file that was renamed unsynced.

### GateRunner

A command is a program, as in `ServiceLease`: `Program(command, ...)` is the
sequence of steps that its `Runner` method makes when none fails, built by one
operator per function of the code (`CheckModule`, `SecurityPass`, `FuzzSmoke`,
...); `Each` is the loop over the selected modules in the order of the catalog. A step is a check, a scan of the source, repository code, an advisory, the
opening or closing of an owned resource, or the use of a compiler tool. The Go
code returns at the first failure and its defers run; so `StepFails` starts the
unwinding of `runner.scopes`, last opened first, and each closing may fail too
(`CloseFails`): the error is joined, except for the resources of `Silent`, whose
removal error the code discards. `Reuse`, `Build` and `KeepTool` are
`withCompilerTool`, which keeps a binary as long as the scan pass lasts.
`HeadMoves` may come between `ReadChanges` and `BindRange`. What one check
computes is not modelled: it passes or fails. `Owed`, in the properties, is
written from the policy alone and not from the programs.

### CommandLine and its components

`CommandLine` is `executeContext`: admission of the repository, arguments,
executor, work, exit code. The work of `cohesion aggregate`, `mutation import`,
`workflows check`, `inventory --base-sha`, the fuzz selection of `check --local`
and `specification check` is the next-state relation of its component; the
variables of the others are `Unused`. `Direct` commands take no executor.
`cohesion aggregate` does not validate the tool's version and loads no inventory
(`usesCohesionGeneratorIdentity`); the admission may fail for it all the same,
by its root and configuration.

`CatalogPublication` has per artifact its target, temporary file and backup, and
what `publishCatalogSet` remembers of each (`stagedCatalog`). Every file
operation has its failure as a disjunct; the errors that `cleanupStagedCatalogs`
drops are dropped. `CatalogKilled` and `CatalogAgain` leave backups that the next
run knows nothing of. Power loss is not modelled: the directory is not synced, and
nothing is claimed about it.

`MigrationImport` takes the checkpoints of an archive in order: `Hash`, `Approve`
(the ledger), `ComparePaths` (the second reading), `StoreCheckpoint`,
`LoadExisting`, `StoreImported`. `EditPackage`, `CampaignReport` and
`CampaignRecord` happen meanwhile, `EarlierImport` is what an older release left.

`LocalActions` is the recursion of `local` as a stack of documents with the sets
`active` and `complete`. `AcceptedIsInspected` compares its verdict with the least
set of references closed under use. A reference that is complete is skipped after
the depth check only, so whether a deep tree is refused may depend on the order in
which workflows are read; that an accepted tree was inspected does not.

`ChangeSelection` is the classification of paths and both closures, against
`Least`, their reference definition. The fuzz half follows the packages of
`go list -deps -test`: `OwnersOf` a package is empty for the standard library and
third parties, whose imports are followed all the same; a package with cgo sources
imports the pseudo package `C`, which no list contains; of the target the tests are
linked, too. What counts as an input of a package (its sources, native, embedded
and `testdata` files) is the constant `InputsOf`; `.go-version` and the `go.mod` and
`go.sum` of the target's module reach every target of the module. A catalog need not
have a root module: the theorem covers both, the run has one.

`SpecificationDecisions` keeps of a document what another one is compared with:
identifiers, values, links, mentions, digests. `Contract` is
`validateDecisionContract` with one operator per function it calls. Online, every
lookup may give another answer: `ValidateDestination` and `Dial` each ask anew, and
`UseConnection` is the keep-alive of `net/http`. A public authority (`access` left out
or `public`) must give the pinned content with any 2xx status, a restricted one its
pinned denial, a conditional one either. Observed while modelling, and kept
in the model: replacements of superseded decisions may form a cycle; an entry that
says `unresolved` also contains `resolved`, since values are looked for as
substrings; a module below the root also owns the files of modules nested in it;
and a decision erased from all documents together leaves no trace here, which the
documentation leaves to the review of the change.

## 3. Runs

| Run | Bounds | Shows |
|---|---|---|
| `publication` | 2 writers, 1 digest, 2 meanings, 2 stamps | the file protocol implements `ImmutableStore`; nothing torn; answers agree with the store |
| `campaign` | 2 campaigns, 1 package, 2 sources, 2 rests, 1 mutant, 2 tool builds, 2 runs, 1 edit, 1 review edit, 1 failure | what is accepted was executed on that content and fits today's review; records have their reports; evidence never changes |
| `campaign_progress` | 2 packages, 3 runs, 1 failure, no edits | a campaign left alone passes; a pass is complete |
| `service_lease` | all selections of 3 services, 2 attempts, 2 faults, 2 callers of `Close` | the programs and removals implement `FixtureLease`; a gate runs on a complete lease; only real failures are reported; nothing is tried forever; always returned |
| `service_lease_names`, `service_lease_failed_run` | same | **violations** |
| `bounded_process` | 2 streams, 1 child, limit 1 | pass means whole; stopped means failed; nothing runs on |
| `cache_session` | 2 invocations, 4 commands | gate verifiers are isolated; the session is classified |
| `cache_session_campaign` | same | **violation** |
| `upgrade` | 2 releases, all combinations of pins, 3 faults | success is pinned, failure changes nothing, reruns converge |
| `gate_runner` | 14 commands, 2 modules, 3 policies, every selection, 2 faults, 3 heads | passed means that everything ran; scans before code; leftovers reported; one change range |
| `commands` | 2 artifacts, 2 versions, 2 file faults, 2 runs; 3 archives, 5 ledgers, 1 edit, 2 imports; 2 workflows, 4 references, depth 3; 4 modules, 7 paths, 4 packages (one unowned, one with cgo); 2 specified modules, 3 addresses, 4 statuses, 2 requests | what each command promises, with what its exit code says of it |

Why the bounds are enough: the races of the stores and of a campaign are
between two processes at one digest, and one failure or one edit at each point
suffices to separate any two steps (`MaxEdits`, `MaxReviews`, `MaxRuns`,
`MaxFailures` bound them in the guards). Packages are independent but for the
tool and the order, which needs two. In a lease two faults allow a failed start
followed by a failed removal. A provenance error needs a writer, a reader and a
second invocation. Three faults let an upgrade fail, fail to roll back and stop.
Two faults let a gate and a cleanup after it fail, or HEAD move and a step fail;
two modules are what an order between modules and a loop left too soon need, and
the three policies differ in which of them is secured. Two artifacts separate
every point of a publication; two file faults are a failure and a failing
rollback. Three archives and five ledgers give each form of approval, replacement
and ambiguity. Depth 3 is passed by a chain of four documents. The trees of
`MCSpecificationDecisions` are a consistent repository and those that differ from
it in one document, or in any combination of versions of the documents that name
decisions.
`CHECK_DEADLOCK FALSE` is given where a system really stops: all runs made, the
process returned, the upgrade done, the command exited. Symmetry is used only in runs without
liveness, over campaigns, contents and invocations that are interchangeable.

Fairness. `campaign_progress`: each campaign goes on (weak fairness of its own
step), since each step is a local file operation or a process under the context;
nothing is assumed about edits, kills or starts. `service_lease`: docker calls
and the gate return. `bounded_process`: runnable goroutines run; the scanner and
its children are owed nothing. `upgrade`: the program goes on, and somebody runs
an upgrade that failed again; the last is an assumption about the user, not the
code, and convergence is conditional on it.

## 4. Proofs

Each theorem below holds for every value of the constants that satisfies the named
`ASSUME` of its module; those say that `None`, `Torn`, `Absent` and the like are no
values of the domains, that bounds are numbers and that lists are lists. Where a
theorem assumes more it says so here and in its statement. Every inductive
invariant was an invariant of a TLC run before it was proved.

`PublicationProofs`, for any sets of writers, digests, meanings and stamps:

- `InvariantHolds`: `Inv` is inductive. It is stronger than the properties: at
  each operation it says what is in the temporary file and that it is synced
  before the link, because "whole" (`PublishedComplete`) is not preserved by a
  power loss without "synced" (`PublishedSynced`).
- `NeverTorn`, `AnswersHold` follow.
- `Refinement`: `Spec => Abstract!Spec`. `Link` maps to the abstract publication,
  `Compare` to reuse or refusal, a power loss to forgetting, every other
  operation to a stutter or an abstract failure; `AnswersAgreeWithStore` before
  the step is what makes the reply of a reuse the stored document.

`CampaignProofs`, for any number of campaigns, packages, contents, runs and edits:

- `InvariantHolds`: types, `Carried` (nothing is used before it is computed) and
  the pair `RecordingHasReport`, `RecordHasReport`. The second is not inductive
  alone: a process about to write the record must still find its own report, which
  holds because no store action replaces a report and a power loss ends the process.
- `RecordedReportIsThere`, and `EvidenceStays` as an action property.
- `ProvenanceHolds`: if no edit restores an earlier content (`~Reverting`), what a
  process has hashed is content that the package had at one moment, and what it is
  about to store was executed on it. The strengthening follows the content: as long
  as a package shows the source that was read first, everything hashed in between
  was hashed of that source; once it shows another, the comparison after the work
  fails. `EvidenceIsGenuine`, `AcceptanceIsProved` and `ReviewsBindTheirInput` follow.
  The assumption is needed: no comparison of digests can tell an edit that was
  undone from none (section 5).
- `PassingIsComplete` needs no such assumption: `Progress` says that the packages
  before the one at hand have been accepted, in this run.

`BoundedProcessProofs`, for any streams, children and limit. `InvariantHolds` joins
what each party knows: `ClosedOnce` (the channel is closed exactly when its only
close has run), `PipesInOrder` (a copier at its end of file has nobody left who
could write) and `CallerInOrder` (what the caller has waited for, by position).
`ChannelsCloseOnce`, `PassIsWhole` and `NothingStaysBehind` follow: none is inductive
alone, since an overflow may be noted as long as somebody can still write.

`CacheSessionProofs`, for any number of invocations and commands. `SessionsAreClean`
is that only verifiers of gates wrote into the borrowed verifier cache. The invariant
adds that a running command uses the cache its class selects, that nested
invocations borrow nothing, and whose output each cache holds;
`GateVerifiersAreIsolated`, `VerifiersStayAtHome` and `ScratchIsAccountedFor` follow.
The second has no hypothesis: what a pinned program meets from another invocation was
left by pinned programs in a verifier cache its own invocation borrowed when it opened,
and by no invocation that a repository command started. It says nothing of what an
invocation itself has written; for the campaign that is the violation of section 5.
Nothing is claimed about when a cache may be cleaned. The lemma
`ClassOfCommands` is the classification itself, command by command.

`UpgradeProofs`, for any releases, failures, stops and reruns: `AnswersHold` (what
upgrade answers is true of the files) and, as an action property, `NeverStuck` (no step
makes a repository unplannable). A power loss may bring back older contents, so
the invariant says of those, too, that `Plan` once accepted them.

`ServiceLeaseProofs`, for any selection, number of attempts and finite set of callers.

- `InvariantHolds`: while Start runs, the lease has tracked exactly the resources
  `Made` by the operations completed so far and docker has their footprint
  (`Opening`; of the cluster's members only once compose has made them); otherwise what
  it has is a part of that and of what `Attempted` says (`Supported`);
  while Close runs, a tracked resource that docker still has is in the queue or in the
  error (`Closing`); the queue keeps every user of a resource before the resource
  (`Ordered`).
- `LeaseKnowsAll`, `CleanupIsReported` and `CleanupOrderIsRight` say it for each
  end of Start: after Close the tracked resources that are left are in its report, and
  other leftovers were brought along or left by the create that failed. That those
  exist is what the run `service_lease_failed_run` shows.
- `CloseAnswersOnce` and `GatesRunOnCompleteLeases` follow.
- `LeaseRefinement`: `Spec => Abstract!Spec`. The operations of
  Start map to `Acquire` or `GiveUp`, whichever program they are of; `Started` to `Grant`,
  because every operation of every selected program is behind (`Opening`); `Enter` and a
  cancellation to stutters; `Closed` to `Settle`, because nothing is left in the queue
  (`Closing`); an answer to `Tell`, however late it is asked for.
- `EveryLeaseEnds`: each step makes `Remaining`
  smaller, eight natural numbers compared from the first (phases, services, operations,
  readiness attempts, stages of the cleanup, removals, callers without an answer, the
  cancellation still possible). With it `EventuallyReturned` needs only that some step
  is always possible and taken, which stays with TLC.

`CommandLineProofs`, for the commands with their components; `ProcessStep` says that a
step of the process is one of its component or none.

- `ImportIsApproved`, `ImportAccountsForAll`: whatever is edited or published
  meanwhile. The invariant ties the hash, the approval and the second reading of
  the checkpoint at hand, by the position in the loop.
- `InspectionIsComplete`: for any tree, cycle and limit, an accepted one has no
  reachable action that was not inspected. The stack is a path in the references,
  what is complete has its references complete or on the stack, and at the end,
  with an empty stack, the complete references are closed under use.
- `SelectionIsExact`: the modules and the fuzz verdict are those of `Least`, for any
  catalog, with or without a root module, and any graph of packages, owned or not, each
  with finitely many imports. Both
  closures are, at every step, between what they began from and any closed set, so
  the order in which they grow does not matter.
- `DecisionsAreReviewed`: for any repository, resolver, authorities, statuses and bodies. `DecisionsInv`
  says what each stage has found of the module at hand (`StagesPassed`), that the
  modules behind it declare nothing or have passed and share no identifier
  (`ModulesPassed`), and, while fetching, that each authority has been seen or is still
  ahead in the list of requests (`AuthoritiesSeen`). Two lemmas carry it: a list whose set of
  identifiers is as large as the list has no identifier twice, and the flattened list
  of requests keeps every authority of its parts. `SpecificationAssumption` says what
  Go's types say, that the lists of the documents are lists.
- `AggregateKeepsEverything`, `AggregateIsAllOrNothing`: for any number of artifacts, at any
  failure, failing rollback and kill. The invariant gives for each artifact where its
  old and new content are, as a function of how far publication or rollback has come.

`GateRunnerProofs`, for any catalog of modules, policy, selection, change and number of
failures. The first half is about programs, function by function of the code, with two
measures of a sequence of steps: `Fits(steps, kinds, names)` says of which kinds its
steps are, and that they bracket their resources on every stack on which no more than
`names` are open; `Does(steps, gate, module)` that one of them completes a gate. Both
pass from parts to concatenations and to the loop over the modules (`FitsEach`,
`DoesEach`, by induction on the partial results of `FlattenSeq`). So every program nests
on the empty stack, has its scans before any code (`ProgramFits`) and completes all it
owes (`OwedIsDone`). The second half is about the process:

- `InvariantHolds`: `Invariant` says that while the program goes on the open scopes are
  those its steps left open (`Bracketed`), that every gate behind has passed and code has
  run only where it is behind (`Progress`), that each file is accounted for by a scope,
  the scan pass, the workspace or a failed publication unless a cleanup was reported
  (`Disk`), and that from the binding on both ranges are one (`Bound`). `GateInv` is not
  inductive alone: closing a scope keeps the others' resources only because no name is
  open twice and no tool has a scope beside the scan pass that keeps it. Reading the range
  changes the rest of the program, so `ReadChangesKeeps` needs that the seven steps up to
  it are those of every range.
- `MemoryMatchesDisk`, `PassedMeansComplete`, `ScansComeFirst`, `NothingLeftSilently` and
  `RangeIsOne` follow.

Model-checked only. Liveness and fairness are out of the prover's reach
(`EventuallyReturned`, `EventuallyPasses`, `EventuallyPinned`, `StoppedFails`).
Every other property of a passing run is a theorem. That the model checker's bounds are
enough (section 3) is argued, not proved.

## 5. Where the code and its documentation disagree

1. `service_lease_names`. The proxies of `rabbitstream` and
   `rabbitstream-standalone` have one name when a module requires both
   (`rabbitstream.go:58`, `rabbitstream_full.go:197`), against
   `docs/services.md:8`. Start then always fails; the cleanup is complete.
2. `service_lease_failed_run`. A container is tracked after `docker run` has
   succeeded (`services.go:273-276`); a run that fails after the creation leaves
   it, and its anonymous volume, behind, and `Close` reports success, against
   `docs/services.md:10-11`. So do, on success too, the anonymous volumes and the
   default network of the compose project, which the lease never tracks.
3. `cache_session_campaign`. `mutationProcess` classifies by paths in the
   campaign's workspace (`mutation.go:404`, `409`), the campaign builds the tool
   one directory below (`campaign.go:555`). The tool is built in the cache that
   repository commands of the invocation write, against `process.go:197-199`.

A limit of `ReviewBindsInput`: the comment at `campaign.go:540-542` says that a
concurrent edit cannot turn a review into permission to reuse evidence of other
bytes. The source digest is compared before and after (504, 543), so an edit made
and undone in between is hashed unnoticed; the property is checked with
`Reverting = FALSE`, where no edit restores an earlier content, and fails with
`TRUE`.

## 6. Plan

Done, in this order: `Publication` and its refinement, `Campaign`,
`ServiceLease`, `BoundedProcess`, `CacheSession`, `Upgrade`, the proofs about the
first two; then `GateRunner`, `CatalogPublication`, `MigrationImport`,
`LocalActions`, `ChangeSelection`, `SpecificationDecisions` and their composition
`CommandLine`; then the other proofs above.

Next models: reports and reviews as operators against reference definitions; module
and lint caches beside the build caches of `CacheSession`.

Not modelled, and why: configuration, inventory, repository and documentation
checks, the rendering of cohesion catalogs and release artefacts are pure functions
of their input whose correctness is in parsing and wording; OpenSearch's image
policy and the parsing of scanner output likewise. Time is not modelled: a deadline
is a step that may fail. They are listed in `PROJECT.json`.
