# mcp-modelica in TLA+

`mcp-modelica` is an MCP server that runs OpenModelica simulations of qualified
kits and keeps what they produced as evidence: content-addressed, sealed, never
rewritten. This directory holds TLA+ models of the parts of it that are hard to
get right by testing, the TLC configurations that check them, and theorems that
TLAPS proves. The paths below are those of the repository.

Contents: [the system](#the-system), [what is hard about it](#what-is-hard),
[modules](#modules), [runs](#runs), [fairness](#fairness), [proofs](#proofs),
[where code and documentation disagree](#disagreements),
[what is not modelled](#not-modelled), [plan](#plan).

## The system

One provider process serves tools over stdio or HTTP (`server.ts`). Several
processes may share one runs directory (`MODELICA_RUN_DIR`): a client may start
a second server, and the tests do (`tests/resumable_cross_process_test.ts`).
Nothing is shared between them but that directory and the kernel locks on files
in it, so every promise about a request is a promise about files.

| component | source | state it keeps | operations |
| --- | --- | --- | --- |
| resumable service (2.1) | `src/application/resumable-simulation-service.ts` | none of its own, but the manifest digests it issued last | manifest, template, submit, request_get, series readback |
| request store | `src/storage/request-store.ts`, `src/domain/resumable-contracts.ts` | one claim file and one `run.json` per request id, artifacts per run directory | claimOrRead, writeClaim, adopt, promote, reject, write and read of artifacts and `run.json` |
| capacity coordinator | `src/storage/capacity-coordinator.ts` | the claim files again, reservation files of the 2.0 simulate, run directories | reserve, adopt, promote, release, promoteRequest, rejectRequest, transitionRequestClaim |
| kernel locks | `src/storage/os-lock.ts`, `request-lock.ts` | one Perl helper per held lock | acquire, isHeld, release |
| durable publication | `src/storage/durable.ts` | files and directories, and what of them is synced | writeDurableText, makeDurableDirectory, confirmDurableFile, removeDurable |
| historical service (2.0) | `src/domain/service.ts` | `run.json` and artifacts in each run directory | simulate, run_get, run_list |
| evidence server | `server.ts`, `src/client.ts`, `src/resumable-client.ts`, `src/resources/*` | the MCP resources registered in this process | startup publication, tool calls, projection |
| OpenModelica runner | `src/api/omc-runner.ts`, `src/storage/simulation-workspace.ts` | a child process | execute, identity probe |
| record validation | `src/domain/run-record.ts`, `execution-attestation.ts` | none | strict readers |
| manifest, canonical request | `src/domain/simulation-manifest.ts`, `simulation-request.ts`, `hashing.ts` | none | canonical bytes, digests |
| series, metrics, units, compatibility | `src/domain/*` | none | pure functions |
| kits | `src/kits/*` | static data | lookup |
| results viewer | `src/ui/results-viewer/src/*` | the view on display, the mounted surface, a queue of transitions | sessions, navigation, mounts |

How they interact: a tool call parses its input, claims the request id through
the coordinator (under the global lock), takes the request lock, probes the
engine, promotes the claim (promoting claim, run directory, running claim),
writes artifacts, runs OpenModelica, writes the rest of the artifacts, then
`run.json`, then the completed claim; then the client projects the run into MCP
resources. Whoever reads a request and finds `run.json` beside a claim that is
not completed seals it; whoever finds a running claim whose lock is free marks
it `recovery_required`.

What makes each part correct:

- service and store: a request id stands for one content and is executed at most
  once; `run.json` commits it; what a caller is told agrees with the files;
- coordinator: storage never holds or promises more than 20 runs, and every slot that
  stays taken has a cause;
- locks: at most one live owner, and a dead owner's lock comes back;
- durable publication: the above survives a power loss;
- server: a listed resource is sealed evidence; a process that died can start;
- viewer: what is on display is what was asked for last.

## What is hard

`PROJECT.json` lists each hazard at its line. They are of eight kinds:

- two processes racing through the same files with stale reads;
- a death between two durable writes (claim, directory, claim; artifacts,
  `run.json`, seal);
- the lock helpers, which are processes of their own;
- the order of renames and fsyncs;
- startup, which publishes before it can repair;
- writers and strict readers of the same record, which have to agree over every
  verdict of the solver, and over upgrades, engine drift and clocks;
- the timer of the runner against the exit of the solver, its pipes and its CSV;
- the viewer, where host messages, clicks, context changes and teardown meet
  parsers, navigations, mounts and disposals that settle late, and where content
  that a host put together has to be one run, or one execution.

## Modules

| module | what it is |
| --- | --- |
| `RequestLifecycle` | abstract: what the protocol promises about one request id |
| `RequestClaims` | the claim file, which rewrites are allowed, how slots are counted; no variables |
| `ResumableRequests` | the 2.1 protocol, call by call and write by write |
| `ResumableRequestsInv` | its inductive invariants, in named parts |
| `RequestClaims_proofs` | lemmas: what a rewrite yields, and does to the slots in use |
| `ResumableRequests_proofs` | the proofs about the protocol, with the refinement |
| `StorageCapacity` | both kinds of simulate at the coordinator, deaths between its writes |
| `DurablePublication` | the 2.1 writes under power loss |
| `StorageCapacity_proofs`, `DurablePublication_proofs` | their proofs |
| `EvidenceServer` | processes that start, serve, project and die, over `RequestLifecycle` |
| `EvidenceServer_proofs` | its proofs |
| `SimulationManifest`, `SealedCsv` | manifests, kits, units and compatibility; the normalizers and the series; no variables |
| `AscendingOrder` | the elements of a set of numbers in order, for selections that a loop walks through; no variables |
| `SealedRun` | the content of one 2.1 request, from its manifest to its series |
| `SealedRun_proofs` | its proofs |
| `OmcRunner` | one OpenModelica child against its timer |
| `RunRecord` | the historical ledgers and their strict readers; no variables |
| `HistoricalRun` | the 2.0 simulate and its readers, over the two |
| `HistoricalRun_proofs` | its proofs |
| `SurfaceMounts` | component surfaces that mount and dispose asynchronously |
| `ResultsViewer` | the viewer's messages, transitions and clicks, over the surfaces |
| `ResultsViewer_proofs` | its proofs, and those of `SessionAdmission` |
| `RecordedResults`, `AdmittedCapture` | the two session parsers and their joins; no variables |
| `SessionAdmission` | what a host assembles, and what the viewer makes of it |
| `MC*` | instances for TLC |

### ResumableRequests

A process of the model is one tool call in one server process; several calls may
share a process in the code, but they share no memory that matters here. An
action is the code between two effects another process can see. An operation of
the coordinator takes its lock and looks in one action (`Reserve`, `Promote`,
`Reject`, `Seal`, `Recover`) and then makes its durable writes, one action each
(`WriteClaimed`; `WritePromoting`, `MakeRunDirectory`, `WriteRunning`;
`RemoveAbandoned`, `WriteRejected`; `WriteCompleted`; `WriteRecovery`), because
`readClaim` reads without that lock, and because its helper may be gone by then.

| variable | in the code |
| --- | --- |
| `claim` | `.resumable/capacity-claims/request-*.json`; the record keeps state, request_sha256, run_id and the seal |
| `ledger` | `.resumable/requests/<id>/run.json`, reduced to run_id, digest and status |
| `dirs`, `files` | run directories and the artifacts in them |
| `lock`, `glock` | the helpers that hold the request locks and the global lock; `Orphan` is one whose parent died |
| `pc`, `req`, `digest`, `seen`, `mine`, `run`, `outcome`, `reply` | locals of a call: `seen` is the claim it read last, `mine` the `expectedSource` of its reservation |
| `launches`, `faults`, `losses`, `exclusive` | history, and what is bounded; `exclusive` says that no helper of the coordinator's lock was lost |

Digests are model values: two requests are the same exactly when their canonical
bytes are, which is how the code uses `request_sha256`. A run that timed out
follows the rules of a failed one. The engine probe has three outcomes: it
builds the pinned manifest, it builds another one (the request is rejected), it
throws or is incompatible (the claim stays). `Throw` stands for every exception
of an I/O step and, since the effect may be there already, for a failed fsync
after a rename; `Crash` for the death of the process; `HelperDies` and
`CoordinatorHelperDies` for a lock helper that is killed under a live parent, which
the code cannot notice. The first loses a request lock, which the protocol is built
to survive. The second loses the coordinator's `capacity` lock, an `OsLock` with the
same helper, between the look and the write of an operation; another call may
then be inside at once. From there on the code does not keep its promises (see
[disagreements](#disagreements)), so the safety properties are stated for as
long as `exclusive` holds.

`RequestLifecycle` is the promise in a screenful: claim, reject or start, execute
once, commit, lose the owner, complete. `ImplementsLifecycle` is the refinement
(`phase` from the claim's state, `bytes` from its digest, `executions` from
`launches`, `result` from `run.json`).

### StorageCapacity

`reserve`, `promote` and `release` of the 2.0 simulate next to the 2.1
operations, over the same slot count. It adds what `ResumableRequests` leaves
out: reservation files, and an operator who removes run directories.
That at most one call works on a request is a guard here, and the helper of the
coordinator's lock lives as long as its call: what happens when locks are lost is in
`ResumableRequests`. The claim operators are the same module, `RequestClaims`.

### DurablePublication

Every name has what processes see (`now`) and what the disk may hold (`disk`, a
set). `writeDurableText` adds to the set at the rename and collapses it at
`syncDirectory`; a power loss picks a member for every name, and a lost run
directory takes its artifacts with it. That bytes are synced before their rename
is taken from the code (`syncData`) and not varied. The
store is one that was used before: on a new one `reserve` creates the directory
of the claims with a plain `mkdir`, whose parents nothing syncs.
The control of submit and request_get is reduced to what decides the order of
writes; the rest is in `ResumableRequests`, lost locks included.

### EvidenceServer

`createModelicaServer` publishes every recorded 2.0 run and every request with a
`run.json`, and only then opens the transport. `maxConcurrent: 1` makes each
process serve one call at a time. Each call takes steps of `RequestLifecycle`
with the request lock; the projection hook of `client.ts` may throw, which is
logged, and the next read projects again. Registration is in memory, so a death
loses it.

### SealedRun

The same submit as in `ResumableRequests`, cut the other way: one call at a time,
but every file with the content that `validateCompletedRun` looks at. Numbers in
manifests, tables and units are small integers (an energy counts half joules, so
that the trapezoid rule stays whole), a digest is the content it is taken of, and
a kit is what the registry holds of it. `ManifestGet`, `TemplateGet`, the steps of
submit (`Submit`, `Probe`, `WriteInputs`, `Execute`, `Interpret`, `WriteLedger`,
`Return`), `RequestGet` and `SeriesGet` follow the order of the service; between any
two of them `Restart`, `EngineDrifts` and `SourcesChange` may bring another
release, another engine or other kit files, and `Damage` overwrites one file of
the run, or one field of `run.json`. `Interpret` has all three ends of the code: the
CSV is interpreted and written, it cannot be interpreted, or it is interpreted and
its write throws, which fails the run and leaves it the metrics. `release`, `engine` and `intact`
are that world, `issued` is `issuedManifestDigests`, `claim`, `run` and `file`
are the store. `fresh`, `offered` and `truth` are history: which templates still
should work, and what was written.

### HistoricalRun, OmcRunner, RunRecord

`RunRecord` holds the parsers of the 2.0 and the 0.2.x ledger, the checks of a run
against the kits of the running release and against its own `evidence.json`, and
the projection to the frozen 1.0 contract. `OmcRunner` has the child on the side
of the operating system (`child`, `pipes`, `csv`) and `execute` on the side of the
provider (`runner`, `output`). `HistoricalRun` puts simulate over both: `at` is
where a call is, `plan` what it resolved, `ledger` and `file` the run directory.
Writes are plain, as in the code: the sources and the script are one action, the
diagnostics, the CSV, the evidence and the ledger one each, and a power loss may tear any of
the files. `readers` are listings and readbacks, which read one run at a time.

### ResultsViewer, SurfaceMounts

One action is the code between two awaits. `queue` and `task` are the transition
coordinator and where its running task is, `generation` its generation; `router`
holds the navigations in the order they were asked for, because a click navigates
outside the queue; `surface`, `mounted`, `mounts`, `dying` and `live` are
`createLatestSurfaceMountLifecycle`; `session`, `admitted`, `active` and `display`
are fields of `ctx.state`. `latest` (the message queued last) and `chosen` (the view
that host or user asked for last) are history. `Badges` says which masthead a view
gets, and `none` where only a component is rendered.

The router of `@casys/mcp-view` is external and taken as serial in the order of
calls: the leave of the old view is awaited, then the new one is entered, then
rendered.

### SessionAdmission, RecordedResults, AdmittedCapture

`Compose` draws a genuine session or capture, `Misplace` puts a part of another
run or execution into it, `Seal` computes the digests (before or after the
misplacing), `Apply` is the structure check at the door of the viewer, `Verified`
the digests, `CaptureResult` both for a capture that is a tool result, and
`OpenRecorded` and `OpenStandalone` are the clicks that open details. What is left of a
session are its joins: which id, fingerprint, digest or URI has to equal which.

## Runs

| run | what it asks | bounds |
| --- | --- | --- |
| `requests_safety` | nine safety invariants of the protocol | 2 calls, 2 requests of 2 contents for 1 slot, 2 run ids, one death or exception, one lost helper of either kind of lock; states behind a lost helper of the coordinator are reached, not explored (`StillExclusive`) |
| `requests_liveness` | the protocol implements `RequestLifecycle`; calls return, locks come back, retries settle | 2 calls, 1 request, one death or exception, no lost helper |
| `storage_capacity` | the limit holds, every slot that stays taken is accounted for | 3 calls, 2 requests, 4 run ids, 2 slots, 2 deaths, 1 removal |
| `evidence_server` | listed is sealed, startup succeeds, projections recover | 2 processes, 1 request, 1 historical run, 2 deaths, 1 failure |
| `power_loss` | execution once, request id and ledger survive | 2 calls, 2 requests, 2 power losses, one dying call |
| `sealed_evidence` | offered is accepted, written is readable but for an unwritable CSV, served is written, the series is the table | 2 kits in 3 releases, 2 engines, 6 tables, `max_samples` 1 to 4, 2 manifests known, 1 change of the world, 1 damage |
| `historical_run` | writer and reader agree, listings are undisturbed, verdicts are true, calls end | 1 call, 1 reader, 1 older run of either generation, clock 0 to 1, 1 restart or power loss, 1 failed write |
| `results_viewer` | no stale surface, the last message wins, RECORDED is true, remounts do not take the user back, the page settles | 2 messages of any kind, 1 context change, 2 clicks, a teardown |
| `session_admission` | genuine is applied, details are the listed run, an admitted execution is one | 3 runs in 2 contracts, 3 executions, 2 misplaced parts, 2 details at most |
| three violation runs | see [disagreements](#disagreements) | the smallest instance that shows it |

Why these bounds. The protocol has no interaction that needs more than one other
call on the same request: the request lock leaves at most one executing call,
and every other call is a reader or a waiter. Two requests are what
capacity and the counting of others' claims need, and one slot makes every
submit contend for it. One death is enough to leave each intermediate state
behind, and a second call then works on it; what two or more deaths could do is
covered, for what is proved, by the theorems, which bound nothing. The
real limit of 20 runs is `MaxRuns`: what matters is that it is reached.
In `power_loss` two losses are needed so that what recovery itself writes after
the first loss is exposed to a second.

In `sealed_evidence` a kit is kept, revised and dropped by the three releases, and
the six tables are good ones of both kits and ones with a blank cell, text in a
cell, or a column missing; with four bounds on samples the rounding meets fewer samples than rows, as
many, and one less. In `historical_run` a second simulate would meet the first
only at the coordinator, which is `storage_capacity`. In `results_viewer` the
second message overtakes the first, or not, at each step of the first; a third
would meet the queue the second met. In `session_admission` two misplaced parts
are what it takes to replace a reference together with what it refers to, and the
limit of two details stands for the 20 of the code: it is reached.

Type invariants are checked where a run has room for them (`requests_safety`,
`storage_capacity`, `evidence_server`) and are proved there, and of
`DurablePublication` and `HistoricalRun` as well; in the other modules `TypeOK`,
where there is one, documents the shape of the state.

The safety properties in words, those of `ResumableRequests` as long as no helper of
the coordinator's lock is lost, whatever becomes of the request locks:

- `AtMostOneExecution`, `ExecutionIsClaimed`: OpenModelica starts once per request
  id, for the run of the durable claim, in its directory, alone;
- `RunJsonIsWhole`: `run.json` appears with all its artifacts and is what the
  claim seals;
- `RejectedNeverRan`, `EveryDirectoryIsClaimed`, `CapacityNeverExceeded`: nothing
  is leaked by a rejection, a promotion left half done, or a race for a slot;
- `RecoveryMeansOwnerLost`: while lock helpers live as long as their parents,
  nobody marks a request lost that a live call executes. With a lost
  helper this is not so, and the property says so (`losses = 0`): a second
  call gets the lock of a live owner. Execution stays unique even then, if it
  was a request lock's;
- `AnswersAreDurable`: the status in an answer is the status on disk;
- `LostSlotsAreExplained`: a slot that is counted beyond stored runs, promised runs
  and requests still to be executed is the reservation file of a 2.0 simulate that died
  or threw, or the claim of a started request whose directory was removed, one for
  each. Both are counted for ever, and nothing else is;
- `RegisteredIsSealed`: no process lists a resource of unsealed evidence;
- `ExecutedOnceForGood`, `RequestIdIsDurable`, `ExecutedLedgerSurvives`: the same
  promises across power losses;
- `IssuedIsAccepted`: a template that was handed out is executed when it is
  submitted, as long as nothing it depends on has changed;
- `WrittenValidates`: whatever the solver did, the run that submit seals passes the
  replay of every later reader, in every release that still has its normalizer,
  unless its CSV was interpreted and could then not be written;
- `OnlyTheSealedIsServed`: after one overwritten file or field nothing is served
  but what was written;
- `SeriesIsFaithful`: a series has no more samples than asked for, the first and
  the last row, even gaps, and the extremes and final values of the metrics;
- `AnsweredIsReadable`: every run that simulate answered is read back, and its
  frozen projection is valid, unless power was lost, its kit left, or the clock
  was set back under it;
- `ListingIsFaithful`: a listing fails only on a run that a fault made unreadable,
  never on one that is being written, and misses none that was there before it;
- `DamageIsNeverServed`: a file that a power loss tore is served to nobody;
- `StatusTellsTheTruth`: a success exited in time, with its CSV and its required
  metrics; a captured execution is over, pipes included;
- `NoStaleSurface`: a component surface is on the page only while its view is, and
  no handle is forgotten without being disposed of;
- `LatestMessageIsShown`: when all has settled the page shows the message queued
  last, or a run of its list;
- `BadgeTellsSource`: RECORDED stands exactly over content of a recorded session, but
  that a recorded admitted execution is shown without any badge;
- `RemountNeverUndoes`: once navigation has settled the page shows what host or user
  asked for last, or the run asked for by its id, unless a context change took its
  turn while the old view was being left;
- `GenuineIsApplied`: what a host assembled correctly is never turned away;
- `DetailIsTheListedRun`: an opened detail is the run that was asked for, with the
  facts and the fingerprint that the session lists;
- `AdmittedIsOneExecution`: an admitted execution on the screen is a receipt the
  executor issued, of the project, the agent run, the source, the policy and the
  runtime it names.

Each property has a mutant: a slip of the kind an edit to the code could make
(a comparison left out, a lock not released, an early return), defined beside the
definition it replaces, under which TLC finds the property violated.

## Fairness

Safety runs assume none. `requests_liveness` assumes weak fairness of each call's
steps (the event loop runs what is ready; OpenModelica ends, by itself or after
the SIGTERM of its timeout) and of the exit of an orphaned lock helper (its loop
looks at its parent once a second). Nothing is assumed about calls being made.
`RetriesSettle` adds a client that submits the same request again and again and
whose engine matches again and again (strong fairness): without a client that
retries, a claim stays pending, as documented. `evidence_server` assumes that a
process that is down is started again and that a startup or a call goes on;
`PollingSpec` adds clients that keep calling request_get. `historical_run` assumes
that the provider goes on and its timer fires, and that a solver ends, with all it
started, once it was signalled; not before. `results_viewer` assumes that what has
been started settles (WebCrypto, the host's answer to a tool call, a mount or a
disposal, by success or failure), and nothing of host and user: `Settles` speaks of
what they have done so far.

That OpenModelica ends after SIGTERM is an assumption about a program outside the
repository: `omc-runner.ts` waits for it without bound and sends no SIGKILL.

## Proofs

`tlapm` proves, for any number of calls, requests, contents, run ids, slots,
deaths, exceptions and lost helpers of request locks (and, for the properties that
are guarded by `exclusive`, up to the first lost helper of the coordinator's lock):

| theorem | module | says |
| --- | --- | --- |
| `ExecutionInvariant`, `IdentityInvariant` | `ResumableRequests_proofs` | the inductive invariants `ExecutionInv` and `IdentityInv` |
| `TypeCorrect` | | `TypeOK`, claims well formed included |
| `ExecutedAtMostOnce` | | `AtMostOneExecution` |
| `ExecutionsAreClaimed` | | `ExecutionIsClaimed` |
| `RejectedRequestsNeverRan` | | `RejectedNeverRan` |
| `DirectoriesAreClaimed` | | `EveryDirectoryIsClaimed` |
| `AnswerInvariant` | | the inductive invariant `AnswerInv` |
| `CommittedRunsAreWhole` | | `RunJsonIsWhole` |
| `RecoveryNeedsALostOwner` | | `RecoveryMeansOwnerLost` |
| `AnswersStayDurable` | | `AnswersAreDurable` |
| `ProtocolImplementsLifecycle` | | `ImplementsLifecycle`, the refinement of `RequestLifecycle`, of behaviours that stay `exclusive` |
| `CapacityIsKept` | | `CapacityNeverExceeded` |
| `StorageInvariant`, `StorageTypes` | `StorageCapacity_proofs` | the inductive invariant `StorageInv`; `TypeOK` |
| `CapacityIsNeverExceeded` | | `CapacityNeverExceeded`, with both kinds of simulate |
| `LostSlotsExplained` | | `LostSlotsAreExplained` |
| `DurableInvariant` | `DurablePublication_proofs` | the inductive invariant `DurableInv` |
| `ExecutesOnceForGood` | | `ExecutedOnceForGood` |
| `RequestIdsStayDurable` | | `RequestIdIsDurable` |
| `ExecutedLedgersSurvive` | | `ExecutedLedgerSurvives` |
| `ServerInvariant`, `ServerTypesHold` | `EvidenceServer_proofs` | the inductive invariant `ServerInv`; `TypeOK` |
| `ListedIsSealed` | | `RegisteredIsSealed` |
| `LocksProtectOwners` | | an owner finds its request as its own steps left it |
| `ServersImplementLifecycle` | | the processes implement `LifecycleSpec` |
| `SealedInvariant` | `SealedRun_proofs` | the inductive invariant `SealedInv` |
| `OfferedIsExecuted` | | `IssuedIsAccepted` |
| `WrittenRunsValidate` | | `WrittenValidates` |
| `DamageIsNotServed` | | `OnlyTheSealedIsServed`, given `OneDamage` |
| `SeriesStandsForTheRun` | | `SeriesIsFaithful`, given `OneDamage` |
| `HistoryInvariant`, `HistoryTypes` | `HistoricalRun_proofs` | the inductive invariant `HistoryInv`; `TypeOK` |
| `VerdictsAreTrue` | | `StatusTellsTheTruth` |
| `NothingTornIsServed` | | `DamageIsNeverServed` |
| `ListingsAreFaithful` | | `ListingIsFaithful` |
| `WhatIsAnsweredIsRead` | | `AnsweredIsReadable` |
| `ViewerInvariant` | `ResultsViewer_proofs` | the inductive invariant `ViewerInv` |
| `SurfacesBelongToTheView` | | `NoStaleSurface` |
| `LastMessageWins` | | `LatestMessageIsShown` |
| `BadgeIsTrue` | | `BadgeTellsSource` |
| `RemountIsHarmless` | | `RemountNeverUndoes` |
| `AdmissionInvariant` | | the inductive invariant `AdmissionInv` |
| `DetailsAreListed` | | `DetailIsTheListedRun` |
| `AdmittedAreOneExecution` | | `AdmittedIsOneExecution` |
| `GenuineAreApplied` | | `GenuineIsApplied`, given `CapturesParse` |

Each is of the form `Spec => []P`, for the module's specification without fairness, except the two
refinements. In `ResumableRequests_proofs` the inductive invariants are proved as
`Spec => [](exclusive => I)`: a step that keeps `exclusive` keeps `I`, and once it is
lost it stays lost (`ExclusionIsLostForGood`). Their properties carry `exclusive` or
`losses = 0` themselves, and `TypeCorrect` and `ProtocolImplementsLifecycle` say it.

The assumptions are those of the modules, each checked by TLC on its instance.
`ClaimConstants`, `ProtocolConstants`, `CapacityConstants`,
`PublicationConstants`, `NothingIsNoEntry`, `ServerConstants`, `ViewerBounds`
and `NoneIsNoRender`: null values are not values, bounds are naturals.
`RecordConstants` and `HistoricalConstants`: a kit requires metrics it produces,
the engine the release was reviewed with is a qualified one, the installed release
is a release, and what a power loss leaves of a torn file is nothing a writer
writes. `OldRunIsWhole`: what an older release left behind, its own readers accept,
and its artifacts are a list. `Limits`: the bounds of `SealedRun` are naturals.
`TablesAreText`: a table is a list of header names and a list of rows of cells, each a
number, blank or something else, of any size; a `max_samples` is at least 1, which the
tool's schema demands. `OneDamage`, a hypothesis of `DamageIsNotServed` and
`SeriesStandsForTheRun`: at most one file or field is overwritten (`MaxDamage` is 1
in `sealed_evidence`). The properties are not meant for more: who rewrites a file and every
digest of it that is stored has written another run.
`ExecutionsAgree`: what the executor records is of one execution, that is, a receipt is
signed over its own fields and repeats the run, source, policy and runtime that the
capture names. `NothingIsNoArtifact`: the null value is no reference to an artifact.
`CapturesParse`, a hypothesis of `GenuineAreApplied` alone: the captures of the executor
have the form that the contract asks for (limits, two outputs, a termination with its
code or its signal, metrics in pairs). The executor is outside the repository; the three
executions of `session_admission` are such captures.
`SessionConstants`: the runs a host can list are finitely many.
No other constant set is assumed finite: that the directories and the claims in use are
finite sets is part of `CapacityOK` and `StorageInv`, since every step adds at most
one.

### The protocol

`AtMostOneExecution` is not inductive: nothing in it says why a
call at `execute` is the first one there. One would like to say "because it
holds the request lock", but the helper of that lock can die under its parent, and
then it does not. What carries the proof is the comparison of the claim under the global
lock: `promoteRequest` goes on only if the file is byte for byte the one the
reservation was made from, and what it compared is still there when it writes. The
second half is exclusion in the coordinator, and is what `exclusive` stands for: a
call inside is the holder of the global lock. So `ExecutionInv` records, for every call, how stale
its knowledge may be: `KnownOK` (a claim once read may since have moved on, but
still names the same bytes, and the same run), `CoordinatorOK` (inside the
coordinator the claim is exactly what the holder wrote or compared),
`OwnerOK` (an executing call has a started claim, alone) and `LaunchOK` (a claim
that has not started has not been executed). A second promotion then fails its
comparison, because the first one changed the file.

`IdentityInv` adds that run ids, directories and `run.json` files belong to one
claim each; its step uses `ExecutionInv`. It is needed for directories: a death
between the promoting claim and `mkdir`, or between removal and the rejected
claim, leaves a claim whose directory may or may not be there, and the next call
must reuse or remove exactly that one.

`AnswerInv` is the third layer. `FilesOK` says which artifacts a run has at each
label of the call that executes it, and that nobody has committed its `run.json`
yet; `SealOK` that a committed run has its artifacts and a completed claim seals
it; `SeenOK` that what a call has read of an end is still so, because terminal
claims stay and started ones never go back. That is all that `RunJsonIsWhole` and
the first three parts of `AnswersAreDurable` need. `LockOK` is the only part with
`losses = 0`: without lost helpers a call that believes it holds the request lock
does, so nobody executes while another call is about to declare the owner lost.

For the capacity, what is counted is `dirs` and the claims that are not linked to
one of them. The lemmas of `RequestClaims_proofs` say how a rewrite of a claim, a
new directory and a removed one change the two; a promotion moves its request from
one to the other, and `WriteClaimed` alone adds a slot. It rests on a count made a
step earlier (`CountOK`): between the two nobody else is inside, and what others do
outside the coordinator changes no slot.

The refinement goes action by action. A step rewrites at most one claim and then
nothing else the map looks at (`OneClaim`); how a claim may follow another
(`Follows`) maps to claiming, starting, rejecting, losing and completing
(`ClaimRefines`); `Execute` and the publication of `run.json` are the other two.
All of them need the invariants: that `Complete` finds a result is `SealOK`, that
`ExecuteOnce` finds none is `FilesOK`.

### The other components

`StorageInv` says that one call works on a request (a guard of this module, a
theorem of the other), that a run_id belongs to one call and to one claim, that a
historical call reserves before it makes its directory and gives the reservation back
after it, and that what is counted is within the limit. For the slots that stay taken
`StrandedOK` counts two sets apart: the reservations of no live call (`Lost`), at most as
many as deaths and exceptions, and the started claims whose directory is gone, at most as
many as removals. A 2.0 simulate between its directory and the removal of its
reservation counts twice for that moment, which is why the property speaks of the
states in which the global lock is free.

`DurableInv` relates what processes see to what the disk may hold: for each label,
which name the call published last and has still to sync, and what is on the disk
for good behind it. It never mentions who holds the coordinator: the order of
fsyncs carries the three theorems, also when several calls publish at once.

`ServerInv` says what each process works on, and that the request of an owner is
where its own steps left it: the lock keeps everything away from it but the seal.
`RegisteredIsSealed` is inductive once no step takes evidence back, which
`LifecycleKeeps` says. `OwnersGoOn` is worth a theorem of its own, because the
module composes processes with the abstract life-cycle, whose guards could hide an
interleaving by holding a process up: they never do.

`SealedInv` follows a request from the manifest it names. `IssuedOK`: what was issued
or offered since the world changed last is what would be built now, because the
issuance key and the manifest name the same selection. `SubmitOK`: the manifest that
submit pinned is the request's, and that of the kit whose normalizer will run;
`WritingOK`: its artifacts are, label by label, the inputs, the log and the result, all
placed, and a success has the metrics of its CSV; a failed run has none, unless its CSV
could not be written (`unsaved`). So, but for that run, at the ledger the artifacts are
the expected ones in their order (`ExpectedKinds`), no two of one kind, and every
clause of the validation holds (`WholeOK`), until damage. `TruthOK` says what one
overwriting leaves: the run as written, or every file as written and one field altered.
Then a run that validates is the one written (`ServedIsTruth`): the evidence repeats
status, manifest, metrics and warnings, the claim the parameters, and the files the
digests.

For the series a fourth part, `TablesOK`, says that a result is a table that the solver
left. The rest is arithmetic about any table: `Rounded` bounds the error of
`Math.round`, so that `EvenlySpaced` finds the selected rows strictly increasing, from
0 to the last one, in gaps that differ by one at most; `AscendingOf` puts them in the
order in which the loop over the rows meets them; `ColumnBounds` says that a column
has a least and a greatest value, and every sample lies between. `ColumnsAreNumbers`
says that the statistics and the normalizers read the same numbers out of a
table that can be summarized, so `MetricsOfTheTable` can compare the two; the peak of
the power, a maximum of absolute values, is one of the extremes up to its sign.

None of this is induction on the data. The library's induction theorems cannot be
instantiated, but an order is well founded as a set of pairs: `LeastNat` takes from
that the least element of a set of numbers, and what would be an induction on the
length of a list asks for the least position at which it fails.

`HistoryInv` follows a call from the solver to its readers. What the runner returns
is of a child that is gone (`RunnerOK`); the artifacts a call has listed are those
of its label, once each, in the canonical order, with its content (`WritingOK`);
its verdict is no better than what the runner returned (`VerdictOK`); so the ledger
it publishes passes every clause of the strict reader (`LedgerOK`), and a listing
that fails met damage, a clock that was set back or a missing kit (`ReaderOK`).

The frozen projection keeps the artifacts of the legacy kinds. What it keeps, in
order, are the positions of these (`AscendingIs`: the k-th element of a set is the one
that k of them reach up to); a list whose neighbours are in the canonical order has
any two in it (`CanonicalOrder`), and the frozen order agrees with it on the kinds
they share (`LegacyPositions`). So `ProjectionIsLegacy`: what the reader of 2.0 accepts, projected, has the artifacts the
frozen reader demands, in its order, under the fingerprint it computes.

`ViewerInv` says what may still be owed to the page. `OrderOK`: the task waits for
the last navigation of the router, and at most one click is before it. `SurfaceOK`:
a mount that is still the newest is for the view on the page. `EnteredOK`: what a
context change would navigate to is the view on the page, or nothing while the run of
a drill-down loads. `ChosenOK`: the last navigation of the router, and then the page,
leads to what was asked for last. A context change that takes its turn in the leave
window queues the old view behind it, and `chosen` is forgotten: that is the one case the
property excepts. `BadgeOK`: the session in
the state is the source of the view, but while a task's navigation is still to come;
`Told` is what a badge, where there is one, then says of it.
`QueueOK` and `LatestOK`: behind a void task comes the one that made it void, and
once the newest message has asked for its navigation, all that is still to come is
of that message.

`AdmissionInv` is about content, not order. The parsers only compare: that they end
with one run, or one execution, needs that what they compare still is a face of a
run, or a receipt whose fingerprint is one the executor signed. So `Draft` says which
shape a session keeps while parts of others are put into it, one lemma for each level
at which that can happen (`SplicedRun` to `SplicedShapes`). An answer is then a
detail of a listed run (`AnswerIsListed`: the contract, facts and fingerprint of a
face determine it), and a capture has the receipt of the execution whose fingerprint
it carries (`ReceiptIsIssued`: the fingerprint is signed over every other field). For
the converse `GenuineInv` says that an untouched draft is what a host assembles, and
`ResultsVerify` and `AdmittedVerify` that the parsers accept all of these.

### Only model-checked

- Every liveness property, and whatever needs ENABLED: TLAPS does not reason about
  fairness here.
- The violations of the next section: they are behaviours, which TLC exhibits.

Every safety invariant that a run checks is stated by a theorem, those of the three
violation runs excepted.

## Disagreements

Three have a run that shows them.

1. **A spurious integrity error** (`requests_spurious_integrity`). Without any
   fault: a call reads the claim while it is `claimed`, its owner runs to
   completion, and the call then reads `run.json` and judges it by the old claim.
   It throws; a retry succeeds.
2. **A start that fails** (`restart_after_commit`). A process that dies after
   `run.json` and before the seal leaves a request that any readback would
   reconcile. But startup publishes every request with a `run.json`, refuses one
   whose claim is not completed, and throws, before any tool can be called.
3. **A seal over a lost ledger** (`readback_after_power_loss`). A reader that meets
   `run.json` between its rename and the sync of its directory seals the claim,
   durably, over bytes that a power loss can still take. Claims are read through
   `confirmDurableFile`; `run.json` is not. The call that executed never is in this
   position (`ExecutedLedgerSurvives`).

Others were met while modelling and have no run of their own; the models do what
the code does.

- **A coordinator that lost its lock.** The helper that holds the `capacity` lock
  (`os-lock.ts:12-39`, `capacity-coordinator.ts:314-325`) can die under its live
  parent like any other, and nothing checks the lock again before the write. A reserve
  that has counted (`capacity-coordinator.ts:61`) then writes its claim beside another's: two
  of them exceed the limit (`CapacityNeverExceeded` without its guard: 10 steps). Or
  it writes a claimed claim over one that is already running, and the request is
  executed a second time (`AtMostOneExecution` without its guard: 32 steps, with one
  exception besides). `os-lock.ts:4-5` says that a dead helper releases the lock, as if
  the owner went with it. `exclusive` guards the properties; a loss of a request
  lock's helper breaks only `RecoveryMeansOwnerLost`.
- **A failed run with metrics.** In submit the write of `result.csv`
  (`resumable-simulation-service.ts:411-420`) is inside the `try` whose `catch`
  (421-424) marks the run failed; the metrics assigned before it (406) stay. The run
  is committed and sealed, and every later reader refuses it, because a failed run must
  have empty metrics (924-928). The comment at 408-410 says that a failed run "has the exact
  no-CSV artifact set, so replay can validate status without guessing". `WrittenValidates`
  excepts it (`unsaved`); without the exception TLC finds it in seconds.
- **A recorded admitted execution has no masthead.** `whole-view-surface-policy.ts:7-8`
  says that recorded sessions "always render the complete App-owned surface and
  masthead". `app.ts:308-312` renders admitted executions through `componentShell` with
  `componentOnly` set, whose branch (536-546) has neither card nor badge.
  `BadgeTellsSource` excepts them.
- **A remount in the leave window.** `app.ts:197-199` marks a drill-down as pending in
  its `onEnter`, so that a context change does not navigate back to the list. But
  `onEnter` runs after the leave of the list was awaited. A context change whose turn comes
  before that still finds the list, and its navigation follows the drill-down: the
  user is back on the list. `RemountNeverUndoes` excepts this window (`LeavePending`);
  without the exception TLC finds it in 17 steps.
- Removing prior evidence, as the refusal at `capacity-coordinator.ts:65` advises, frees
  nothing for a 2.1 run: its claim is counted in place of its directory from then on
  (364-366). `LostSlotsAreExplained` counts these.
- `isOsLockHeld` asks whether a lock is held by taking it. Two request_gets that
  probe at the same time make each other report `running` for a request nobody
  owns. With `maxConcurrent: 1` that takes two server processes.
- The normalizers read a blank cell as 0 (`Number("")`) and give a metric for it;
  the series of the same table refuses the cell.
- `docs/provider-and-runtime.md:61` says that ledgers and artifacts are synced. The
  writer of the historical simulate does not sync: after a power loss its run may
  be torn, and every listing refuses until it is removed.
- After an upgrade that drops or revises a kit, one older historical run makes
  every listing fail; a sealed run is unreadable when its normalizer is gone, and
  so is one whose `completed_at` came from a clock that was set back.
- A finished request whose kit left the release is still served by request_get but
  refused by submit, although its bytes are the same.
- A request that was rejected for its engine stays rejected, also when the
  engine comes back; one whose engine fails `assertRuntimeCompatible` keeps a
  pending claim, and its slot.

## Not modelled

Left out, and why:

- tool schemas, error mapping and result envelopes of the tools: stateless field
  validation and wording;
- field formats (ids, timestamps, URIs, media types), exact keys of JSON objects,
  CSV quoting, floating point, the parser of the compiler-derived parameter
  schema: conversions that none of the properties tells apart;
- layout and rendering of the viewer's components;
- release, build and verification scripts, the MCP framework, the Docker image,
  CI, generated files: they run outside the provider;
- the durability of a new store: on one, `reserve` creates `capacity-claims` with a
  plain recursive `mkdir`, whose parents nothing syncs (`power_loss` starts from a
  store that was used before).

Four hazards of the list have no property that would catch them, and their notes say
why: this new store; a slot that stays reserved when the engine is unusable, which
no line of the code promises to give back; a solver that outlives its SIGTERM, which
the liveness runs exclude by fairness; and a session whose slow parse is overtaken,
since the code's order is that of queueing. Others are covered in part: the
notes name what their properties except.

What the models take for granted or leave aside:

- damage to files by others is one overwritten file or field of a sealed run, not
  of its timestamps, and a torn historical file. Damaged claims are not modelled;
- `SealedRun` has no concurrency and no locks, `ResumableRequests` no content; the
  check of sealed runs at startup is in `EvidenceServer`. One compatibility policy
  holds across releases. Defaults lie within their bounds (`ManifestConstants`),
  which a template does not check;
- in the viewer, "last" is the order in which transitions are queued: a session is
  parsed before that, so an older one whose parsing is slow lands after a newer
  result. After teardown a session that is still being parsed navigates once more.
  A disposal of a surface always succeeds;
- the helper of the coordinator's lock lives as long as its call in `StorageCapacity` and
  `DurablePublication`, and the request locks of `DurablePublication` and `EvidenceServer`
  are not lost: lost helpers are in `ResumableRequests` alone. There, a failed write of
  `result.csv` is a failed run like another; that a run with metrics left cannot be
  reconciled (if its owner also dies before the seal, a retry never settles it) is not in
  `RetriesSettle`, and in `SealedRun` as above;
- of an admitted capture the scenario, the parameters and the metrics are bound
  by the capture's digest alone, and the admission artifact is joined to the
  receipt by source, policy and runtime: the model has these joins and no others,
  and the property asks for no others.

## Plan

Done: `RequestClaims`, `ResumableRequests` with its refinement, `StorageCapacity`,
`DurablePublication`, `EvidenceServer`, `SealedRun`, `HistoricalRun`, `ResultsViewer`,
`SessionAdmission`, each with the modules it is built on, and their proofs.

Next model: the new store under power loss, in `DurablePublication`.

Next theorems: the lemmas about `OmcRunner` that `HistoricalRun_proofs` keeps to itself,
as theorems of the runner alone, and the new store's once it is modelled.
