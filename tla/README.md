# A TLA+ model of ctxpipe

ctxpipe keeps the written context of an organization in Git repositories
("Workspaces"), serves it to agents and people, and lets them change it. This
directory specifies the parts of the backend where several processes, a
database, Git remotes and a durable workflow engine meet, and the parts of the
codesearch service where one process interleaves its requests; it checks them
with TLC and proves their main safety properties with TLAPS.

Contents: [the system](#1-the-system) · [plan](#2-plan) ·
[write lane](#3-the-write-lane) · [projection](#4-the-projection) ·
[graph](#5-the-graph-of-a-revision) · [ingestion](#6-ingestion) ·
[sandboxes](#7-sandboxes) · [codesearch](#8-codesearch) ·
[runs](#9-the-runs) · [proofs](#10-the-proofs) ·
[findings](#11-where-the-code-does-not-do-what-it-says) ·
[not modelled](#12-what-is-not-modelled) · [how to run](#13-how-to-run)

| module | role |
| --- | --- |
| `JobLedger` | what the lane promises of its jobs (abstract) |
| `WriteLane` | how a write job becomes at most one commit on the default branch, implements `JobLedger` |
| `MCWriteLane` | its TLC instances (`WriteLane_*.cfg`) |
| `WriteLaneProofs` | theorems about it for every number of executors in a run; the invariant under exclusive leases |
| `JobLedgerProofs` | theorems about it under exclusive leases, the refinement among them |
| `Serving` | what a Workspace promises its readers (abstract) |
| `WorkspaceProjection` | how content of a branch reaches the readers, implements `Serving` |
| `MCWorkspaceProjection` | its TLC instances (`Projection_*.cfg`) |
| `WorkspaceProjectionProofs` | theorems about it, the refinement among them |
| `GraphProjection` | the statements that write the graph of one revision, and who notices that it is lost |
| `Ingestion` | who may index a repository, and what its row says (`Ingestion.cfg`) |
| `IngestionProofs` | theorems about it |
| `SandboxLock` | a leased lock in PostgreSQL (`Lock_stray.cfg`) |
| `SandboxSlots` | the sandboxes of an organization and the slots they run in |
| `IndexPhases` | the gates that an index phase passes in codesearch |
| `ShardPins` | the pinned Zoekt shards of one checkout |
| `MCServices` | one TLC instance for the five services that share no state (`Services.cfg`) |
| `GraphProjectionProofs`, `SandboxProofs`, `CodesearchProofs` | theorems about each of the five |
| `ServicesProofs` | that the composed instance implies each of the five specifications |

Paths below are relative to `src/apps/backend/src/` unless they start with
`src/`. `PROJECT.json` maps each definition to the lines it models.

## 1. The system

Several API processes and several worker processes share one PostgreSQL
database. Workers run durable workflows with OpenWorkflow: a *run* has an input,
an idempotency key, recorded results of its *steps* and a lease of 30 seconds; a
crashed run is taken up by another worker, which replays the body and skips the
recorded steps. A worker that stalls loses its lease and does not notice: only
its next write to the run is refused (`openworkflow/execution-lease.ts:7-28`).
Git remotes, GitHub, the graph store, the embedding model and codesearch are
other services; each call can fail, or succeed and lose its reply.

| component | state | operations | talks to |
| --- | --- | --- | --- |
| **Write lane** (`enqueue-workspace-write-commit`, `workspace-write-jobs`, `workspace-file-edit`, `workspace-semantic-merge`, `write-broker`) | rows of `workspace_write_jobs` (status, payload, owner run, candidate commit, handoff), runs and steps, branches | admit, reconcile, pause/resume, claim, plan, commit, push, hand over to a merge, refresh, publish | Workspace row, git host, hydrate |
| **Workspace revision and projection** (`models/workspaces`, `resolve-revision`, `workspace-hydrate`, `workspace-index`, `graph-rebuild`) | the Workspace row: generation, URL, root folder, wanted sha, status, active revision, results of the derived stores | relink, capture, hydrate, publish, settle, retry, rebuild | git host, graph store, embedding model, codesearch |
| **Tip check** (`workspace-tip-check`) | none of its own | every hour for every Workspace: probe access, reconcile and resume jobs, capture the tip, queue hydrates, indexes and graph rebuilds | both of the above |
| **OpenWorkflow as it is used** (`execution-lease`, `storable-backend`, `client`) | runs, step results, leases | queue by key, claim, record, fail, sleep | everything durable |
| **Worker supervision** (`worker-supervisor`, `crash-loop`, `railway-wake`) | child processes, wake requests | start, restart with backoff, wake | OpenWorkflow |
| **Hydrate write planning** (`hydrate-write-jobs`, `hydrate-write-planner`) | planning rows, retry counts | plan claims and dates jobs for a revision | hydrate, write lane |
| **Other typed commands** (mirror, bootstrap, rename, unlink, claims, dates, …) | as the write lane | as the write lane, with another transform | write lane |
| **Graph projection** (`graph-projection`, `graph-rebuild`) | nodes, claims and a completion marker in the graph store, the graph phase in PostgreSQL | write, read, notice a loss, rebuild | hydrate, tip check, readers |
| **Repository ingestion** (`repository-ingestion-requests`, `enqueue-repository-ingestion`, `repository-ingestion-orchestrator`, `repository-ingestion`, owners) | the request row of a repository, its own row (status, published commit), orchestrator and child runs | prepare, admit, activate, index, publish, follow up, fail | codesearch, connectors, webhooks |
| **Sandbox locks** (`sandbox-lock-store`) | rows with an owner and a lease | take, renew, release, take over | chat turns, ingest shards, sweeps |
| **Conversation and ingest sandboxes** (`conversation-sandbox-lifecycle`, `ingest-sandbox`, `workspace-sandboxes`) | instance rows, the provider's sandboxes, the sweep run | reserve a slot, create, resume, use, stop, delete | sandbox locks, tip check |
| **Conversation publishing** | session branches, pull requests | push, open | git host |
| **Workspace sources**, **connectors**, **upgrades** | sync cursors, mirrors, upgrade state | scheduled syncs, one-off jobs | write lane |
| **Repository deletion** | the mark on the repository row, its run | mark, purge each store, delete the row | ingestion, codesearch |
| **Codesearch** (`src/apps/codesearch`): index phases | pipeline reservations, operation locks with their queues, process slots, keys of SCIP phases | admit, enter, wait, index, leave, purge, collect | backend |
| **Codesearch**: pins | links of shards, generations and idle timers | pin, refresh, unload, purge | searches, index phases |
| **Codesearch**: checkouts, search | worktrees; none | create, collect; query | backend |
| **Retrieval, MCP, routes, auth, UI, CLI, infrastructure** | none that is theirs, or a library's | queries, requests | the above |

### Hard behaviours, and what would be correct

* **Write lane.** Two executions of one run interleave after a lease ran out; a
  push goes through and its result is lost; a person commits on top of, or
  undoes, a job's commit; the tip moves between every two reads; access is
  withdrawn in the middle; the Workspace is relinked; an admission stores its row
  and stops before it queues the run. *Correct:* at most one commit for a job; a
  completed row tells the truth about it; a published change is hydrated; a
  result is final; every admitted job ends.
* **Projection.** Everybody reads the row, does something slow, and writes the
  row with a condition; hydrates of several revisions overlap; late failures and
  late successes arrive in any order; a check stops between storing a tip and
  queueing its hydrate; the graph store loses data. *Correct:* only what is
  wanted is published; readers never go back; the status agrees with what is
  served; the head of the branch and all derived stores are served in the end.
* **Hydrate write planning.** Plans are repeated for every revision. *Correct:* no
  job is planned for content that is gone, and retries are bounded.
* **Graph.** Several statements write one graph while the store loses data, runs
  crash and readers decide by a marker whether it is whole. *Correct:* the marker
  stands over a whole graph; a lost graph is written again, whoever stops.
* **Ingestion.** A push during a run is answered by that run, which looks for it
  only at its end; connector syncs start runs without a request; a rebind or a
  deletion comes in the middle; a worker stops after it published and before
  that is recorded. *Correct:* one run at a time; the published commit never
  goes back; the newest commit is ingested; no repository is shown as running
  for ever.
* **Sandboxes.** A lease runs out while its holder is still creating or
  destroying; the sweep acts on what it listed earlier; a process stops between
  the reservation of a slot and the sandbox. *Correct:* no two holders act on one
  sandbox; limits hold; a slot is given back; a sandbox in use is left alone.
* **Codesearch.** An unload waits while a search pins anew; a reservation is swept
  while its pipeline goes on; locks and slots are handed over in callbacks.
  *Correct:* a pinned shard is not unloaded under a search; limits hold; a purge
  is alone and not overtaken; every request ends.

`PROJECT.json` lists each hazard with its line and the properties that cover it.

## 2. Plan

1. **`WriteLane`** — done: the write path is what must not lose or double the
   words of a user.
2. **`Serving`, `WorkspaceProjection`** — done: the read path, shown to implement
   its abstract specification.
3. **`GraphProjection`** — done: the writes of one graph by overlapping runs, and
   its rebuilds. Left: the collection of unused graph keys.
4. `HydratePlanning` — the jobs that a hydrate plans, generations and retry caps;
   composes with the admission of `WriteLane`.
5. **`Ingestion`** — done: requests, owners, runs, follow-ups, rebind and deletion.
   Left: the extraction of knowledge (`repository-ingestion-v2`, shards).
6. **`SandboxLock`**, **`SandboxSlots`** — done: leased locks against a holder that
   outlives its lease, and the slots that they protect.
7. **`ShardPins`**, **`IndexPhases`** — done: asynchronous unloads against pins;
   locks, reservations and slots at their limits.
8. Other typed commands in `WriteLane` (bootstrap of an unborn branch, mirrors of
   several units) where they differ from the merge.
9. A composition of lane and projection: what a completed job published is served
   in the end.

Abstract specifications worth stating: `Serving` (done), implemented by
`WorkspaceProjection`; `JobLedger` (done), implemented by `WriteLane`. That of
`Ingestion`, a register of published commits that only moves forward, is the
action property `PublishedAdvances`.

Theorems: every invariant and action property of a passing run, and both
refinements, are proved ([section 10](#10-the-proofs)); for the lane, a part of
them under the assumption that leases are exclusive, for the projection, that
updates of the link do not overlap.

Each question keeps one run. Runs that only differ in their bounds are merged as
the project grows.

## 3. The write lane

### State

| variable | code |
| --- | --- |
| `ws` | the Workspace row: generation, URL, wanted sha, stored write status |
| `allowed` | whether GitHub lets the app push now |
| `log` | the default branch of each remote: commits, and whose changes its tree holds |
| `row` | `workspace_write_jobs`: status, kind, bound revision, owner run, candidate (`commit`), handoff |
| `run` | `workflow_runs`: the durable history of each run (`d`: next step, revision, candidate, round, attempts) and who holds the lease |
| `exec` | worker slots: the run, the phase of the step they are in, the copy of the history they work on |
| `adm` | admissions in flight, of requests (`"api"`) and of the resuming tip check (`"tip"`) |
| `hyd` | the tip with which the hydrate of a job was queued |

A branch without force pushes is a sequence, so a sha is a position and "is an
ancestor of" is a lookup. The identity of a candidate is `[job, role, base]`
because subject and timestamp of the commit are durable inputs: the same run on
the same base makes the same sha again.

### Actions

* **Admission** (`enqueue-workspace-write-commit.ts:170-571`): `AdmitBind` stores
  or revives the row, `AdmitStart` queues the run, `AdmitError` is a failed call
  (with or without the run), `AdmitReconcile` the repair, `AdmitStop` a process
  that stops. `AdmitBind` is one step although the code reads, probes and writes:
  whatever changes in between, each later step of the run compares the binding
  again.
* **Reconciliation**: `TipCheck` (probe, `reconcileStaleWriteJobs`, claim of paused
  rows), `Poll` (`getWorkspaceFileJobStatus`).
* **Runs**: `Claim`, `Record` (a step result is stored if the lease is still held),
  `Crash`, `StepError`. Two executors can be in one run: `Claim` is possible
  while the former holder is still in its step.
* **Bodies** of file edit and semantic merge, one action per step: `ClaimCommand`,
  `Acquire`, `Pause`/`Resume`, `Plan`, `Confirm`, `Noop`, `Commit`, the push in
  three (`PushCheck`, `PushRecheck`, `PushSend` — before, between and after the
  two reads of `pushWorkspaceCommit`), `PushDenied`, `Capture`, `Spawn`,
  `AwaitChild`, `Merged`, `Discard`, `Refresh`, `Publish`, `Hydrate`,
  `Complete`. `Enter` is the check for a completed write at the start of a body.
* **Outside**: `HumanCommit` (a commit that may also revert or repeat a job's
  change), `SetAccess`, `Relink`, `CaptureTip`.

`CaptureTip`, `Confirm`, `Refresh` and `Publish` read the row, read the tip and
write with a compare-and-set. Their effect is that of the moment the tip was
read, so they are one action; a failed compare is `StepError`.

### The abstract specification

`JobLedger` knows of a job its fate (open, failed, done), the repository it was
admitted for, what it published, how far its hydrate reads, and its result. Its
steps are the promise of ADR-047: `Publish` happens once, on the repository of
the admission and before the hydrate is ordered; `Order` happens once and covers
what was published; `Finish` records, once and for good, the commit that was
published and ordered, or none when there is none; `Turn` lets jobs fail or be
taken up again. The refinement mapping `Ledger` reads these off the rows
(`Fate`), the branches of *all* repositories (`Made`) and `hyd`. Two things it
allows are deliberate:

* a job publishes while its row says `failed`: the child run to which it handed its
  change goes on after the root run ended with an error;
* a job finishes from `open` only: a failed row is taken up again (`Claim`,
  admission) before a result is recorded on it.

`KeepsLedger` is where two repositories matter: between the last look at
the row and `git push` (`write-broker.ts:164`) the Workspace may be relinked. The
push cannot be held back then, but it names the remote of the revision
(`PushUrl`), so the commit, the hydrate and the result still speak of the
repository of the admission.

### Properties

* `KeepsLedger`, `AtMostOneCommitPerJob`, `CompletedIsPublished`, `NoChangesIsTrue`,
  `CompletedIsServed`, `RunAgreesWithRow` — with one executor in a run at a time
  (`Exclusive`).
* `FileEditIsPublished`, `PublishedIsFinal` — also with two executors in one run.
* `JobSettles` — liveness: every admitted job ends. It exempts two cases that the
  code leaves open and the definition names: a paused row of a binding that a
  relink replaced, and a paused row whose run failed, which only a poll of the
  Files pane looks at.

### Fairness

`Fairness` asks that workers keep polling (weak fairness of `Claim` and of the
steps), that an admission that started goes on, and that the tip check comes
again and again, on rows that grow old. `CalmSpec` adds that upsets, commits of
people and relinks end at some point and access is granted in the end. Without
that no code could finish: a job is paused exactly as long as access is missing,
and refreshed as long as the tip moves.

## 4. The projection

### State

| variable | code |
| --- | --- |
| `ws` | the Workspace row: `gen`, `url`, `root`, `sha` (`desired*`), `status` and `reason` (`hydrate_status`, `hydrate_error`), `active` (`active_revision`), `st` (`hydrate_phases`) |
| `tip` | the head of the default branch of each remote |
| `caller` | what the tip check or a request is in the middle of, and what it has read |
| `hydrate` | unfinished `workspace-hydrate` runs: revision, part of the body, what is left, recorded steps |
| `relink` | the generation that an update of the link has read |
| `built` | revisions whose complete graph the graph store holds |
| `checkout` | remotes whose checkout codesearch has published |
| `idxq`, `idxrun` | queued index runs; those that have looked for the checkout |

A `Caller` reads the row (`Reads`), asks for the tip (`ReadTip`), writes the row
on condition that it is unchanged (`Capture`) and queues a hydrate (`Queue`); each
is a step of its own, and commits, relinks and other callers fit in between. The
tip check goes on: `Decide` (is a hydrate called for?), another caller round,
`Rebuild` (index of a moved tip; is the graph lost?). A hydrate run checks its
revision (`HydrateStart`), publishes (`HydrateCommit`) or finds nothing to do
(`HydrateSettle`), then brings the derived stores up to date one by one. It may
throw (`HydrateFails`), with or without another attempt, and its worker may stop
(`HydrateCrash`) — the body then runs again from the start, but steps that were
recorded (`done`) are not repeated. `IndexStart`/`IndexEnd` are the two halves of
an index run, `Ingest` publishes the checkout it looks for.

### The abstract specification

`Serving` knows a wanted and a served revision. The wanted one moves forward —
a relink starts a new generation without a sha, a tip of the same link has a
greater sha — and what is published is the wanted revision at that moment
(ADR-046: "late or stale work cannot publish"). `KeepsPromise` is the refinement:
`wanted` is the generation and sha of the row, `served` those of `active`.

### Properties

* `KeepsPromise`: every order of reads, captures, commits of projections and
  relinks implements `Serving`.
* `ReadyIsServed`: a ready Workspace serves its present link.
* `FailedIsUnserved`: a failure is not shown for what is served, unless it is
  missing access, which the code shows on purpose
  (`persistRevisionResolutionFailure`, `noAccess`).
* `TipIsServed`: from some point on, the head of the branch is served and every
  derived store holds it.

### Fairness

`CalmSpec`: the tip check comes every hour, callers and runs that have work go
on, queued index runs are run, an ingestion publishes the checkout at some
point; and from some point on there are no commits, relinks, failures or
requests. A request is among them because a re-ingestion projects a revision
again and empties its derived stores, so with requests for ever the stores need
never be ready.

### What is abstracted

* An hour is any time: the backoff after missing access, the hourly idempotency
  keys and `failedPhaseRetryDue` mean that a check may do nothing. A check that
  does nothing is a check that was not taken.
* A new connection and a new default branch are relinks to the same URL; a
  detached connection is a relink that leaves the row failed.
* `HydrateStart` reads the row and the snapshot together: the snapshot only
  decides between paths that each compare the row again before they write it.
* The graph of a revision is written in one step that succeeds, or fails and
  leaves an incomplete graph; its statements are in `GraphProjection`.
* Embedding reads the chunks and marks them ready in one step: marking compares
  the revision under a row lock and refuses while a chunk has no vector.

## 5. The graph of a revision

`GraphProjection` takes the step "write the graph" of the projection apart. Its
state: `graphPhase` (`hydrate_phases.graph` of the active revision), `store` (the
marker, the nodes and the claims the graph store holds), `hydrate` (the runs, each
at one statement of `writeWorkspaceRevisionGraph`), `watch` (the tip check and a
reader, which first look at the phase and then at the store).

A run deletes the marker, deletes the nodes, writes nodes, writes claims, writes
the marker and records the phase, each in an action of its own; before each of
them it may fail, stop, or be overtaken. `TipHydrate`, `Rebuild`
(the route) and `StartRebuild` (after `markWorkspaceGraphLost`, which one caller
wins) are the three ways to a new run; `StartRebuildFails` is the fourth that
ends without one. `StoreLoses` empties the store.

* `MarkerMeansWhole`: "a complete graph" is what `hasWorkspaceGraph` promises for a
  marker (`graph-projection.ts:172`, without a proviso). It is a property of *one*
  writer, who fails or stops after any statement and is repeated over what it
  left. It does not hold while two writers overlap, or when the store loses the
  graph between two statements (`mixed` records both): the second run deletes the
  nodes after the first wrote its marker, and TLC shows that when the proviso is
  dropped. Nothing in the code keeps two hydrates of one revision apart. `mixed`
  ends when a run deletes the marker while no other writes, so the property also
  says that the next rebuild that begins alone mends what an overlap left. In
  between, readers count too (`withCompleteWorkspaceGraph` nodes and claims,
  `graph-expand.ts:195-210` nodes only), so it is a proviso here and not a finding.
* `LostGraphIsRebuilt`: the graph is there again and again. The fairness is that of
  the tip check (every hour) and of the runs; readers and the route may never come.
  Its interesting case is a caller that won `markWorkspaceGraphLost` and stopped
  before it queued a run: the phase stays `pending`, and only the tip check sees it.

## 6. Ingestion

### State and actions

| variable | code |
| --- | --- |
| `repo` | the row of the repository: status, `index_ready`, last ingested commit, binding |
| `tip` | the head of its branch |
| `req` | its row in `repository_ingestion_requests`: id, binding, target branch, whether a run owns it |
| `target` | the target branch that each request or run was made for: none, or the default branch by its name |
| `run` | the orchestrator of each request, and the child it waits for: step, commit, outcome, follow-up, and after how many rebinds it looked at its request (`since`, which the code does not keep) |
| `prod` | calls of `enqueueRepositoryIngestionWorkflow` and connector syncs, each in the middle of its steps |
| `purge` | a repository deletion is under way |

A **producer** (webhook: `Push`; route, person, Workspace link: `Ask`) prepares a
request, starts the orchestrator with the id of the request as its key, and
activates the request — three transactions, between which everything may
happen, and each of which may fail or lose its reply (`ProducerAdmitFails`,
`ProducerStops`). `Answers` is the heart of it: a request whose run is alive, or
not yet started, answers a new one *for the same target branch*. Webhooks and
routes name none; a **connector sync** (`ConnectorBegin`, `ConnectorClaim`,
`ConnectorStart`) names the default branch (`github-mirror-steps.ts:157`), claims
the row by its status and starts a run that has no request; the run makes one for
itself if there is none. A follow-up asks for the branch of its run. A **run**
activates its request, looks whether it counts (`CaptureRequest`, and again at
each resume: `Wake`, `Resume`), marks the row,
reads the head, indexes, publishes, compares the head again and prepares a
follow-up. `StepFails` is an error or a stop anywhere, with or without another
attempt; `MarkSuccessLost` publishes and forgets it. `Rebind` (to any other
binding, an earlier one included), `Delete` and `DeleteRow` change the row under all of them. `Shown` is what
`projectRepositoryIngestionOwners` makes of row, request and run for the user.

### Properties

* `IndexesAlone`: no two runs for one target branch, that began since the same
  rebind, index at the same time. What it leaves open is below.
* `CompletedIsFollowed`: a run that saw a newer head and completed left a run for it.
* `PublishedAdvances`: the published commit never goes back.
* `SupersededLeavesRow`: a run whose request was replaced does not write the row —
  but for its last failure report, see below.
* `Settles`: in the end the repository is not shown as queued or running. It names
  the two exceptions the code leaves: the request is for an earlier binding, or
  its caller stopped before it started the run.

### Fairness

`CalmSpec`: callers go on, workers claim runs and execute them, the deletion run
goes on; pushes, requests, rebinds, deletions, failures and stops end.

### What is abstracted

The phases of `repository-index` are one step with three outcomes; each of them
looks at the request, and their effects on codesearch are `IndexPhases`. A
commit is its position on the branch: force pushes are left out. The columns that
show progress, full re-ingestion, and the extraction of knowledge that is queued
at the end (`repository-ingestion-v2`) are not modelled.

### What the model shows beside its properties

These are read off the code while translating it; the properties are stated so
that they hold with them.

* Two runs may index one repository side by side, although
  `src/apps/backend/docs/repository-ingestion-queue.md:7` says "At most **one active**
  `repository-ingestion` orchestrator per repository at a time". A request answers only
  one for the same target branch (`repository-ingestion-requests.ts:53,58`), and a
  connector's run carries the default branch where a webhook's carries none: a push
  during a connector's first ingestion replaces its live request, and a second run
  indexes while the first is inside a phase. A rebind in the middle of a run does the
  same. In both cases the replaced run writes no result (`PublishedAdvances` and
  `SupersededLeavesRow` hold), but its phases go on in the shared checkout until it
  looks at its request again.

* A push between the comparison of the head and the end of the run is not
  followed: the run compares once, its request still answers the webhook, and
  then it ends. `CompletedIsFollowed` therefore speaks of a head that the run
  *saw*; `src/apps/backend/docs/repository-ingestion-queue.md:10` says "Mid-run
  pushes must not be lost forever after a **successful** ingest".
* When the admission of a follow-up fails after the follow-up was prepared, the
  repeated step finds its own request superseded, and the run ends as failed
  with the follow-up never started.
* `activateRepositoryIngestionRequest` sets the status of a row that is
  `unindexing` (`models/repositories.ts:46` says that nothing does).
* `markRepositoryIndexingFailed` has no condition on the request: a run that was
  replaced reports its failure on the row. `SupersededLeavesRow` excludes it.
* A connector's run has no request of its own to activate: it makes one only when
  the repository has none. Once a request row exists, every connector's run ends
  as superseded, and reports that as a failure.

## 7. Sandboxes

### `SandboxLock`

One lock: `row` is its row in `sandbox_locks` (owner, what is left of the lease),
`att` the calls of `withLock`, each with the deadline it counts for itself and the
renewal that is on its way. Time is in ticks of one rate; what differs between
processes is *when* a query is executed and *when* its reply is read, so
`SendInsert`, `Insert`, `Granted` and `SendRenew`, `Renew`, `Renewed` are three
actions each, with `Tick` between them. Timers fire at the deadline or later
(`LoseByDeadline`). A holder may stop (`Crash`) and its row stays.

* `OneOwner`: two callers are never both before their deadline.
* `ResultIsExclusive`: a result that counts was made while nobody else was let in.
* `AttemptEnds`: nobody asks for ever, also behind a holder that stopped.
* `SuccessIsNotAborted` is refuted: finding 5.

Fairness: time passes, queries are answered, the work inside a lock ends. Wake-ups
and the poll of waiters are one action (`Retry`). A lock with a scope key is two
locks, one after the other.

### `SandboxSlots`

Above the locks: `instance` (the row), `box` (what the provider has), `age` (time
since the last use), `turn` (what the holder of the thread's lock is doing: waiting
for a slot, reserving, creating, attaching, using) and the sweep with its `plan`.
The count of the running sandboxes and the reservation are two actions under the
lock of the organization; the create comes after it. The sweep lists first and
acts on each sandbox later, under the lock of its thread if that is free.
Crashes come at every point, and with a create or a stop under way leave row and
provider apart.

* `RunningIsBounded`: running sandboxes of live rows never exceed the limit of the
  organization, nor those of ingestions theirs. Excluded (`revived`): a sandbox
  whose delete failed is resumed without a slot
  (`conversation-sandbox-lifecycle.ts:267`), while the comment on lines 74-80
  says that every resume of a stopped one takes a slot.
* `UsedIsKept`: nothing stops or deletes a sandbox under the turn that uses it.
* `SlotIsGivenBack`: a live row that nobody uses, or that was reserved by a process
  that stopped, is stopped or deleted in the end. Fairness: sweeps run (each
  schedules the next, and tip check and worker start do too), turns end, time passes.

## 8. Codesearch

### `IndexPhases`

The requests of one codesearch process that touch the files of a repository. A
phase passes the admission of pipelines (`pipe`: reservations with reference
counts that idle out), the operation lock of its repository (`op`: phases share
it, a purge has it alone, both queue), and a process slot (`slot`, `slotQueue`).
The process has one thread, so an action is the code between two awaits:
`AskPhase` is admission and lock together; `AskScip` ends at the await that reads
the row of the repository, which is why it takes its key before it; `FreeSlot` and
`Leave` hand slot and lock over in the same synchronous call.

The properties speak of these phases. The legacy route `POST /{repoId}/index`
(`src/apps/codesearch/src/routes/repo.ts:680`, `domain/indexing/service.ts:109`) is
still registered and not modelled: one request does all phases, under the operation
lock, `withIndexConcurrency`, the process slots and the checkout mutex, but without
the admission of pipelines and without the key of a SCIP phase. So `CapHolds` does
not count it, and it could write a shard file together with a SCIP phase; the lock
and the slots hold for it too. Nothing in the repository calls it. Each repository
has one SCIP language here: at most one SCIP phase of it is under way, so the mutex
of the checkout (`Turn`, `scipIndexers.ts:93`) is never contended.

* `PurgeIsAlone`, `PurgeIsNotOvertaken`: a purge shares the files with nobody, and no
  later phase passes it.
* `SlotsAreBounded`, `CapHolds`: the limits. `CapHolds` excludes (`cut`) that a phase
  ends the reservation of its pipeline while another one of the same repository
  is under way: `merge-scip` does that when two pipelines overlap.
* `ScipRunsOnce`: two requests for one SCIP phase never run it at once.
* `EveryCallEnds`: nobody waits for ever for the lock or a slot.
  Fairness: the event loop goes on and child processes end.

`ResolveThrows` is the path on which an error of the database leaves the key
`"running"` and the reference of the pipeline taken for the life of the process
(`indexPhases.ts:638`: `resolvePhaseContext` throws past both). No property here
says that it does not; a later request for that phase gets 202 and no work.

### `ShardPins`

One checkout: `cold` (the version of the shards on disk), `hot` (what the web
server serves), `pin` (generation and the timer that it armed), `armed` (the timers
that will fire, each with the pin that armed it), `line` (the queue in which pins,
refreshes, unloads and purges run one at a time). A build writes shards outside the
queue and then joins it; `built` counts those between the two, as phases share the
operation lock and builds may overlap. A build that fails skips the refresh
(`domain/indexing/phases.ts:476-501`); it is taken to have written no shards, and
errors of links and files are left out. `unpinRepo` is called by tests only.

* `ServedIsFresh`: at rest a pinned checkout is served from its newest shards.
* `StaleUnloadSparesPin`: the unload of an old timer never removes a newer pin.
  Excluded (`restarted`): after a purge the generations start again at 1
  (`pinManager.ts:15`), and an unload that waited since before it can match.
* `IdleIsUnloaded`: what is pinned is unloaded in the end. Fairness: timers fire, the
  queue is worked off.

## 9. The runs

TLC explores each run to the end; none depends on a state constraint.

| run | expects | distinct states | what it shows |
| --- | --- | --- | --- |
| `one` | pass | 1 501 000 | one executor: the lane implements `JobLedger`, at most one commit, truthful rows, under errors, crashes, stops, withdrawn access, a relink to another repository and two commits of people |
| `two` | pass | 1 555 000 | two executors in one run of a file edit: published results are true and final |
| `live` | pass | 406 000 | every job settles after the upsets end |
| `two_double` | violation | | [finding 1](#11-where-the-code-does-not-do-what-it-says) |
| `handoff` | violation | | finding 2 |
| `projection` | pass | 1 650 000 | safety and refinement with two hydrates, tip check, requests, a relink, a moving tip |
| `projection_live` | pass | 346 000 | the head of the branch is served in the end, with graph and index |
| `projection_root` | violation | | finding 3 |
| `projection_stuck` | violation | | finding 4 |
| `ingestion` | pass | 392 000 | one run at a time for each target branch, the published commit moves forward, newer heads are followed, and the shown status settles |
| `services` | pass | 108 000 | the graph, locks, slots, index phases and pins, each in its own behaviours |
| `lock_stray` | violation | | finding 5 |

`MCServices` puts five specifications that share no state into one: its constant
part `part` chooses, at the start, which one moves, and the others stand still.
Its states are the sum, not the product, of the five.

Deadlock is not checked: in every instance the system may come to rest, when all
jobs are over or everything is served and no bound leaves room for another event.

### Bounds, and why they are enough

* **`Jobs = {j1}`**: jobs share the branch and the Workspace row and nothing else.
  Another job is, for this one, somebody who commits to the branch
  (`HumanCommit`, which may also undo a change) or captures the tip
  (`CaptureTip`). The proofs are for any number of jobs.
* **`MaxLog`** is the length of each branch at which people stop: with 3
  (`ThreeCommits`), a commit can come before the push, between push and result, and
  after it; the handoff needs 4. The second repository of `one` gets the commits of
  jobs only.
* **`MaxGen = 2`**: one relink. Generations only grow and are only compared for
  equality, so a second relink gives nothing that the first does not.
* **`Rounds`, `StepAttempts`** are parameters of the code (3 rounds and several
  attempts). Two rounds are the least where "another round" and "the last round"
  differ. One attempt: an error ends the run at once. An error after which the step
  is tried again leaves everything but the count as a crash leaves it, and crashes
  are there; the theorems are for any number of attempts.
* **`Execs`**: two executors for the lost lease; a third would be a second stalled
  worker.
* **`Urls = {u1}`**: a relink to the same URL still changes the generation, which
  is what every condition compares first. `one` has two, because its properties
  speak of the repository that is pushed to.
* **Two hydrates** can hold two revisions, or one twice; **one URL and folder**
  except in `projection_root`; **`MaxTip = 2`**: an older and a newer tip.
* **Stores**: the derived stores do not read each other's results. `projection`
  keeps one, `projection_live` keeps the two with a life of their own (the graph
  can be lost, the index is another run). `embeddings` behaves as the graph
  without loss.
* **`ingestion`**: one producer makes its calls one after the other, because what
  matters is that a call meets a run and not another call: `MaxId = 4` lets a run,
  its follow-up, a new request and a connector's run exist together. `MaxTip = 2`:
  one push after the first; `MaxStir = 2`: two rebinds, the second of which may
  restore the first of the two bindings, or one connector sync, or one deletion
  (these count as two).
* **`services`**: three requests, two repositories, one pipeline, one process slot:
  the least with which a purge waits between two phases and a slot is handed on.
  Two attempts and a lease of two ticks for the lock: an expiry in the middle of
  a query and after it differ. Two sandboxes and three kinds of organization
  (`MCOrgs`): chat against chat, chat against ingestion, ingestion against its own
  limit; one fault (two hold as well). Three searches and purges and two builds
  for the pins; two hydrates and two losses for the graph.
* **Symmetry** (slots of hydrates and of relinkers, executors) is used in safety
  runs only.

Every property of a passing run has a mutant: a defined variant of one
definition, with a plausible mistake, under which TLC finds the property
violated. `Contains_TipOnly` looks for the candidate at the head of the branch
only; `Contains_BaseMoved` takes any moved branch for a published candidate;
`HydrateTip_Stale` hydrates the stored sha instead of the tip;
`SetResult_KeepCandidate` leaves a discarded candidate on the row;
`Claimable_AnyCommit` claims a job that has its commit; `PushUrl_Live` pushes to the
repository that the row names by now; `FailEnded_Owned` settles
owned rows only; `Activatable_AnySha`, `Failable_Served`, `Settleable_Served` drop
one condition of an update; `NeedsHydrate_ServedOnly` forgets the derived stores.
In `Ingestion`, `Answers_Pending` lets only a run that has not started answer a
request, `Writable_Any` writes whichever request counts, `FollowUpAdmit_Lost` does
not await the admission, `Shown_Row` shows the row as it is. In the services: the
deadline counted from the reply (`Deadline_Reply`) or left to its timer
(`Counts_Timer`), a lease that is never taken over (`Takeable_Row`); reservations
that do not count (`Counted_Known`) or are never swept (`Due_Known`), a sweep
without the lock (`ThreadFree_Any`); a marker that stays during a rewrite
(`DeleteMarker_Skip`), a tip check that overlooks pending graphs
(`TipHydrate_Failed`); reservations that idle out under a phase (`Kept_Idle`), a
purge woken too early (`Woken_Any`) or never (`Woken_Phases`) or overtaken
(`CanAcquire_Overtake`), a key set after the await (`AskScip_Late`), a slot counted
down although it was handed on (`FreeSlot_Lost`); a refresh that keeps old links
(`Link_Keep`), an unload of any generation (`Unloads_Any`), a timer armed once
(`Arm_Once`).

## 10. The proofs

### `WriteLaneProofs`, `JobLedgerProofs`: one candidate, one commit

For any number of jobs, executors, remotes, admitters, attempts and rounds:

* `TypeCorrect` — `Spec => []TypeOK`.
* `FileEditsArePublished` — `Spec => []FileEditIsPublished`.
* `PublishedResultsAreFinal` — `Spec => PublishedIsFinal`.

They follow from `Invariance`, the induction over
`Inv == TypeOK /\ LogOK /\ RowOK /\ RunOK /\ ExecOK /\ AdmOK` (with the quantifiers
left out). `FileEditIsPublished` is not inductive: a row gets its commit before
the push and becomes completed after it, and between the two only the recorded
history of the run knows whether the push happened. So `Inv` ties together the
row, the history, and the copies of the history that executors hold, which may
be older than the recorded one:

* a history that is past the push names a candidate that is on its branch, and a
  branch only grows;
* a file edit that has passed `commit` never returns to the side of the no-op,
  and one on that side never makes a commit (`CommitSide`), so no executor, however
  late, can complete a row without a change once another recorded a candidate,
  or the other way round.

The invariant does not say that leases are exclusive, so these theorems hold for
every number of executors inside one run. The same argument fails for the
semantic merge, which may go back from a candidate to a no-op by way of
`Discard`; there the property does fail (see the end of finding 1).

What is true of a job of either kind needs an assumption about leases:

```
Exclusive == no two executors are inside the same run
```

OpenWorkflow gives the lease of a run to another worker when it was not renewed in
time, and does not stop the first one; so `Exclusive` says that whoever lost a
lease was dead and not slow. The code does not enforce it, therefore it is a
hypothesis of the theorems (`Spec /\ []Exclusive => []P`) and not part of `Spec`. It
holds by itself with one executor, which is run `one`; run `two_double` shows what
`JobsPublishOnce` becomes without it. It leaves room for any number of executors, on
other jobs, on the parent and the child of one job, or on the same run one after
the other: after crashes at every point, after each failed attempt, after a park.
Then, for any values of the constants (the theorems are in `JobLedgerProofs`):

* `JobsPublishOnce` — `AtMostOneCommitPerJob`: on all branches together.
* `JobsArePublished` — `CompletedIsPublished`.
* `EmptyResultsAreTrue` — `NoChangesIsTrue`.
* `ResultsAreServed` — `CompletedIsServed`.
* `RunsAgreeWithRows` — `RunAgreesWithRow`.

They follow from `LaneInv`, inductive together with `Inv` and `Exclusive`; that the
steps outside the bodies keep it is at the end of `WriteLaneProofs`, the steps of the
bodies are in `JobLedgerProofs`. None of the five is inductive: each speaks of the branch, the row or the hydrate, and what may
be there next is known only to the recorded history of the run that does the work
of the job. `LaneInv` says for each job what that history stands for:

* `Working`: before the push nothing of the job is on any branch; at the push,
  nothing or its candidate, once (a push whose result was lost); after it the
  candidate, once, and the hydrate of a tip that holds it. A no-op has nothing.
* `RootFits`, `ChildFits`: a root run works until it has spawned its child, and from
  then on the child does. A root past its merge has the result of a child that
  completed, and a completed child had its result on the branch and hydrated.
* `RowFits`: the row names no candidate at the steps where none may be pending
  (`Unprepared`, what `Claimable` asks for), and is completed only at the three steps
  that record a result, with that result.
* `Alone`: an executor works on the recorded history, except for the one step it is
  about to record, which fits the job as well (`JobWith`); and one that has passed
  `PushCheck` knows that the job is unpublished. With two executors both fail: the
  recorded history moves on, and the other one may have pushed since.

TLC checked `LaneInv` as an invariant of instances with one executor and with two
exclusive ones before it was proved.

### `JobLedgerProofs`: the lane implements the ledger

* `LaneKeepsLedger` — `Spec /\ []Exclusive => KeepsLedger`.

The initial states map to the initial state of the ledger (`InitialLedger`), and
every step to a step of the ledger or a stutter (`LedgerStep`). It rests on three
things:

* `LedgerFacts`, a consequence of `Inv` and `LaneInv`: which commits on which branches
  are those of a job, and what the row of a completed job says of them.
* `FailedOK`, an invariant of its own: a failed row is worked on by no run of the job
  itself (`Stale`: the root run is over, or has yet to claim). `LaneInv` does not say
  that, and without it a step that records a result could finish a failed job. The
  child of a handoff may still work for it, so `FailedOK` speaks of root runs only.
  TLC checked it on an instance with two repositories first.
* A classification of the steps by what the ledger sees of them. Steps outside the
  bodies change rows only by `Moves` (a row stays, fails, or is taken up again), which
  is `Turn` or a stutter, for any number of rows at once: a tip check reconciles many.
  The steps of a body keep the rows (`BodyRows`), but for those that finish a job
  (`FinishesLedger`: `Noop`, `Merged` and `Complete` map to `Finish`), `PushSend`
  (`PushSendLedger`: `Publish`) and the two that queue a hydrate (`HydrateLedger`:
  `Order`). `Admit` is `AdmitBind` of a job that has no row.

That `PushSend` is a `Publish` needs most of it: nothing of the job is on any branch
(`Alone`: whoever passed `PushCheck` knows it is unpublished), no hydrate was ordered,
the row is not done, and the revision of the run has the URL the row was bound to.

### `WorkspaceProjectionProofs`

For any number of remotes, root folders, hydrates, tips and generations:

* `TypeCorrect` — `Spec => []TypeOK`, without further assumption.
* Under `OneRelinker` (two updates of the link do not overlap):
  `ReadyServes`, `FailuresAreUnserved`, `RootIsServed` (the invariants
  `ReadyIsServed`, `FailedIsUnserved`, `ServedFromRoot`), `PromiseKept`
  (`Spec => KeepsPromise`, the refinement), and `ReadersNeverGoBack`, which
  follows from the refinement.

The invariant has two parts. `Shape`: types; every sha in flight was a head of its
branch, and the tip that a caller read is not older than the sha it found in the
row. The second half is what makes `Capture` move forward: its
compare-and-set asks whether the row is what was read *before* the tip was. `Order`:
every revision in flight is of the link of the row or of an earlier link
(`Current`), and what is served is not ahead of what is wanted. With `Order`,
equality of generation, URL and sha, which is all that the updates compare, is
equality of the whole revision, root folder included.

`OneRelinker` is an assumption of the theorems and not of the specification.
`updateWorkspace` does not enforce it; run `projection_root` shows what
`RootIsServed` becomes without it. Nothing else is assumed beyond the named
`ASSUME`s on the constants.

### `IngestionProofs`

For any number of callers, connectors, requests, runs, commits and rebinds:
`IngestionTypes`, `IndexingIsAlone` (`IndexesAlone`), `CompletedRunsAreFollowed`
(`CompletedIsFollowed`), `PublishingAdvances` (`PublishedAdvances`) and
`SupersededRunsLeaveTheRow` (`SupersededLeavesRow`).

No lock keeps two runs apart: every write asks whether the request of the run still
counts. The invariant says how far that goes. The request of a run at work is
replaced by a request for another target branch or after a rebind, and not
otherwise: unless the repository was rebound since, a run at work *owns* the
request, or it names the default branch and the request names none (`WorkersOwn`).
So two runs for one branch that began since the same rebind are one
(`WorksAlone`). A request that was replaced never returns, and a run that has asked
for its follow-up does not own the request any more (`RequestsKeep`); so only the
owner publishes, and what it resolved after it became the owner is not older than
what is published (`ShasAhead`): a binding that is restored does not bring an old
run back. What a step may do is said once, to one run (`RunStep`), to
the row (`RowStep`) and to the request (`ReqStep`); each action is shown to be such a
step, and such steps to keep the invariant. The bounds `MaxAsk`, `MaxId`, `MaxTip`,
`MaxStir` are parameters of the theorems. TLC checked the invariant first, on an
instance larger than that of the run.

### `SandboxProofs`: the lock

For any number of attempts and any lease: `LockTypes`, `OneOwnerAtATime`
(`OneOwner`), `ResultsAreExclusive` (`ResultIsExclusive`). Neither property speaks of
time, but both rest on it. The invariant compares two clocks that start at
different moments: a caller counts its deadline from before its query, the row its
lease from when the query ran. So whoever still believes in a deadline has a row
whose lease is not shorter than what is left of it, and a row with a lease is
taken over by nobody. With the deadline counted from the reply (`Deadline_Reply`)
the comparison, and with it the induction, breaks.

### `GraphProjectionProofs`

For any number of hydrates, losses and faults: `GraphTypes` and `MarkersMeanWhole`
(`MarkerMeansWhole`). It is about failures and repetitions of one writer, and says
nothing of two that overlap (`mixed`, which the property excludes and which the code
does not prevent). Otherwise there is one writer, and what the store holds follows
from the statement it has reached: no marker from its deletion to the last write.
A run that fails or stops anywhere leaves a store without a marker, or with one over
a whole graph; and one that deletes marker and nodes while no other writes restores
the invariant, whatever it found.

### `SandboxProofs`: the slots

For any number of sandboxes and organizations, any limits and any number of
failures: `SlotTypes`, `LimitsHold` (`RunningIsBounded`) and `UsedSandboxesAreKept`
(`UsedIsKept`, an action property: whoever stops or deletes a sandbox holds the lock
of its thread, which its turn holds while it is in use). The number of *running*
sandboxes is not inductive, as a start that was counted runs later. The invariant
bounds the *live* rows: only a reservation makes a row live, and what it counted
under the lock of the slots still holds when it writes. A sandbox whose delete had
failed and that is resumed (`revived`) becomes live without one; the property
excludes it.

### `CodesearchProofs`: the gates of a phase

For any number of requests, repositories, pipelines and slots: `PhaseTypes`,
`PurgesAreAlone`, `PurgesAreNotOvertaken`, `SlotsHold`, `CapacityHolds`,
`ScipPhasesAreSingle`. The code keeps numbers and queues; the properties speak of
requests. The invariant says what the former count: the active phases of a lock
are the size of the set of its holders, the line holds exactly the requests that
wait, the slots in use are the child processes. The hand-over at release is the
hard step (lemma `Drain`): the phases before the first purge leave the line
together, and the count grows by how many they are. For the capacity, every phase
under way is one of the references of the reservation of its repository, so an
idle one without references can go; `cut` names the one way in which it is lost.
The proofs assume that there is a repository and that the requests are finitely
many (`IndexPhasesAssumption`).

### `CodesearchProofs`: the pins

For any number of searches, builds and purges: `PinTypes`, `StaleUnloadsSparePins`
(`StaleUnloadSparesPin`) and `PinsServeFresh` (`ServedIsFresh`). For the first, the
unloads that wait in line are in the order of their generations, none is of a later
one than the pin, an armed timer is that of the pin, and a pin whose timer is armed
is later than all of them; so an unload that meets a pin of its own generation is the
one of that pin, unless a purge restarted the count (after which a timer of before
may be armed beside the new one). For the second, what is loaded are the newest
shards or a refresh is still to come (`Coming`): it waits in line, or runs and has
made no links, or a build has yet to join the line. Builds may overlap.

### `ServicesProofs`

The run `services` checks the five services in one instance, one moving at a time.
`ServicesCompose` shows that its specification implies `PhaseSpec`, `PinSpec`,
`LockSpec`, `SlotSpec` and `GraphSpec`: each of its steps is a step of one service
and leaves the variables of the others alone (`OneMoves`). So every theorem about a
service on its own holds in the run too; `ServicesTypes` (`ServicesTypeOK`) is drawn
from the five type theorems that way.

### What stays with TLC

* Liveness (`JobSettles`, `TipIsServed`, `Settles`, `EveryCallEnds` and the others):
  fairness and `ENABLED` are outside what the prover handles.
* That the hypotheses `Exclusive` and `OneRelinker` hold: they are assumptions about
  the environment (a lost lease means a dead worker; people do not move one Workspace
  twice at once), met by the instances of the passing runs whose properties need them.
* The five findings: what the code does not hold is refuted, not proved. Where a
  theorem has a hypothesis (`Exclusive`, `OneRelinker`), the run that refutes the
  property without it is named above.

## 11. Where the code does not do what it says

Each is a run that TLC refutes, and an entry of `findings` with the quotation.

1. **`two_double`.** After the credential is issued the broker asks whether the tip
   is still the revision, not whether the branch now holds the candidate. With
   two executors in a run and a person who commits on top and undoes the change,
   the second replays the job and commits it again. Two smaller effects have the
   same root, a stalled executor that goes on after its lease: a late
   `claim-command` puts a job that completed without a change back to running and
   drops the handoff of a file edit whose child it then refuses
   (`workspace-write-jobs.ts:596-598`: the update looks at neither), and a
   late `persistWriteJobPreparedCommit` (`:335`) leaves a discarded candidate on the
   row of a semantic merge that completes without a change.
2. **`handoff`.** After a no-op round refreshed the revision, a moved tip makes the
   file edit hand over with a revision that `persistSemanticHandoff` refuses; the
   run fails. This needs no failure, only two commits at the wrong moments.
3. **`projection_root`.** Two overlapping changes of the root folder write the same
   generation, and content of one folder is served as the other's.
4. **`projection_stuck`.** A retry of a published Workspace whose index alone lags
   leaves the status pending for ever: the run ends on the `index_lag` path,
   which does not settle it, and no later check sees anything to do.
5. **`lock_stray`.** The release of a sandbox lock clears the timer of the deadline and
   then waits for a renewal that arms a new one. Nobody clears that: up to 30
   seconds later it aborts the controller of the caller, whose work under the
   lock had succeeded — for a chat turn, the turn itself.

The first needs a worker that stalls longer than its lease and then goes on; the
last needs work of at least one renewal interval.

## 12. What is not modelled

Within the modelled parts:

* Write lane: content of the edits and merge conflicts (a merge either gives a
  candidate or no change), refusal of a command, the format gate and the check of
  paths outside the root folder (both refuse before any effect), retired commands,
  bootstrap of an unborn branch, mirrors of several units, the upgrade scan after
  a setting.
* Projection: content and its parsing, the previously published index, linked
  repositories, the commit projection, sources, the jobs a hydrate plans,
  collection of unused graph keys, rows of before the upgrade (`legacy`).
* Ingestion: the extraction of knowledge and its shards, progress columns, full
  re-ingestion; in the deletion, the order of the stores that it empties.
* Sandboxes: Workspace bases, job sandboxes, the deletion of a whole Workspace,
  what a turn does inside its sandbox, the push before a delete (it may only keep
  the sandbox for the next sweep).
* Codesearch: the legacy route `POST /{repoId}/index`, what a phase computes, builds
  that fail, errors of the file system, which checkouts are collected, the warm-up
  of the web server.
* OpenWorkflow: how a run is chosen, backoff, wake-ups. A run may be claimed at
  any time, which includes every such order.

Whole components: those of section 2 that are still to come, and

* retrieval, structural search, graph queries, MCP and routes: they read, or call
  the components above;
* connectors, sources, upgrades, conversation publishing: sequences of idempotent
  steps whose writes are jobs of the lane;
* authentication, UI, CLI, documentation, infrastructure: a library's state,
  presentation or deployment.

## 13. How to run

```
tlc -workers 2 -config WriteLane_one.cfg MCWriteLane.tla
tlc -workers 2 -config Projection_safe.cfg MCWorkspaceProjection.tla
tlc -workers 2 -config Ingestion.cfg Ingestion.tla
tlc -workers 2 -config Services.cfg MCServices.tla
tlc -workers 2 -config Lock_stray.cfg SandboxLock.tla
tlapm WriteLaneProofs.tla
tlapm JobLedgerProofs.tla
tlapm WorkspaceProjectionProofs.tla
tlapm IngestionProofs.tla
tlapm GraphProjectionProofs.tla
tlapm SandboxProofs.tla
tlapm CodesearchProofs.tla
tlapm ServicesProofs.tla
```

Only standard modules are extended. TLAPS 1.4.5 with Z3, Zenon and LS4 proves all
obligations.
