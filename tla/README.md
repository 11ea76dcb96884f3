# TLA+ verification of agent-loop (codex-issue-loop)

agent-loop is a resident supervisor for macOS that works through a repository's
GitHub Issues: it claims an issue, prepares a worktree, runs a coding agent (Codex,
Claude or OpenCode) as a worker process, publishes what the worker did as a pull
request, watches its checks and its merge, and puts questions to an operator. All of
its state lives in a directory per repository; it is restarted by launchd and has to
go on from whatever a crash left behind.

This directory holds TLA+ models of its core, the TLC runs that check them, and
TLAPS proofs. The models are written from the source; paths below are relative to
`src/internal/` unless they begin with `docs/`. `PROJECT.json` maps each definition
to the lines it models and lists components, runs, hazards, findings and theorems.

    tlc -workers 2 -config StateStore_damage.cfg MCStateStore    # one run
    tlapm StateStoreProofs.tla                                   # the proofs of a module

Contents: 1 the system, 2 the modules, 3 the store, 4 the issues, 5 the other modules,
6 the runs, 7 where the code and its documents part, 8 the proofs, 9 what is not
modelled, 10 the plan.

## 1. The system

### Components, their state and what makes them correct

| component | state it keeps | operations | what makes it correct | here |
|---|---|---|---|---|
| durable state store (`adapter/state/{state,recovery,status}.go`) | `state.json`, `events.jsonl`, `state.txn.json`, `recovery/` backups, `state.lock` | Load, Update, Initialize, ReadStatus, repair, isolate, rotate | an update is atomic and durable; recovery returns exactly the committed updates or blocks the store with the evidence kept | `StateStore` |
| quarantine restores (`adapter/state/quarantine_recovery.go`) | `quarantine-recovery.txn.json`, staged files | plan, stage, complete | an interrupted restore completes; a blocked marker is replaced once and for all | the identity restore in `StateStore` |
| issue lifecycle (`domain/issue`, `domain/snapshot`, `adapter/state/{issue_transition,execution,suspension,effect,mailbox}.go`) | per issue: status, run, generation, checkpoint, suspension, answers; per repository: active execution, effects, requests, quarantine | transitions, capture / resume / transfer of execution, answer, resolve, validate, isolate | at most one execution; authority and status agree; answers are kept and delivered once; closed issues stay closed | `IssueAggregate`, `IssueLifecycle` |
| supervisor worker execution (`application/supervisor/{supervisor,worker_execution,continuation_stage,reconcile,processes}.go`) | the job's own copy of the issue, the worker process | start, claim, launch, validate, run, handle the result, retry, fail, startup reconciliation, stop workers | no late result is applied, no generation runs twice, nothing is stuck after a crash | `IssueLifecycle`; worktree and publication in `Publication` |
| pull request checks (`checks_lifecycle.go`) | pull request identity in the issue | poll, complete, block, fail, retry | only the pull request recorded decides | `IssueLifecycle`, `Publication`, `ConflictRecovery` |
| GitHub effect synchronisation (`github_sync_lifecycle.go`, `adapter/github`) | one pending effect per issue | call, clear, project labels | no effect dropped, each eventually done | `IssueLifecycle` (labels and comments abstract) |
| conflict recovery (`conflict_lifecycle.go`, `application/conflict`) | attempts per base, allowed paths | prepare, run worker, verify, push | budget per base, only allowed paths pushed | `ConflictRecovery` |
| scheduler (`scheduler.go`, `backoff.go`) | active jobs, slots, retry deadlines, event queue | schedule, dispatch, admit, handle event, drain | one worker, order kept, no starvation, drain ends | gate, slots, admission in `IssueLifecycle`; drain in `RepositoryRuntime`; mailbox, errors and cooldown in `WebhookDelivery` |
| operator input from GitHub (`input_control.go`, `adapter/github/input_*`) | answer provenance, comment cursor | read, validate, record | only the authorised, unedited answer counts | `InputAnswer`; the record of an answer in `IssueLifecycle` |
| operator command line (`application/app`) | none of its own | answer, issue plan / resolve, status, doctor, ... | a command acts on the state it showed | answer and resolve in `IssueLifecycle`; start, stop, restart in `OperatorControl`; cleanup and purge in `Publication` |
| operator control and drain (`application/{operatorcontrol,drain}`) | drain request and acknowledgement files | request, observe, acknowledge, resume | work stops at a boundary and starts again | `RepositoryRuntime`, `OperatorControl`, `Maintenance` |
| shared rate-limit store (`platform/ratelimit`) | cooldown file shared by all supervisors | observe, wait, clear | nobody calls during a cooldown, a cooldown ends | `RateLimit` |
| webhook broker and mailbox (`adapter/webhook`) | deliveries per repository, cursor | accept, deduplicate, deliver, sweep | at least once, no loss over a restart | `WebhookBroker`, `WebhookDelivery` |
| per-repository delivery (`application/delivery`) | release assignment, slots, controller state | assign, stop, switch, health check, roll back | one release runs, a failed switch is undone | `Assignment`, `Maintenance` |
| state migration (`application/migration`) | migration journal, snapshots | plan, apply, resume, roll back | all or nothing | `Migration` |
| incident loop (`application/incidentloop`) | cursor, fingerprints, outbox | collect, analyse, decide, publish | each incident reported once | `IncidentEpisode`, `IncidentLoop` |
| publication (`adapter/publish`) | branch, pull request | commit, push, create or find | repeatable | `Publication` |
| worktrees (`adapter/worktree`) | git checkouts | prepare, validate, digest, remove | a launch sees the content its checkpoint names | `Publication` |
| worker back ends (`adapter/worker`) | process, session, result file | run, resume, kill | a result is complete or absent | its outcomes in `IssueLifecycle` |
| runtime registry and metadata (`platform/{registry,runtimemetadata,layout,fsutil}`) | registered repositories | register, remove, look up | no registration lost | not modelled: one file changed under a lock |
| status API (`adapter/statusapi`, `application/observe`) | none | read | reads committed state | `StatusReadsCommitted` |
| monitor (`src/monitor`) | label histories | ingest, replay, classify | a replay is deterministic | not modelled: a program of its own |
| queue policy and retry arithmetic (`domain/queue`, `domain/issue/retry.go`) | none | order, decide | monotone, bounded | decisions and budgets inside the modules that use them |
| configuration, redaction, compatibility, user rules, launchd, retention | files read once | parse, check | - | not modelled (launchd is part of `RepositoryRuntime`): no state shared between processes |
| release tooling, contract stub, evaluators | none | one-shot tools | - | not modelled: offline |

### How they interact

- Every process changes a repository only by `Store.Update`: under an exclusive file
  lock it recovers the files, applies a closure to the snapshot, finalizes and
  validates the result, and commits. A change whose result is invalid isolates the
  issue it was about, or is refused.
- One supervisor per repository holds `supervisor.lock`. Its scheduler and its jobs
  (one goroutine per dispatched issue) exclude each other by `lifecycleMu`, here "the
  gate", which a job gives up while a launch is validated and a worker runs.
- Command-line processes (answer, resolve) take no lock but the store's. They come in
  between any two updates of a job; `issue resolve` compares the snapshot's revision
  with the one its plan was made from.
- GitHub is reached by calls that fail. A change that GitHub is to show is recorded
  with the issue as an effect, carried out after the commit, and cleared if the same
  effect is still pending.
- The worker is a process group of its own and outlives a killed supervisor.
- A command or a delivery that wants a repository at rest leaves a fence file; the
  scheduler sees it in its next cycle, starts nothing more and reports maintenance in
  the snapshot, which the command polls.
- One broker per host receives webhooks for all repositories, and leaves intents in
  each repository's mailbox directory; the scheduler reads and removes them. All
  supervisors of one account share the cooldown file.
- The incident automation runs in the supervisor and from the command line, on files
  of its own under two locks.

### What is hard here

Crashes between any two durable writes; the operator coming between a job's read and its
write; stale copies (a job keeps the issue as it was at dispatch); the window between
starting a process and recording it; authority that must be handed from run to operator to
run; effects repeated after a crash; startup reconciliation deciding from what GitHub
shows; statuses nobody takes up again; several processes each with a transaction file of
its own about the same agent; files removed because something else was acted on; GitHub
calls that take effect without a response. `PROJECT.json` lists each hazard with its line
and the properties about it.

## 2. The modules

| module | what it is |
|---|---|
| `DurableLog` | what the store promises: one atomic, durable sequence of updates |
| `StateStore` | the file protocol of `adapter/state`: one action per durable write |
| `MCStateStore` | symmetry for TLC |
| `StateStoreProofs` | safety, refinement and types of `StateStore` |
| `IssueAggregate` | the snapshot as data: transitions, checkpoints, effects, suspensions, `Validate`, `Update` (operators only) |
| `IssueLifecycle` | scheduler, jobs, workers, operator, GitHub, crashes and restarts around one snapshot |
| `IssueLifecycleProofs` | one worker, one authority, one delivery, one run per generation, for any issues, with the lemmas about the snapshot's operators up to `Update` |
| `RepositoryRuntime` | one repository's launchd agent and supervisor, as those who stop and start it see them |
| `OperatorControl` | start, stop and restart with their control transaction; extends `RepositoryRuntime` |
| `Assignment` | the switch of the repository to another binary, and its rollback; extends `OperatorControl` |
| `Maintenance` | the three composed, with interruptions and reboots |
| `MaintenanceProofs` | drains are real, fences have owners, the assigned slot is installed |
| `WebhookBroker` | inbox, receipts, routing, mailbox and safety sweep |
| `RateLimit` | the shared cooldown |
| `WebhookDelivery` | broker, cooldown and the scheduler that consumes the mailbox, composed |
| `WebhookDeliveryProofs` | nothing accepted is lost or doubled; the cooldown |
| `ConflictRecovery` | the recovery of one conflicting pull request |
| `ConflictRecoveryProofs` | what is published was verified, and is the recorded merge |
| `Publication` | one Issue's worktree, publication, retries, resolution, cleanup and purge |
| `PublicationProofs` | work is kept, published whole, not done again |
| `InputAnswer` | questions, answers and acknowledgements in one Issue's comments |
| `InputAnswerProofs` | receipts are true and answers final |
| `Migration` | version 5 to 6 of all repositories, and back |
| `IncidentEpisode` | signals to episodes (operators only) |
| `IncidentLoop` | collection, analysis and filing by two callers |
| `MCIncidentLoop` | the budgets of its instances for TLC |
| `UpkeepProofs` | when an incident may get a second Issue, evidence counted once; pairs of files stay whole, migrations can be taken up and keep committed work |

The halves meet in `Update`: `StateStore` shows that an update of the files is atomic
whatever is cut, and all modules about issues therefore take each `Store.Update` as
one atomic step; `IssueLifecycle` computes its content with `IssueAggregate`. The
modules below it look at one stretch of the same life in more detail, with a snapshot
reduced to what that stretch reads and writes.

Operators with a comment `Variant:` or `Mutant:` are plausible mistakes in the
operator that follows them. Nothing uses them; they are there to show that the
property each is listed with in `PROJECT.json` (`mutants`) notices the mistake.

## 3. StateStore: the files of one repository

| TLA+ | code |
|---|---|
| `state`, `events`, `txn`, `marker`, `backups` | `state.json`, the lines of `events.jsonl`, `state.txn.json`, `quarantine-recovery.txn.json`, the directories under `recovery/` |
| `torn` | `events.jsonl` ends in bytes without a newline |
| `pc`, `op` | where the operation that holds `state.lock` is, and which it is |
| `Begin` ... `Return` | `Load`, `Update` and `Initialize`, cut at each durable write |
| `Isolate*`, `RecordBlocked`, `WriteBlocked` | `quarantineUnlocked` |
| `Replay*` | `recoverTransactionUnlocked` |
| `StageRestore`, `Complete*`, `DropMarker` | the legacy identity restore |
| `Interrupt` | a crash or an I/O error between two durable writes; an append may leave part of its line |
| `Damage` | something outside the program spoils one file |
| `Upgrade` | a release whose validator rejects what an older one wrote |

The lock serialises operations, so `pc` describes the only one under way. A
snapshot's content is the sequence of payloads applied to it, which is what "lost",
"twice" and "exactly" need; its validation is the flag `sound`. Refusals that write
nothing (schema version, migration barrier) are left out. Histories: `committed` (all
payloads ever prepared), `confirmed` (those whose caller was told), `evidence` (the
files when a fault was found), `cut` (an isolation was interrupted, see 7).

`Spec` allows damage, `CrashSpec` does not, `LiveSpec` adds weak fairness of the
operation under way and of `Begin("load")`: the supervisor is kept alive by launchd
and loads its state in every pass, and nothing outside an operation can disable its
next step.

Properties: `RecoveryIsExact`, `StatusReadsCommitted`, `AppendsToWholeLines`,
`EvidenceKept`, `PreparedCompletes`, and
`ImplementsDurableLog`: under the mapping that takes the prepared transaction, when
there is one, for the stored value, every behaviour of the files is one of
`DurableLog`.

## 4. IssueAggregate and IssueLifecycle: the issues of one repository

### State

| TLA+ | code |
|---|---|
| `db.issue[i]` | `Snapshot.Issues`: status, launch source, run, generation, worker PID present, worktree recorded, pull request recorded, session resumable, attempts, continuations, checkpoint (`Continuation`), `Suspension`, delivered `Answers` |
| `db.active` | `Snapshot.ActiveExecution` |
| `db.effect`, `db.requests`, `db.quarantined` | `PendingEffects`, `PendingRequests`, `QuarantinedIssues` |
| `job[i]` | the goroutine working on issue i: where it is (`pc`), the slot it takes, the copy of the issue it holds (`seen`) and the worker's outcome |
| `sup`, `todo` | the supervisor's process: up, down, or in the startup phases stop workers / reconcile |
| `procs` | the worker processes alive, by execution |
| `remote[i]` | the pull request of the issue's branch on GitHub |
| `used` | how much of each bound has been used |
| `ran`, `called` | histories: executions whose worker was recorded, effects whose call succeeded |

An execution is (issue, run, generation). A fresh run is named by the generation in
which it begins; a question and a checkpoint by the generation whose execution made
it: in the code these are random identifiers, which are only ever compared.

`Update(before, i, after)` is `Store.Update`: `Finalize` (`finalizeLifecycleBoundaries`
releases the execution of a status that does not hold it, captures its checkpoint and
gives a stopped issue its suspension), then `Valid` (`Validate`), else `Isolate`
(`isolateInvalidIssue`), else nothing changes. Every change of `db` goes through it.

### Actions

- Scheduler, with the gate: `Dispatch`, `Admit`, `Webhook`, `TerminalPullRequest`,
  `PrepareAnswer`.
- A job, one action per durable update or external effect: `StartIssue`, `Begin`
  (`processExisting`), `Claim`, `RunClaimed`, `LaunchStep`, `Validate`, `Spawn`,
  `RecordWorkerPID`, `WorkerExit`, `Result` and `Outcome` (`handleResult`),
  `PublishCheckpoint`, `Published`, `PullRequest`, `SyncGitHub`, `Synced`.
- The operator, at any time: `Answer`, `Resolve`, `ResolveSync`.
- The surroundings: `Crash`, `DetachedExit`, `Merge`, `Close`, and the failing
  branches guarded by `Fault`.
- Startup: `Restart`, `StopWorker`, `BeginReconciliation`, `Reconcile`, `Ready`.

An error returned by a job ends it (`GiveUp`); the durable state decides how the
issue goes on. When a job's update isolates its issue the job ends as well
(`Proceed`).

### Abstractions

- Concurrency is 1, the only value the configuration accepts
  (`platform/config/config.go:406`).
- Conflict recovery is `ConflictRecovery`'s: no action here enters
  `resolving_conflict`. The status stays in the sets of statuses, as in the code.
- Deadlines (retry, poll) are nondeterministic: what may be due may be taken up.
- The end of a job and the scheduler's handling of its event are one step.
- Errors of the supervisor's own kind end the job, not the supervisor
  (`WebhookDelivery` has their effect).
- A webhook delivery may arrive at any time; the sweep and the polling that replace
  lost deliveries have the same outcomes and are not told apart from it.
- `session = FALSE` also stands for a worker profile without continuations, and
  `"closed"` also for more than one pull request; "head" stands for any saved
  identity (branch, head, number) that no longer matches GitHub.
- "silent" is a worker that ends without naming its session.
- The publisher, when it succeeds, returns the pull request. When it fails it may have
  opened it.
- Updates that write only audit events are left out.
- Planning and committing an operator's resolution are one step: the commit is
  refused unless the revision is the planned one.
- Answers to requests of quarantined issues, the resolution of quarantined issues and
  the not-planned cancellation are left out; the drain, rate limits and mailboxes are
  modules of their own.

### Bounds

`MaxAttempts` and `MaxContinuations` are the program's own configuration. The others
are bounds of the model: `MaxCrashes`, `MaxQuestions`, `MaxResolves`, `MaxFaults`, all
enforced in guards. `MaxFaults` counts every call or check that fails; `Faults` says
which kinds may. One or two of each is enough for the interesting cases because every
handler reads and writes one issue and one execution slot: a lost race takes one
interruption, recovering from it takes a second, and two issues are enough to contend
for the one slot. The cfgs state the values.

### Fairness

`LiveSpec` assumes

- a supervisor that is down or starting goes on to run, or is up again and again
  (launchd restarts it; the crashes are bounded);
- a job that can go on goes on. A worker ends because its context has a timeout
  (`adapter/worker/worker.go:186`) and is then killed; a job that waits for the gate
  gets it, because Go's mutex hands itself over to a waiter that has starved for a
  millisecond: this is strong fairness, since others take the gate in between;
- an issue that can be dispatched again and again is dispatched, and an answer that
  can be handed over again and again is handed over: every pass of the scheduler
  walks all of them.

Nothing is assumed of the operator, of other people on GitHub, or of the command line's
own synchronisation (`ResolveSync`). The enabling conditions are written out (`CanStep`,
`CanPrepare`) where a step updates the snapshot, since ENABLED over the whole of an update
is too much for TLC; they are weaker than or equal to the guards they stand for.

### Properties

| property | what it says |
|---|---|
| `TypeOK` | the type invariant |
| `RunHoldsAuthority` | from validation to the handling of its result, a job's run owns the active execution, although the gate is open meanwhile and the operator never takes it |
| `OneRecordedWorker` | while the supervisor runs, a recorded worker that is alive is the active execution's |
| `RunsOnce` | no execution has two workers recorded |
| `AnswerDeliveredOnce` | an answer reaches its issue at most once, in any order of question, stop, answer, resolution and quarantine (that it arrives is `AnswerArrives`) |
| `EffectNotDropped` | an effect leaves the snapshot after its call, or because the issue moved on |
| `RunEnds`, `AnswerArrives`, `EffectsSettle` | liveness |

## 5. The other modules

Each takes one stretch of the system, with the snapshot reduced to what it reads and
writes there. Variables named after code are listed in each module; the actions are
named after the functions and steps they model.

### RepositoryRuntime, OperatorControl, Assignment, Maintenance

What launchd has loaded and the plist it would load (`agent`), the supervisor process
(`super`, with its boot phases and where its one job stands), the part of the snapshot
a drain reads (`snap`), the fences (`fence`), the command that holds the host's
delivery lock (`cli`), and two transaction files: the operator's (`ctl`) and the
assignment's (`asg`). `Maintenance` composes them with `Interrupt` (a command dies
between two writes) and `Reboot`.

- A command's steps are its durable writes and its calls of launchd; a step that an
  error would end is also the place where the command may die.
- `seen` is a history: the scheduler has looked at the fence now in place. The command
  checks what the snapshot says, which may be from before that (7, `DrainIsDurable`);
  `DrainedMeansIdle` says what holds from the first look on.
- Why a conflict launch is refused at the start is reduced to "its attempt has been
  counted" (`Refused`, `Attempted`), which is when `ReconcileStoppedAssignment` and
  the startup fail.
- `start` takes no delivery lock, so its three steps come between those of any command.
  `agent.raced` is a history: a start loaded the agent while a switch was under way.
  `AssignmentInstalled` exempts what is loaded then, and `AssignedRuns` (7) does not.
- `cut` is a history: the transaction that was cut between the record of its deferral
  and the removal of its fence, the one fence that `FencesExplained` lets go without an
  owner (7, `DeferredHoldsNoFence`).
- Left out: runtimes older than the protocol, the host-wide `maintenance.json`,
  registration, the staging of slots.

Also seen while modelling: after a crash that follows the start of the new slot, a
repeated `apply` does not recognise the runtime it started
(`application/delivery/assignment_controller.go:928`) and the assignment stays open;
an interrupted forced stop that is taken up gracefully stops without a drain.

### WebhookBroker, RateLimit, WebhookDelivery

`WebhookBroker` has the durable `inbox`, `receipts`, `mailbox` and sweep `cache`, the
memory of its goroutines (`work`, `route`, `sweep`) and GitHub's side (`events`,
`ready`, `version`). `RateLimit` counts ticks to the reset on file. `WebhookDelivery`
adds the scheduler: one cycle takes a batch of the mailbox, reads GitHub about each
intent in turn, dispatches a candidate and removes what it acknowledged; a failed read
ends the cycle, and depending on its class the supervisor waits, retries or stops.

- Histories: `unread` (changes nobody has read yet), `promised` (the latest reset any
  supervisor was told), `overtaken` (Issues whose sweep intent fell together with one
  just acted on: the name of the file is the same, and the acknowledgement removes
  the new one). The last is the exemption in `IntentServed` and, as a property of its
  own, `SweepKeepsDiff` (7).
- Fairness: weak, of routing, of the sweep, of a cycle that has begun and of the next
  (a ticker starts one every sixty seconds), of the start of a dispatched job, the
  wake-up after a retry, launchd's restart, the clock, the periodic managed
  reconciliation, and of an Issue that ends. Deliveries never have to come.
- Left out: HTTP validation, quarantine of deliveries for other registrations, the
  migration of an old inbox, compaction of receipts, pagination, deliveries about
  checks and pull requests, completed Issues.

Also seen: a newer "issues" delivery supersedes an older comment delivery of the same
Issue (`scheduler.go:654`), so the comment waits for the managed reconciliation; a
wake-up overwrites the saved head with the delivery's, which may be older
(`scheduler.go:724`).

### ConflictRecovery

The base branch, the pull request's branch, the worktree (`tree`: its commit, the
merge under way, whether files are unmerged, whose content it has), the Issue
(`item`, with the recovery record `rec`), the job, the run's own worker (`worker`) and
the workers left behind (`left`). A commit is numbered and remembers its base, its merge
and who made it with which checks.
`Clashes` are the generations of the base that conflict; whether the pull request is
mergeable follows from the generations of base and head.

- Actions cover `Prepare` before its record, the attempt, the worker, result, check,
  commit, push and the wait for the checks; the ordinary worker to which a question or
  retry hands the Issue; the operator's answer and retry of a stage; other people's
  pushes; update-branch; crash and restart with what the startup does to the launch.
- A worker whose supervisor dies before the process is recorded is in `left`: no restart
  stops it, the next worker starts beside it, and from then on it may edit the worktree at
  any time (`LeftEdits`), also between the check and the staging (`StageMerge`). `left` is
  one Boolean for any number of them, since nothing ends them: one that has ended edits no
  more. `LeftEarlier` says whether earlier runs may have left one; the run takes FALSE,
  with which a crash still leaves one, and passes with both values as well (2.3 million
  states, 4.5 minutes).
- `hist` is a history: whether the tests were reported green for what is in the worktree,
  and whether a worker left behind changed it after that.
- `MaxAttemptsPerBase` and `MaxBaseUpdates` are the program's budgets. Two conflicting
  generations with a clean one after each let a budget be used up, start again on a
  new base, and be overtaken by a base that no longer conflicts.
- Fairness: weak, of the supervisor's steps as one: a job under way goes on, a due
  Issue is taken up, a dead supervisor is restarted.
- Left out: the rules for paths (in scope or not is one choice), approving paths and
  adopting a worktree, an operator's resolution while `Prepare` runs.

Also seen: the program's own update-branch advances the remote branch, so a recovery
begun before is blocked at its push (`application/conflict/conflict.go:257`); a crash
between the merge in `Prepare` and its record leaves a merge that only cancel gets rid
of; a block for the base budget leaves the merge in the worktree.

### Migration

Snapshot and log of each repository (version, revision, entries; `Work` stands for
one committed update), `journal`, the `runtime` of each repository (old or new binary),
and `op`, the migration or rollback under way with `todo`, the set of files it still
has to write. Files are written in the code's order (`IsNext`: repository by
repository, and within one the log and the snapshot in the order that the operation
has), two per repository; `Stop` cuts it anywhere. `MigrationSpec` and its parts have
names of their own so that `UpkeepProofs` can extend `IncidentLoop` beside it.

- Three repositories, so that one is converted, one half converted and one untouched.
- `OldStatuses` says under which statuses of the journal somebody starts the old binary;
  the run has it run before a migration and again after a rollback, which are the uses
  docs/migration.md has. With all four statuses `MigrationKeepsWork` holds as well (two
  repositories, 504 thousand states).
- `undone` is a history: the repositories where a rollback was begun over a commit that
  the old binary had made after the backup was taken (`OldProgress`).
- Left out: what the conversion changes inside a file, prepared transactions of
  version 6, the check of PIDs, and the conversion from version 4, which no command
  calls. A commit of the store is one step (3).

Also seen: two supervisors of the new binary starting at once block each other
(docs/migration.md:18 has each wait); `start` from the command line converts without
looking whether other agents are loaded.

### IncidentEpisode, IncidentLoop

The store's events and the collector's `cursor`, the incident store's `signals`,
`saved` episodes, GitHub's `issues`, and up to two callers (the supervisor's timer and
the command line), one of which holds `process.lock`; `data.lock` guards each write.
`IncidentEpisode` has the operators: merging signals, classification, what is
eligible. A signal is its time, fingerprint, kind and run. `run` is what the holder of
`process.lock` works on: the episodes, the set of fingerprints still to look at, of
which the least is next, and those whose circuit opened.

- `MaxItems` scales down the list of signal IDs an episode keeps, so that it is cut
  (`CountedOnce` is about that); `Width` is the number of incidents, `Attention` that of
  the operator_attention episodes, into which the circuits of the first incidents open.
- `Budgets` is a set of budgets, one of which `Init` takes: how many signals, merges,
  command-line cycles, failures, mishaps and resets may happen. `MCIncidentLoop` has three
  of them, which one run checks together.
- `Index` is GitHub's search index taking up an Issue, at any time after its creation or
  never; `Matches` is the search, which sees what the index has. `lost` marks an Issue
  whose run ended before the index had it and before `state.json` named it (`Abandon`);
  it is a history. Two Issues found by one search are a failure (`Ambiguous`).
- Fairness: weak, of what a caller has begun and of the loop's timer; strong, of the
  end of a backoff, which saving the episode interrupts again and again. The index may
  never catch up.
- Left out: metrics, the decisions log, dry runs, the canary, torn last records.

Also seen: attempts are forgotten when the process dies before the episode is saved;
a merged fix collected before the link to its Issue is saved never resolves it.

### Publication

GitHub's repository (`origin`) and pull request (`pull`), the clone's references
(`local`), the worktree (`tree`), the Issue, the supervisor's job and one command
(`cli`: cleanup, purge). Content is a set of units of work, one per run, and foreign
ones; a commit is the base it contains and its units. `done` is a history: the units of
completed results.

- Every git and GitHub call that changes something is a step, may fail (`Fault`), and
  may have taken effect when it fails; formatting is a step of its own, and may change
  files.
- `MaxAttempts` is the configured budget, continuations included; crashes and
  resolutions may add runs (`MaxRuns`).
- Fairness: weak, of the run, of the publication under way, and of the start of the
  supervisor.
- Left out: retention ages, path rules, the audit, a merge left by a crash, the
  directory that a killed `git worktree add` leaves, the review of pull requests.

Also seen: the publish checkpoint of a supervisor that was stopped is forgotten and
the worker runs again, which is why `WorkNotRedone` speaks of an unstopped supervisor
or an Issue without pull request; an error of `Ensure` in status claiming can not be
recorded as a failure, because that transition is not allowed, and the claim is
repeated.

### InputAnswer

`requests` as in the snapshot, the Issue's comments (commands, by author, request,
text and version), the program's own comments as counts of copies (`questions`) and
lists of receipts (`acks`), the pass of `reconcileInputIssue` with what it listed, a
remote `submit`, and `late`: calls that GitHub carries out after their caller gave up.

- An edit raises a comment's version; a deletion takes the comment away.
- Fairness: weak, of starting a pass while the Issue is open (managed reconciliation),
  of its steps, and of late calls taking effect.
- Safety was also checked with two questions and one comment (871 thousand states).
- Left out: the syntax of commands, late PATCH calls, answers to quarantined Issues.

Also seen: GitHub's times are whole seconds, so an answer given in the second of the
question may count as given before it, and the remote command then refuses to repeat
it.

## 6. The runs

Times with 2 workers; the number of distinct states is TLC's.

| run | instance | distinct states | shows |
|---|---|---|---|
| `store_damage` | 2 payloads (symmetric), 2 updates, 2 cuts, 1 damage | 3.1 million, 1 min | exact recovery, or a blocked store with its evidence |
| `store_crash` | 2 payloads, 3 updates, 3 cuts | 12 thousand | the refinement of `DurableLog`; a prepared transaction completes |
| `issue_deep` | 1 issue, 2 attempts, 1 continuation, 1 crash, 1 question, 1 resolution, 1 fault of eight kinds | 1.5 million, 1 min 20 s | the safety of one issue's life |
| `issue_live` | 1 issue, every bound 1, failing GitHub calls | 140 thousand, 1 min | its liveness |
| `maintenance` | 2 slots, 2 supervisor starts, 2 commands or starts, 1 crash, 1 interruption, 2 faults | 1.8 million, 1 min | drains are real, fences have owners, the assigned binary is installed |
| `webhook` | 2 issues, 1 change, a work channel of one, 2 faults, resets of 1 tick | 361 thousand, 1 min 10 s | nothing accepted is lost, doubled or left unread |
| `conflict` | 4 base generations, 2 of them conflicting; 2 attempts per base, 2 base updates; 1 push, crash, fault, resolution each | 567 thousand, 45 s | what is pushed was verified; recoveries settle |
| `migration` | 3 repositories, 3 updates, 2 interruptions, 2 backups, the old binary also after a rollback | 889 thousand, 20 s | no work lost, nothing half converted is run |
| `incident` | 2 callers; 2 incidents with 3 signals, a merge and 1 mishap; or 1 incident with 2 signals, a merge, 2 failures, 1 mishap, 1 reset and its attention episode; or the same beside the command line, without merge and reset | 321 thousand, 1 min 40 s | when a second Issue may come, nothing counted twice, current evidence, every incident considered |
| `publication` | 2 attempts, 1 base advance, 1 foreign push, 2 faults, 1 stop, 1 resolution, 1 removal | 924 thousand, 1 min 20 s | work is kept and published whole |
| `input` | 1 question, 2 comments, 1 fault, 1 edit, 1 submission | 722 thousand, 1 min 10 s | answers are fixed, receipts true, conversations settle |
| `store_isolation` | as `store_crash`, with a fault | - | must be violated, see 7 |

Why these bounds. Every handler of the program touches one issue, one repository or
one file at a time, and keeps what it does in durable steps. One interruption splits
any handler at any point; what it leaves behind is then met by the recovery, by the
operator's command or by another process, and the second of each bound is what
interrupts or races those. For the store, one operation is under way at a time and
recovery compares the prepared transaction with the last event and the snapshot, so a
third update adds nothing; two damages at once can destroy all copies of an update,
which no protocol over these files could survive. Two issues contend for one slot and
for one mailbox file; two slots are a switch and its way back. A webhook instance of
5.2 million states (two changes) passes as well and is too slow to be a run. For the
incidents, liveness needs a second incident for what becomes of one to reach the other:
the first one's merge can be collected on both sides of its link while the second waits
for its analysis (`Beside`). The circuits need two failures of one call, and a reset and
another round after them (`Retried`); the third budget lets both callers work on one
incident whose signals come from both sources, with failures (`Contended`). Everything in
one budget has more than ten million states.

`IssueLifecycle_pair.cfg` is checked beside the runs: two issues with orphaned
processes, the type invariant and four of the properties of `issue_deep`, 2.4 million
states in about two minutes with four workers.

Deadlock checking is off where the system rightly stops: every issue completed or
waiting for the operator, every bounded interruption used. It is on for the store,
where a load is always possible, for the migration and for the incidents.

## 7. Where the code and its documents part

One run must be found violated, and is the finding of `PROJECT.json`: `store_isolation`.
The configurations below state further sentences of the documents; TLC violates each with
the code as modelled, and they are not among the runs. A row that names a run's own
configuration takes it with the row's property in place of the run's.

In the first table the case is exempt in a property of a run, by the history variable or
predicate that the last column names and the property's own formula shows; the row's
property has no such exemption.

| configuration | property | what happens | exempt in |
|---|---|---|---|
| `StateStore_isolation` | `IsolationSurvivesCrash` | isolation moves the files away before it writes the blocked snapshot (`adapter/state/recovery.go:336`); a crash in between leaves an empty directory and the next operation starts afresh | `EvidenceKept`: `cut` |
| `Maintenance_deferred` | `DeferredHoldsNoFence` | a switch that dies between the record of its deferral and the removal of its fence (`application/delivery/assignment_controller.go:735`) leaves a fence that every later switch refuses to work under (574) and nobody removes; docs/per-repository-delivery.md:11 | `FencesExplained`: `cut` |
| `Maintenance_start` | `AssignedRuns` | a start between a switch's stop and its new property list (`application/delivery/assignment_controller.go:740`) loads the old slot; the switch's own start is then a no-op, its health check looks at the property list only, and the new assignment is committed; docs/adr/0004-per-repository-stable-assignment.md:23 | `AssignmentInstalled`: `agent.raced` |
| `ConflictRecovery_left` | `CommitsAreVerified` | a conflict worker started before a crash and not yet recorded is not stopped (`application/supervisor/processes.go:98`), and edits after the next worker's green report and before `git add --all` (`application/conflict/conflict.go:221`); docs/specification.md:655 | `PublishedIsVerified`: `touched` |
| `Migration_again` | `NoWorkDropped` | after a rollback the old runtime commits one update; its revision is then the converted one's, which is all a repeated rollback compares (`application/migration/migration.go:935`), and that update is lost; docs/migration.md:49 | `MigrationKeepsWork`: `undone` |
| `IncidentLoop_twice` | `NeverTwoIssues` | a run ends after it created an Issue, and the next one searches an index (`application/incidentloop/github_adapter.go:34`) that does not have it yet: a second Issue; docs/incident-automation.md:11 and 120 | `OneIssue`: `lost` |
| `IncidentLoop_replay` | `AlwaysConsidered` | a merge event whose signal is recorded and whose cursor is not is read again after the link to its incident is saved; it now has another content (`application/incidentloop/store.go:101`), the batch is refused in every cycle from then on, and no incident is analysed any more; docs/incident-automation.md:9 | `Considered`: `Conflicts` |

The second table has the other cases. Where a property leaves one of them out, its comment
says so.

| configuration | property | what happens |
|---|---|---|
| `StateStore_damage` | `RestoreReplacesMarker` | a restore ignores a prepared transaction beside the blocked marker (`adapter/state/quarantine_recovery.go:584`), which then replays over the restored state; docs/specification.md:422 has the marker replaced |
| `IssueLifecycle_orphan` | `OneLiveWorker` | a worker started (`adapter/worker/worker.go:229`) and not yet recorded survives a crash unknown to everyone, beside the next one; docs/specification.md:567 allows one |
| `IssueLifecycle_admission` | `AdmissionWaits` | a resolution between the scheduler's look (`application/supervisor/scheduler.go:877`) and the claim lets a second issue start; docs/architecture.md:149 has it wait |
| `IssueLifecycle_claim` | `ClaimEnds` | a claimed issue whose startup inspection fails (`application/supervisor/reconcile.go:93`) is never taken up again and blocks the queue; docs/requirements.md:242 (NFR-004) |
| `IssueLifecycle_resolution` | `ResolutionSettles` | the supervisor's retry of a resolution's synchronisation demands authority (`application/supervisor/github_sync_lifecycle.go:183`) that the resolution's own commit released; docs/architecture.md:126 |
| `IssueLifecycle_undone` | `ResumptionNotUndone` | a job with a copy from before the operator's resolution (`application/supervisor/supervisor.go:415`) blocks the resumed issue again; docs/requirements.md:227 (FR-084) |
| `IssueLifecycle_resume` | `ResumeKeepsIssue` | blocked while waiting, answered, resumed (`adapter/state/issue_transition.go:402`): the aggregate is invalid and the issue is quarantined; docs/specification.md:366 and 399 |
| `IssueLifecycle_merged` | `NeverQuarantined` | merged while waiting for an answer: completion (`application/supervisor/reconcile.go:309`) drops the checkpoint that the unanswered request needs; docs/specification.md:936 |
| `Maintenance_switch` | `DrainIsDurable` | a drain is reported from a snapshot that says maintenance since an earlier fence, while the new supervisor has not looked at this one; docs/specification.md:305 |
| `Maintenance_switch` | `RestartResumable` | a restart cut between the removal of its fence and the record of success (`application/app/operator_control.go:548`) waits, when it is taken up, for a maintenance state that no fence brings about any more; docs/specification.md:307 |
| `Maintenance_switch` | `RolledBackRuns` | a rollback is reported as done while the agent is still being unloaded; docs/per-repository-delivery.md:12 |
| `WebhookDelivery_serve` | `TransientNeverBlocks` | a failed read about a comment delivery is not classified and stops the supervisor for good (`application/supervisor/scheduler.go:690`); docs/specification.md:916 |
| `WebhookDelivery_diff` | `SweepKeepsDiff` | the sweep's intent has the name of one just acted on, and is removed with it; `adapter/webhook/broker.go:345` says the difference is never lost |
| `ConflictRecovery_merge` | `RestartResumes` | a crash after an attempt was counted and before the worker was recorded: the supervisor refuses to start (`adapter/state/execution.go:320`); docs/specification.md:656 |
| `ConflictRecovery_merge` | `MergesAreChecked` | a recovery handed over to the ordinary worker has its merge committed and pushed by the ordinary publisher (`adapter/publish/publish.go:290`), without the recovery's checks; docs/specification.md:655 |
| `ConflictRecovery_merge` | `OnRecordedMerge` | after such a merge `Prepare` starts from another merge than the record names (`application/conflict/conflict.go:76`) |
| `Migration_rollback` | `RollbackRestartable` | a rollback is cut, a runtime goes on with what is restored, and the rollback can neither be ended nor the migration repeated (`application/migration/migration.go:931`); docs/specification.md:839 |
| `IncidentLoop_reopen` | `RecurrenceReopens` | an incident that recurs after its fix is added to the resolved episode, and never shown as reopened (`application/incidentloop/builder.go:225`) |
| `Publication_publish` | `OnlyOwnChanges` | the base is noted before the fetch that the worktree starts from (`application/supervisor/supervisor.go:333`), so somebody else's changes count as the run's; docs/specification.md 11.3.1 item 2 |
| `Publication_push` | `OwnPushAccepted` | a push that succeeded without a record blocks the retry as somebody else's (`application/supervisor/worker_execution.go:331`); docs/specification.md 11.3.1 item 7 |
| `Publication_publish` | `CleanupKeepsActive` | cleanup decides by a snapshot read before the supervisor stopped (`application/app/worktrees.go:28`) and removes the worktree of an Issue in work; docs/worktree-lifecycle.md:7 |
| `InputAnswer_reply` | `RecordedIsConfirmed` | after an edit the receipt says conflict in place of accepted, and the remote check no longer confirms an answer on record; the comment of `CheckInputAnswer` says it still can |

`OneRecordedWorker` is what the restart does guarantee; `OneLiveWorker` is what the
documents say.

## 8. The proofs

TLC checks the instances of section 6; the theorems below hold for every value of the
constants, and so for any number of issues, updates, crashes, failures and commands
the cfgs bound. Eight modules hold them. `UpkeepProofs` is about two components that share
no variable, `IncidentLoop` and `Migration`; the others are about one each.

| module | theorem | property | instance checked |
|---|---|---|---|
| `StateStoreProofs` | `ExactRecovery` | `RecoveryIsExact` | `store_damage` |
| | `ExactStatus` | `StatusReadsCommitted` | `store_damage` |
| | `WholeLines` | `AppendsToWholeLines` | `store_damage` |
| | `StoreImplementsLog` | `ImplementsDurableLog` | `store_crash` |
| | `TypeCorrect` | `TypeOK` | `store_damage` |
| | `EvidenceIsKept` | `EvidenceKept` | `store_damage` |
| | `CrashInvariant` | `CrashInv`, the invariant behind the first four | - |
| `IssueLifecycleProofs` | `OneWorkerOnRecord` | `OneRecordedWorker` | `issue_deep` |
| | `RunKeepsAuthority` | `RunHoldsAuthority` | `issue_deep` |
| | `AnswersGoOnce` | `AnswerDeliveredOnce` | `issue_deep` |
| | `GenerationsRunOnce` | `RunsOnce` | `issue_deep` |
| | `EffectsAreNotDropped` | `EffectNotDropped` | `issue_deep` |
| | `TypesHold` | `TypeOK` | `IssueLifecycle_pair.cfg` |
| `WebhookDeliveryProofs` | `NothingAcceptedIsLost` | `NoLostIntent` | `webhook` |
| | `DuplicatesAreSuppressed` | `DuplicateSuppressed` | `webhook` |
| | `CooldownIsHonoured` | `CooldownHonoured` | `webhook` |
| `ConflictRecoveryProofs` | `PublishedMergesAreVerified` | `PublishedIsVerified` | `conflict` |
| | `WorkersEditTheRecordedMerge` | `WorksOnRecordedMerge` | `conflict` |
| `PublicationProofs` | `CompletedWorkIsKept` | `WorkKept` | `publication` |
| | `PublishedWorkIsWhole` | `PublishedWorkWhole` | `publication` |
| | `CheckpointsArePublished` | `WorkNotRedone` | `publication` |
| `InputAnswerProofs` | `ReceiptsAreTrue` | `AcceptedIsOnRecord` | `input` |
| | `AnswersAreFinal` | `AnswerFixed` | `input` |
| | `TypeCorrect` | `TypeOK` | - |
| `MaintenanceProofs` | `DrainsAreReal` | `DrainedMeansIdle` | `maintenance` |
| | `FencesHaveOwners` | `FencesExplained` | `maintenance` |
| | `AssignedIsInstalled` | `AssignmentInstalled` | `maintenance` |
| | `TypeCorrect` | `TypeOK` | - |
| `UpkeepProofs` | `OneIncidentOneIssue` | `OneIssue` | `incident` |
| | `NoSignalTwice` | `CountedOnce` | `incident` |
| | `CurrentEvidence` | `FiledOnCurrentEvidence` | `incident` |
| | `WorkIsKept` | `MigrationKeepsWork` | `migration` |
| | `WholePairs` | `RuntimeSeesWhole` | `migration` |
| | `Resumable` | `PreparedResumable` | `migration` |
| | `StoresTyped` | `MigrationTypeOK` | - |

What is assumed of the constants: the budgets and bounds are natural numbers, those
the configuration requires to be positive are; `None` and `Unreadable`, which stand
for "absent" and "spoilt", are none of the records they stand in for; the choices a
cfg restricts (`Faults`, `TextsHere`, `Clashes`) are among those the module knows. The
assumptions are named where the constants are declared, and TLC evaluates those of
each module in its run. Only the webhook broker's issues are assumed finitely many.

None of the properties is inductive. The invariants behind them (`CrashInv`, `TypeInv`
and `EvidenceInv` in `StateStoreProofs`, `SafeInv` in `MaintenanceProofs`,
`OpInv`, `BackupInv`, `WholeInv`, `OldInv` and `WorkInv` for `Migration`, `Links` for
`OneIssue`, `IInv` in the others) were checked with TLC on the
instances of section 6 before they were proved.

### The store

On a disk that keeps what was written (`CrashSpec`), each property speaks of one moment
of an operation, and what makes it true is the shape in which the previous operation
was cut. `CrashInv` says what that shape can be. `FilesOK` types the files; `Quiet`,
`Prepared`, `Unlogged`, `Logged` and `Written` are the forms the three files may have
(nothing under way; transaction written; event missing or torn; event written;
snapshot written), each with its relation to `committed`; `PhaseOK` says which of them
an operation at a given `pc` may meet. That a cut from any phase lands in a form that
`recover` accepts is the heart of the matter (`BoundaryKeepsInv`), and with it recovery
never isolates anything. The step lemmas go action by action, resting on lemmas about
logs (`AppendKeepsContiguous`, `AppendKeepsReadable`, `CheckpointLog`). The refinement
adds that the stored value is `committed` outside the moment of a commit
(`StoredIsCommitted`).

`TypeCorrect` is about `Spec`, with damage, upgrades and the manual restore. Files may
hold anything a damage leaves, so an operation is safe only because of what it made
sure of before: `KnownOK`, phase by phase (what was decoded is readable, what is written
was prepared, a checkpoint's revision is not zero), and `BackupsOK` (no snapshot on
disk, in a prepared transaction, in the restore's marker or in a backup names a backup
directory that does not exist).

`EvidenceIsKept` is about `Spec` as well, and about the same damage. An isolation moves
the files one by one, so `Moved` says for each of its phases how much of the evidence is
in the backup already and how much still lies where it was found. Once it is complete,
`Named` says that a blocked snapshot, on disk or in a prepared transaction, names the
last backup, which no later step touches. `Restores` closes the remaining door: a backup
whose snapshot names an older backup must never be restored. It never is, because a
restore takes a snapshot that validation had rejected and a blocked one passes it
(`Open`). As `EvidenceKept` does, the invariant exempts what a cut between the copies
leaves behind (section 7).

### The issues

`Stored(d)` says of a snapshot that it passes `Validate` and has nothing left to
finalize. The lemmas about the snapshot's operators lead to two facts about `Update`:

- An update for issue i whose own change is confined to issue i (`Confined`) yields a
  stored snapshot again; it leaves every other issue, effect, quarantine record and an
  execution of another issue alone; and issue i ends as the change left it, isolated, or
  as it was. `Finalize` and `Isolate`, which may touch the active execution, are thus
  never felt by another issue.
- An update to a snapshot that is valid and at rest is stored exactly. So the record of
  a worker's PID, an answer and the end of an effect are never isolated or refused.

`IssueLifecycleProofs` goes on to show of every handler that what it asks for is confined to
its issue and moves it in one of a few ways (`Moves`): no earlier generation, no
second copy of an answer, a launch only with a new generation or out of an unstarted
status, an effect replaced only with the status or after its call. From these the
invariant follows, whichever handler it was:

- `JobsOk`: a job's place fits what it has read, and from the validation to the outcome
  its execution is the active one. It holds across the time the gate is open because no
  update for another issue takes the execution, and because the operator resolves only
  stopped issues, whose execution was released before.
- `JobsUp`: only a supervisor that is up has jobs.
- `WorkersKnown`: a worker that is alive and was recorded is the active execution's, is
  still on record, and is watched by its job or, after a crash, left for the start to
  stop before it reconciles anything. `OneRecordedWorker` says only the first part, for
  a supervisor that is up; without the others it does not survive a restart.
- `Spent`: the generation of a recorded worker is behind its issue's, or the same while
  the issue is past its launch; and an issue that had a worker does not start anew as
  an unknown one. Isolation keeps that because a quarantined issue is not taken up.

An effect needs `JobOk` at `synced` (the copy a job carries is of an effect whose call
succeeded); the removal compares the whole effect and so removes no later one.

### Drains and assignments

Two kinds of command, each with its own transaction file and fence, act on one agent and
one supervisor, and any of them may be cut between two writes. `SafeInv` holds whatever
runs beside what:

- `FenceInv`: a fence is of the generation of its kind's transaction; an operator's
  transaction with a fence is active, and so is that of a running command; a deferred
  assignment has a fence only while its switch is about to remove it, or was cut there
  (`cut`); and a command has removed its fence before it records the end.
- `MatchInv`: an open assignment transaction is that of the next generation over the
  assigned slot, or the assignment is its committed one. That is what `apply` and
  `rollback` demand of a transaction before they go on with it, so together with
  `FenceInv` the fence of a command that was cut short has one that takes it up.
- `SeenInv`: once a scheduler has looked at the fence, no cycle is under way, and if the
  snapshot says maintenance no job is. `ObserveFence` establishes it between two
  cycles, and no `BeginCycle` follows while a fence is in place.
- `LookedInv`: a command that waits has its fence in place; one that saw the drain
  complete keeps the fence until the runtime is down. Together with `SeenInv`, what the
  command saw once therefore still holds when it acts.
- `InstallInv`: the property list names the assigned slot or that of the open
  transaction, whatever is loaded besides is being unloaded, and for each place of a
  switch and of its rollback it says which slot the switch heads for and what can still be
  loaded. A start beside a switch breaks no clause about the property list, since it loads
  what the list names and does not write it; what it loads may be neither (`agent.raced`).
  A start at any other time finds the assigned slot in the list, or, over a switch that
  was cut short, that of the open transaction, which goes on or is rolled back.

### Deliveries, conflicts, publication, answers

`NoLostIntent` relates four pieces of state written by three processes. In
`IntentKept` a change counts as routed from the moment its intent is in the mailbox,
with or without a receipt, and from then on its issue has an intent that the cycle
under way will not remove (`Covered`). `CooldownHonoured` follows from the file
holding the latest reset that anybody was told (`PromiseKept`), `DuplicateSuppressed`
from the types alone, which say what an intent's name can be.

For `ConflictRecovery` the invariant has to follow the job, the worker process and the
worktree through all statuses: where the job stands (`JobPlaced`), where the run's own
worker may be alive (`WorkerPlaced`: where a job waits for it, or on record to be
stopped), what the worktree can look like (`TreeShape`), that a recovery keeps its record
and the recorded base is in the worktree (`RecordKept`), that the merge under way is the
one on record (`OnRecord`), that a conflict worker has conflicts to resolve
(`AttemptOpen`), what the report of the tests is worth by the time of the commit
(`ChecksHold`), and that the content checked is the content committed unless a worker left
behind has edited it (`ContentHolds`). Nothing in the invariant limits those workers:
`LeftEdits` may come before and after any step; what they change between the staging and
the commit is not part of the commit.

For `Publication`: `WorkKept` needs only that the branch exists (`BranchKnown`); the
other two need that from its commit on the worktree of a publication has no changes
(`WorkPlaced`) and that a publish checkpoint is failed, resumed or being served
(`CheckpointServed`), the latter as long as the supervisor was never stopped, which is
what the property says.

For `InputAnswer`, a receipt reaches GitHub through the pass, whose copy of the request
may be old, or from a call given up on long ago. `ReceiptsTrue` speaks of each place a
receipt can wait in, and holds in all of them because an answer on record never changes
(`AnswersAreFinal`).

### Incidents

`OneIssue` is about what the search can not see. An Issue that no search finds yet is known
by a link: to the episode that a run holds or, when there is no run at work, to the one on
disk (`Named`); or it has just been created and is about to become such a link (`Fresh`).
`Links` says so of every Issue that is neither indexed nor lost. A creation therefore
follows a search that found nothing over an episode without a link, and every earlier Issue
of the fingerprint is lost. Only one caller holds `process.lock` (`Alone`), so nobody else
creates in between; a run that ends without saving gives its links up, and that is when an
Issue can be lost (`Abandon`). `Filings` types GitHub's side, and `RunOk` the holder's copy
of the episodes, with the Issue it has just created as the newest.

An episode is `Sound` if what it counts are distinct timestamps, born for its
fingerprint, up to its `last` (`Counted`); the IDs that it kept are among those; its Issue
is one of its fingerprint; and a recommendation that has led to no Issue is about its
present count. `MergeSound` is the step that could go wrong. A signal is taken as fresh
if its ID is unknown and, once IDs were cut off, if it is later than `last`: either the
IDs are all that was counted and the fresh signals lie beside them, or the fresh ones
lie behind everything counted (`Counting`). That needs timestamps of their own for all
recorded signals (`Recorded`), for the events yet to be collected (`Stored`), and for the
announcements of circuits that are saved in the episodes and not yet recorded
(`AnnouncedOk`); a link from an event to an Issue must lead to the fingerprint that the
event was born for, or counting would take place under another one (`LinkedIs`). The
announcements take timestamps by their rank (`AnnouncedIs`). The proof uses no bound on
signals, failures, rotations, crashes or resets.

### Migrations

- `OpInv`: a migration or a rollback has all stores for itself, and its journal was
  prepared before the first file.
- `BackupInv`: the backup of each repository is a pair that belongs together; where it
  is of version 6 already the files are too, so a rollback never takes them further back.
- `WholeInv`: a snapshot of version 6 has a log that goes with it. Here the order of the
  files matters: a conversion writes a repository's log before its snapshot, a rollback
  the other way round, and a file that is not in `todo` any more is the one the
  operation has written.
- `OldInv`: the old binary runs only under the journal's statuses in which somebody
  starts it (`OldStatuses`); so, if it is not started during a prepared migration, every
  file is then the backup's or the converted one. The new binary's store refuses each
  update while the journal is prepared.
- `WorkInv`: with a journal, a repository that is not in `undone` has its files in that
  form with all the work in them (`Kept`), or a runtime went on and its revision is above
  the converted one (`Ahead`), which is what a rollback looks for before it restores
  anything. `OldAhead` is the same for the old binary, after a rollback or a migration cut
  short: its files have all the work in them and have gone on from the backup. A rollback
  passes over that only where the revision happens to be the converted one, and such a
  repository is in `undone` from then on.

None of the three theorems restricts when the old binary is started; the exemption of
`MigrationKeepsWork` is the one case that `Migration_again.cfg` shows, and `PreparedResumable`
itself says of which `OldStatuses` it speaks.

### What is only model-checked

- Liveness (`PreparedCompletes`, `RunEnds`, `AnswerArrives`, `EffectsSettle`,
  `IntentServed`, `RecoverySettles`, `Considered`, `RunSettles`, `AnswerAcknowledged`,
  `ConversationSettles`): fairness and ENABLED are out of the provers' reach.
- The type invariants of the incidents, of the deliveries, of conflict recovery and of
  publication, beyond the types that the proofs of their properties need.
- The findings of section 7: a run that TLC violates has no theorem.
- What `IssueLifecycle` and the others abstract stays abstracted (sections 4 and 5).

## 9. What is not modelled

Besides the abstractions named with each module:

- The host-wide delivery controller (`application/delivery/controller.go`): since
  configuration version 2 the loader rejects version 1, version 2 forces
  `auto_apply` to never, and `delivery apply` refuses version 2; only the retry of a
  rollback left by an older release can still reach it.
- The older migration, 4 to 5, that no command calls (`application/migration/v5.go`),
  and the content of the conversion to 6.
- The semantic-mismatch and lifecycle-mismatch restores, and the adoptions of worktree,
  head, input and conflict paths from the command line: each is one command that
  stages files or changes one issue under the store's lock, after checks of its own.
- The monitor (`src/monitor`), a program of its own that replays what it downloads.
- Parsing, formatting, redaction, configuration and the command line's output, which
  hold no state that processes share. The text of labels and comments, the git
  commands and the workers' output are represented by their outcomes.
- `doctor`, `observe` and the status API, which only read; release tooling, fixtures
  and the contract stub, which run offline.

## 10. The plan

Done: the store; the issues; drain, control and assignment; webhooks, mailbox and
cooldown; conflict recovery; publication and worktrees; answers through comments;
migration; incidents. Proved: every safety property that a run checks.

Next:

1. The semantic restores as a second kind of marker in `StateStore`; the adoptions as
   actions of `IssueLifecycle`.
2. The monitor's label state machine as operators checked against a reference.
