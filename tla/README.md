# TLA+ verification of noctifab

noctifab turns a specification into code: it plans user stories into tasks, runs
LLM agents on the tasks in git worktrees, validates and reviews what they write,
merges it into an integration branch and releases it, for hours and without
supervision. This directory models the parts of it that are concurrent, that
fail in parts or that decide what counts as done, model-checks them with TLC on
small instances and proves central results with TLAPS. Source paths are relative
to `src/`; the lines of every modelled definition are in `PROJECT.json` under
`map`, what can go wrong where under `hazards`.

## 1. Inventory

Paths without a directory are in `pkg/services/`, `cli/` is `cmd/noctifab/cli/`,
`llm/` and `storage/` are under `pkg/infrastructure/`.

| Component | State it keeps | Operations | Hard behaviour | Module |
|---|---|---|---|---|
| Task scheduler and file locks (`scheduler.go`) | the lock registry | `GetReadyTasks`, `TryAcquireLocks`, `ReleaseLocks` | decides on a snapshot; a task may re-acquire its own locks | `Scheduler` |
| Dispatch loop (`orchestrator_dispatch*.go`) | in-flight set, loaded state | `RunOnce`, `dispatchContinuously`, rescue, self-healing, ceilings | slots refilled while workers finish | `TaskDispatch` |
| Stall watchdog (`fallback_agent.go`, `unblocker_commands.go`) | stall counts | reset, fail, bypass, clear agent | commands computed from an old state | `TaskDispatch` |
| Task execution (`orchestrator_execute*.go`, `task_escalator.go`, `orchestrator_fallback.go`, `orchestrator_repair.go`) | worker branch, worktree, retries | turns, commits, validation, repair, escalation, merge | every step may fail; what is merged is not what was judged | `TaskDispatch`, `TaskAttempt` |
| Turn loop (`orchestrator_generator.go`) and breakers | turn budget, strikes, caches | turns of tool calls, completion | belief in an agent's own word; termination | `TurnLoop`, `Breakers` |
| Agent tools (`production_tools.go`, `batch_tools.go`, `tool_rollback.go`, ...) | the worktree | write, edit, patch, delete, test | a call that fails half-way | `Tools` |
| Validation gates (`test_validator*.go`, `anti_stub_validator.go`, ...) | none | `ValidateTask` | which gates are skipped when | `Validation` |
| Task QA review (`orchestrator_qa*.go`, `qa_*.go`) | review phases | derive, execute, record, recover | a verdict of an older commit; restart | `QAGate`, `TaskAttempt` |
| Audits (`story_qa_auditor.go`, `acceptance_auditor.go`, `sovereign_qa_auditor.go`) | the ledger | audit | model against evidence, failed calls, refused commands | `Audits` |
| Finalization and release (`orchestrator_finalize.go`, `release.go`) | story status, version, branch | remediate, rescue, bump, publish, persist | crash between publication and record | `StoryRelease` |
| Merge queue (`rebase_queue.go`) | job channel, tree, index, stash | `Push`, five merge tiers, recovery | git mutex per command; commands die with the task | `RebaseQueue` |
| State repository (`storage/`, `updateStateWithRetry`) | version, tables, fingerprints | `Load`, `Save`, replay, prune | torn reads, skipped rewrites, replays | `StateStore`, `StateRegister` |
| Mailbox and server (`command_channel*.go`, `cli/serve.go`) | bounded channel, story queue | `Send`, `SendSync`, drain, stop | shutdown against blocked senders; two queues in a circle | `Daemon` |
| Story scheduler (`story_dag_scheduler.go`) | node statuses, condition variable | `AddStory`, `Execute` | lost wake-ups, streamed additions | `StoryDag` |
| Roadmap generation, iteration loops, project rescue, acceptance gate (`roadmap_*.go`, `cli/start_*.go`) | story files, outcomes | generate, stream, purge, loop, rescue | streaming against purging; crash and resume | `StoryRun` |
| Standby engine (`standby_loop.go`, `fs_watcher.go`) | work queue, pending events, orders | enqueue, process, reconcile | a full queue; restart | `Standby` |
| LLM router (`llm/router*.go`, `llm/failover_client.go`) | evictions, cooldowns, penalties, usage | route, hedge, recover | concurrent requests over shared marks | `Router` |
| Ensembles (`llm/ensemble/`) | answers collected | race, vote, cascade, ... | timers against answers | `Ensemble` |
| Provider clients (`llm/client.go`, ...) | key index, blacklist, capabilities | complete with retries | retry of what cannot succeed | `LLMClient`, `LLMErrors` |
| Worktree cache, git and VCS clients, web, configuration, prompts, reporting | none shared | | section 8 | |

Interactions. The story executors of a process share the persisted state through
the repository, the lock registry, the merge queue and the mailbox. Workers are
goroutines of the dispatch loop; they report through a completion channel and
otherwise only through the persisted state. The watchdog polls the state and
sends commands to the mailbox, whose loop executes them one by one; in the
daemon those commands also fill the story queue that the server loop empties.
Workers call `Push` and wait for the single consumer of the merge queue, which
works in the main working tree that other parts write to as well. Every agent
and every auditor asks the router.

What makes the parts correct: no two workers write a file at once; no task runs
before what it depends on is merged; retries, concurrency and spending are
bounded; locks come back or are known to be left; a merged task stays merged and is what was validated
and reviewed; an agent is believed only on evidence; nothing red is released; a
reported success is earned; acknowledged writes are applied once; every run,
request, push, update and shutdown ends.

## 2. Modules

Composition: `Scheduler <- TaskDispatch <- TaskDispatchProofs`;
`StateStore <- StateStoreProofs`, where `StateStore` instantiates
`StateRegister`; `Daemon <- DaemonProofs`;
`StoryDag, Standby, Breakers <- StoryRun <- StoryRunProofs`;
`Tools, Breakers <- TurnLoop <- TurnLoopProofs`;
`Validation <- QAGate <- TaskAttempt` (with `Breakers`), and
`TaskAttempt, RebaseQueue <- TaskAttemptProofs`;
`LLMErrors <- LLMClient`, and `LLMClient, Ensemble <- Router <- RouterProofs`;
`Audits <- StoryRelease <- StoryReleaseProofs`. An `MC` module gives the
constants of each checked module.

* **`Scheduler`, `TaskDispatch`.** `db` is the persisted state, `locks` the
  registry; per executor `opc`, `phase`, `snap`, `inflight`, `exit`; per worker
  `wpc`, `wret`, `wout`; `cmds` the mailbox. `IsReadySet` characterises what
  `GetReadyTasks` returns. One action per stretch of code between two accesses to
  shared state: a Load copies `db` into `snap[o]`, an `updateStateWithRetry` is
  one step on `db` (justified by `StateStore`). LLM turns, tests and merges are
  the gap between two steps. Tasks are numbers in the order in which the
  scheduler visits them. What happens in a behaviour (how many stories at once,
  the watchdog's kind, which faults) is the variable `env`, chosen from
  `Conditions` at the start. Two history variables: `contended`, the tasks in which
  two executors met (one takes a task up that the other has in hand or has
  merged), and `leaked`, the tasks whose locks an early return left behind.
* **`RebaseQueue`.** `push`, `done`, `jobs`, `result` are the calling side, `pc`,
  `job`, `stashed` the consumer, `base`, `hist`, `index`, `dirty`, `stash` the
  repository. One action per git command, since the GitClient mutex makes one
  command atomic. The content of a tree is the set of branches it holds. Git is
  external and is modelled by what the queue relies on (`stash` refuses an
  unmerged index, `merge` a staged one).
* **`StateRegister`, `StateStore`.** The register is the promise: one versioned
  state, to which each acknowledged write is applied once, on top of all earlier
  ones. The store has the row and the relation groups, Load reading them one
  after the other outside a transaction, Save with version check, fingerprint
  cache and write mutex, the retry loop and pruning.
* **`Daemon`.** The mailbox channel, its `RWMutex` with the writer's precedence,
  the loop, synchronous and asynchronous senders, the handlers that write past
  it, the story queue, the server loop and the shutdown signal at any point.
* **`StoryDag`, `Standby`, `StoryRun`.** A whole `noctifab start`: two-stage
  roadmap generation with streaming, capping (by the kind of specification:
  legacy, feature, hardening), renumbering and purging, the scheduler with its
  condition variable (`IsDispatch` characterises the stories one pass of it
  starts), iteration loops with extension and stagnation breaker, the
  sovereign rescue, the acceptance gate, standby, and a stop by `os.Exit` after
  which disk and repository remain. The rescue's gates are a level from 0 to 4.
* **`Tools`, `Breakers`, `TurnLoop`.** A workspace is a set of files with a
  version and whether it is good; a tool is an operator from a workspace to a
  result, and one that takes a list applies its entries one after the other, with
  a snapshot of each, and on a failure undoes the snapshots in reverse.
  `TurnLoop` takes the calls of an answer one by one and models the caches,
  counters and breakers that decide whether a declaration of completion is
  believed. The cache of inspections is keyed by tool, path, package and command,
  as `buildArgsKey` does; a `run_tests` of a package sees that package, one with a
  command of its own may exit either way. Every answer is a choice.
* **`Validation`, `QAGate`, `TaskAttempt`.** Gates and reviews are operators over
  records of the facts they look for. An attempt is a list of steps still to do,
  to which steps put further steps in front: architecture, turns, commits,
  validation, surgical repair, review, fallback agent with hypotheses, merge,
  escalation, then post-merge repair; with watchdog resets and restarts. Every git
  command whose error the code drops (the commits of turns, fast exit, race,
  surgical repair, candidate and repair turn, the resets that undo them, the
  checkout before the post-merge repair) may fail without the attempt noticing.
  `seen` is the one ghost: the tree last seen to pass, and the code last reviewed.
* **`LLMErrors`, `LLMClient`, `Ensemble`, `Router`.** Errors are records of what
  the classifiers look for; a completion is a record that moves through attempts,
  keys, models and options; an ensemble moves as its members answer and timers
  fire; the router runs several of them concurrently over shared evictions,
  cooldowns, penalties and usage. Time is a set of counters that `Tick` lowers.
  Sorts and filters of the candidates are positions picked out of a sequence
  (`Selected`). FailoverClient's budget is kept per model, so backends that serve
  the same model share it. `WellFormed` says what a configuration is: every model it names
  has a client, every answer a provider may give is an answer or an error. The
  one ghost is `usage.longest`, the longest completion recorded so far.
* **`Audits`, `StoryRelease`.** The audits are operators from a workspace, a
  policy and an answer of the model to a verdict. `StoryRelease` runs them inside
  the executor and `RunOnce`, with remediation, rescue, version bump,
  publication, the two writes of the verdict, crash and resumption. `git` is the
  command of the running `RunOnce` whose error was ignored, if any: after a failed
  checkout the audits judge another tree than the one `FinalizeUserStory` checks
  out, after a failed commit the branch is published as it was.

Mutated forms of definitions (named in `PROJECT.json` under `mutants`) sit before
the definitions they replace; each breaks the property it is listed with.

## 3. Runs

| Run | Instance | Shows |
|---|---|---|
| `executors` | two stories at once (the default) and one after the other, a task each on one file, the second depending on the first; five conditions with watchdog commands, failing attempts, failures of marking, setup, agent update, sandbox and persistence, a ceiling, a clarification | `TypeOK`; `ExclusionUnlessContended`: two workers share a file only where two executors met in a task; `DependencyOrder`: what a running task depends on is merged, whatever was reset, failed or bypassed after its selection; `RetriesBounded`; `NoOrphanLock`: a lock without a worker is one an early return left; `SuccessStable` |
| `exclusion` (violation) | the same stories at once, nothing but an attempt that fails | `FileExclusion` fails: the registry knows tasks, not workers, and grants the files of a task to both executors that dispatch it (`findings`) |
| `stories` | two stories one after the other (worktrees off), six tasks, a cross-story and an absent dependency, self-healing, failed plans and audits, a remediation task | `MilestoneOrder`, `ConcurrencyCap`, `ExitSound`, `Termination` |
| `tiers` | two conflicting branches, two attempts each, channel of one, unreadable files, failing commits, conflicting pops, deadlines, shutdown | `QueueTypeOK`; `CleanStart`: no merge starts on another job's index; `NoStowaway`: a branch is committed only by its own job; `PushReturns` |
| `occ` | two goroutines, one SQLite repository, a row and two groups, two updates each, conflicts, failed saves, pruning | `BaseIsCurrent`: a torn read never leads to a commit; `CacheMatchesTables`; `ImplementsRegister`: the store refines `StateRegister`; `UpdatesReturn` |
| `mailbox` | two posts, a direct writer, a task goroutine, the server loop, both queues of capacity one, shutdown at every point | `ResultTruthful`, `NoSyncStranded`, `ShutdownCompletes` |
| `storyrun` | two stories, generated or found on disk, streamed, parallel or sequential, rescue, gate, standby with two edits, one crash or deletion | `FoundationFirst`, `SuccessIsEarned`, `RescueKeepsGreen`, `RunEnds`, `EditsExecuted` |
| `turns` | a generator and a tester on a production and a test file, every tool, two turns and an extension | `ConcludedOnGreen`, `FailedCallChangesNothing`, `RunEnds` |
| `attempt` | one task in every architecture, one retry, two turns, commits, checkouts and resets that fail unnoticed, failing saves and merges, restarts | `BuildTruthful`: a build is called passing on the tree that passed; `MergedValidated`: a task is merged on the tree last seen to pass, which is the commit itself behind the QA gate; `QAPassReviewed`, `AttemptEnds` |
| `router` | two concurrent callers in every configuration of router, failover client and ensembles | `BudgetBounded`, `NobodyOverlooked`, `AnswerKept`, `RequestEnds` |
| `release` | two stories, six workspaces, four policies, five answers, one crash or failed write, ignored git errors | unless a git error was ignored, `ReleasedGreen`: what is released has no failing suite the audit can run, and `FinalReleaseSafe`: also when one of the calls fails; `ReleasedOnce`: again only after a fault |
| `queuefull` (violation) | one command that queues two stories into a queue of one, no shutdown | `StoriesAreQueued` fails: the mailbox loop waits for room in the story queue, while the story that would make room waits in `SendSync` for that loop (`findings`) |

## 4. Bounds

* Dispatch: two tasks of two stories on one file let one executor hold a task,
  the other meet it and a dependant wait; six tasks give two stories a barrier, a
  pruned edge, three tasks for two slots and a remediation. One retry gives a
  first attempt and a second; `MaxCmds` 1 still lets a command be delayed past any
  step of a worker. All faults at once are out of TLC's reach, so each of the
  conditions of `executors` combines some, and each kind is in one of them.
* Merge queue: `QueueCap` 1 fills the channel with the second push; `MaxPushes` 2
  gives every branch a retry while the job of its first attempt may still be
  queued or running.
* Store: two clients with two updates and two attempts give a conflict, a replay
  and a conflict in the replay. Two groups are what a torn read needs.
* Daemon: both capacities 1, the smallest at which a sender blocks; a command
  that queues two stories (`queuefull`) is what the capacity of 32 needs 33 for.
* StoryRun: two stories, two loops, four rescue turns, one refund (the code has
  three). `MaxFaults` 1 is for crashes and deletions; `MaxEdits` 2 lets a file be
  edited again while its first event is debounced, queued or executed, and lets
  one file's event fill the queue that the other's meets. Stage 1's complete
  stories are assumed to be numbered first.
* TurnLoop: two turns, one extension; counters saturate at the 2 that
  `ShouldTrip` compares with. TaskAttempt: one retry, two turns, one extension,
  faults and crashes bounded per configuration.
* Router: the ticks keep the order of the real durations (eviction, then emergency
  and cooldown, then rate limit); callers stop after their rounds, hence no
  deadlock check.
* StoryRelease: two stories are what it takes for one to be intermediate or
  final; workspaces differ in exactly one thing that an audit looks for; one
  fault, since two would allow every repetition. Ignored git errors are not
  counted.

Symmetry is not used: tasks, stories and branches are ordered or differ.

## 5. Fairness

Weak fairness of goroutines (executors, workers, consumer, callers, loops): the
Go scheduler runs them, and LLM calls, tests and git commands have timeouts.
Nothing is assumed of deadlines, shutdown, ceilings, operators or crashes.
Strong fairness is used where the code selects among ready channels and Go
chooses uniformly: the mailbox loop's select between its context and its channel
(`StopLoop`). The standby engine needs weak fairness only, of its loop, its order
sender and the firing of each file's debounce timer. `TurnLoop`
needs only that a turn which began ends. `Termination` is checked without the
watchdog and with one story at a time (section 7); `RunEnds` of the turn loop supposes that answers do not
forever both edit and declare completion, which only the task's deadline stops.

## 6. Proofs

Every theorem holds for all values of the constants that satisfy the module's
named assumption (types, and capacities above zero; TLC evaluates it on every
run) and the hypotheses it names. All invariants below were checked with TLC on
the run of their module before they were proved, and each preservation proof has
one step per action.

**`TaskDispatchProofs`**: every set of tasks, files, stories and executors, every
dependency relation and lock layout, every number of stories at once, all faults,
ceilings and commands. No theorem restricts the configuration.

| Theorem | States |
|---|---|
| `TypeCorrect` | `[]TypeOK` |
| `WorkersWithinLimit` | `[]ConcurrencyCap` |
| `MutualExclusion` | `[]ExclusionUnlessContended` |
| `LocksAreReturned` | `[]NoOrphanLock` |
| `WorkersRespectDependencies` | `[]DependencyOrder` |
| `MergedTasksStay` | `SuccessStable` |
| `ReportedSuccessIsReal` | `[]ExitSound` |

With several stories at once exclusion as the documentation states it is false
(run `exclusion`), and with it what depends on a task being run by one executor.
The theorems say that this is the only way: a file is shared, a dependency comes
undone, a merged task is taken back, a reported success is lost only for tasks in
which two executors met (`contended`), and for dependencies on an unplanned token
of a story such a task, or a remediation task, is in (`Disturbed`). None is
inductive as it stands. `LimitInv` (`TypeOK`, `InflightInv`, `CapInv`): the in-flight
set of an executor is exactly the set of its live goroutines, and it fills what
that set leaves free. On it rests

    MeetInv == LimitInv /\ UniqueInv /\ UndecidedInv /\ PresentInv /\ SnapInv

`UniqueInv`: a task that two workers have is contended. `UndecidedInv`: a task whose
outcome is open is not merged. `PresentInv`: workers, agents and commands are about
tasks of the state. `SnapInv` is the heart of it: a selection decides on an old
state, and `GrowsInto(snap[o], db, contended)` says what the state may have done
since, whichever executors, workers and commands wrote: no task disappears, what
was merged is merged or contended, a dependency is only added when it is merged,
and a story that has tasks only gets remediation tasks. Every
action is shown to be such a step (`WorkerGrows`, `ExecutorGrows`, `CommandGrows`,
`NextGrows`), which is `MergedTasksStay`; a selection on such a snapshot is then
right about the present, up to contention (`OrderInv`), and an executor that saw
its story merged stays right (`ReportInv`, with `DoneInv`: it has left its loop).
`ExclInv` adds `LockInv` (an active, uncontended task holds all its files) and
`NoOrphanLock`; `ReadySetDisjoint`, `AcquireHolder`, `AcquireHeld` and `AcquireKept`
say what a selection does to the registry.

**`StateStoreProofs`**: any clients, mutations and number of relation groups.

* `NoLostUpdate`: `Spec => []BaseIsCurrent`, for both backends and any number of
  repositories. `StoreInv` is the types, `VersionInv` (a version names one content:
  versions grow until the state is pruned, and then nobody holds what is left)
  and `ReadInv` (while its version is current, a session has read what is
  committed). So a torn read is one whose version has passed.
* `CacheIsTrue`: `[]CacheMatchesTables`, and `StoreRefinesRegister`:
  `ImplementsRegister`, under `OneProcess` (one SQLite repository) and `Recordable`
  (no mutation touches a field without a table or removes a task, and an action
  is appended under an identifier of its own). Both are needed: with PostgreSQL or
  a second process the cache may not match, and transient fields are not stored.
  `CacheInv` adds that a save holds the write mutex from its commit until its
  fingerprints are remembered (`CommittedInv`) and that a stored action is what its
  one append made it (`ActionsInv`). A skipped rewrite then writes what is in the
  table, and a commit is one step of the register; all else stutters.

**`DaemonProofs`**: any callers, capacities and number of attempts.

* `ResultsAreTruthful`: `[]ResultTruthful`. `NobodyIsStranded`: `[]NoSyncStranded`.
  `DaemonInv`: the readers of the lock are the senders between `SendSync` and the
  send, and there are none from the moment the loop has the write lock
  (`LockInv`); a caller's command is in one place only: with the caller, in the
  channel, with the loop or done (`TokensInv`).

**`StoryRunProofs`**: any number of stories, loops, rescue turns and faults.

* `FoundationComesFirst`: `[]FoundationFirst`; `ReportedRunsAreEarned`:
  `[]SuccessIsEarned`; `RescueLeavesGreen`: `[]RescueKeepsGreen`. `StoryInv` is the
  types, what the phases say about scheduler and generator (`PhaseInv`), that every
  story of a streamed pass waits for the foundation story (`FoundationInv`), that
  an outcome "ok" is the record of a verified story while its file is there or may
  still come (`OutcomeInv`), that what is not verified after the check is what the
  rescue works on (`EarnedInv`), and that an exhausted rescue's tree stays
  (`GreenInv`).

**`TurnLoopProofs`**: any workspace, answers, turn budget and extensions.

* `BelievedOnGreen`: `[]ConcludedOnGreen`. `PassesInv`: the breaker counts no pass
  that an edit of a production file has made stale. This needs every way a call
  ends: recorded, cached, failed, tripped, rejected.
* `FailedCallUndone`: `FailedCallChangesNothing`, for lists of any length, with
  files repeated in them, and a failure at any entry. `Undoable`: rolling back the
  snapshots taken so far gives the workspace the call started with. Each entry
  keeps it, since its snapshot is undone first (`RollbackAppend`,
  `UndoableAppend`); `AppliedUndone` is the induction over the entries.

**`TaskAttemptProofs`**: any architecture, task, edits, faults and restarts.

* `PassingBuildPassed`: `BuildTruthful`, whichever of the phase's git commands fail.
  `AttemptInv`: the list of steps tells whether an attempt or the post-merge repair
  runs (`StepsInv`); a check of the repair that passed ends it at once, with the
  tree that passed still in the directory (`RepairInv`); nothing starts after finalization (`FinalInv`). The lemma
  `PassedVerdict` says that a passed verdict got past the static gates, so the
  tree that passed is the one with its imports completed.
* `MergedIsValidated`: `MergedValidated`, and `MergedIsReviewed`: `QAPassReviewed`.
  The attempt is a list of steps that grows at its head, so the argument is about
  which step may follow which (`Link`): every list ends with a validation, the
  QA gate, escalation and the merge; the steps of a review stand before the merge
  and nothing else between; only the fallback agent's own steps follow `escalate`.
  `ShapeInv` keeps the list such a chain through every push of an audit, a repair,
  a fix or a turn; `ChainConcat` and `TurnsOrderly` show it of every list that is
  dispatched. On it rest: a verdict that passed is the last word until the merge
  (`PassInv`), and the worktree then is the tree that passed (`SoundInv`), whatever
  was or was not committed on the way. What is committed is known where the code
  looks: the gate blocks a worktree that is not the committed tree, and a
  failed commit of a patch or a fix, so in a review and after it the worktree is the head,
  up to imports completed by the validation of a fix (`LevelInv`); what a review saw
  is what a fix or a patch starts from (`PatchInv`, `SameCodeInv`, `VerdictInv`), so
  past its review the head is the code a review passed (`PassedReviewInv`). Because
  the branch extends the integration branch unless commits of others were reset
  (`PrefixInv`, `MergedAsIs`), and only a task whose fallback agent was called loses
  any (`CalledInv`), the merge adds the head itself. One assumption on a constant
  carries weight: an enabled QA gate has at least one round, which
  `validateQAConfig` enforces. With none, the tests a first review handed in
  together with its findings would stay in the worktree uncommitted.

`TaskAttemptProofs` also has the proofs about `RebaseQueue`, through which the
merges of all tasks go (its specification is `QueueSpec`, so that the module can
stand beside `TaskAttempt`): every set of branches and overlap between them, every
capacity and number of attempts, all faults, deadlines and shutdown.

* `QueueTypeCorrect`: `[]QueueTypeOK`; `MergesStartClean`: `[]CleanStart`;
  `NothingSwept`: `NoStowaway`.

The inductive invariant adds to the types: a job is under way unless the
consumer rests (`JobInv`); what a job stashed is on the stack (`StashInv`); a
staged merge leaves something for `git stash` to save (`StagedInv`), which is
why a live job that does not find an unmerged index finds a clean one
(`CheckoutInv`); and while a live job is in its tiers, the tree holds nothing
but its own branch and markdown files (`TierInv`). `NothingSwept` follows from
`TierInv`, since the tiers commit what is in the tree.

**`StoryReleaseProofs`**: every set of stories, configuration, workspace and answer
of the model, and any number of faults.

* `ReleasesAreGreen`: `[]ReleasedGreen`. `GreenInv`: from the audit to the
  checkout the content is the one that was audited, or the verdict is down, and
  it is the published one unless a git error was ignored.
  `PassExcludesFailure` says that no answer of the model lets a failure pass.
* `FinalReleaseIsSafe`: `[]FinalReleaseSafe`. `SafeInv`: while `RunOnce` is
  under way the stories are as it loaded them, so both audits and the database
  agree which story is the last; the ledger holds numbers only, so its fast pass
  cannot apply once a story has succeeded (`NoFastPass`); and what is past the
  second audit was accepted by it (`AcceptedIsSafe`).
* `ReleasedOnceHolds`: `ReleasedOnce`. `RunningInv`: a story in execution is
  RUNNING until its verdict closes the state, and not yet reported. `CountInv`: a
  story has at most as many releases as there were faults, plus one; and when it
  has that many it is settled: its release is being recorded, or its verdict is
  recorded, or the executor has returned. Only a fault takes it out of there.

**`RouterProofs`**: every configuration of roles, providers, clients and ensembles,
any number of callers, rounds, answers, errors and cancellations.

* `NobodyIsOverlooked`: `[]NobodyOverlooked`, and `AnswersKept`: `[]AnswerKept`. The
  inductive invariant is

      RouterInv == SharedInv /\ CallsOK(calls, Fits) /\ ReqsOK(req, Fits)

  `Fits` are the candidates of the configuration, all of which can be asked
  (`RoleAskable`, `GlobalAskable`); the filters and sorts of a request add none
  (`OrderedTyped`). `ReqsOK` contains `Covered`: whoever of the list has neither been
  asked nor found barred still has his turn to come, which is where the hedge
  hands over to the loop (`HedgeLost`) and the loop to the emergency candidate.
  `CallsOK`: what is in flight is a client's ladder that has no answer until it is
  done (`LadInv`), or an ensemble in whose every phase giving up is possible only
  without a fit answer (`EnsInv`); there is one lemma per strategy and per event
  (`ArriveKeeps`, `ExtraArrivesKeeps`, `TimersKeep`, ...).
* `BudgetIsBounded`: `[]BudgetBounded`. The bound counts the callers, so the
  invariant has to say who has yet to pay: `Room(total, base, C, B, w)`, the total
  exceeds `base` by at most `w` for each member of `C` that is not in `B`. `TotalInv`
  has it of the router with the active requests as `B`, `ModelsInv` of each model
  behind FailoverClient with the callers that are on it. A check passed under the
  limit puts a caller into `B` without loss (`RoomAtStart`: then the total is at most
  `base`), an answer takes him out (`RoomPaid`), an error only helps (`RoomKept`).
  `Moved` and `MovedBackend` reduce each action to one of these three.

Recursive functions stand in the models where a loop computes something
(`Selected`, `rollbackAll`, `Applied`, scores). What such a function returns for
every argument is proved by the least element of the set of counterexamples
(`LeastNat`, from `WFMin`), or with `Induction` over a set of numbers.

Only model-checked. The liveness properties (`Termination`, `PushReturns`,
`UpdatesReturn`, `ShutdownCompletes`, `RunEnds`, `EditsExecuted`, `AttemptEnds`,
`RequestEnds`): fairness and leads-to are outside the proof system. Every safety
invariant and action property of the passing runs has a theorem, except
`MilestoneOrder` and `RetriesBounded`, which hold only in the conditions their runs
have (section 7).

## 7. What the models made visible

The properties above are stated as strong as the code makes them; the places
where something stronger might be expected, found while modelling:

Dispatch and merge.
* Two stories run at once by default: `agents.orchestrator.number` 0 with worktrees
  on gives a concurrency of 2 (`start_dag_loop.go:51-58`, `start_runner.go:253-260`).
  Both executors dispatch from all tasks of the state. One may load it before the
  other's worker has persisted IN_PROGRESS; the registry lets a task re-acquire
  its own locks, so both run it, and the later outcome overwrites the earlier, a
  merge included. That is the finding of `exclusion`; the other dispatch properties
  exempt exactly the tasks in which executors met.
* With two stories at once the milestone barrier does not hold either: a task may
  be selected while the earlier story has no task in the state yet. `MilestoneOrder`
  is checked with one story at a time.
* Locks stay behind when a task cannot be marked or its worktree not set up
  (`orchestrator_execute.go:103-114`), and when a ceiling stops a selection that has
  already acquired them. They come back only when the task itself is run again,
  until then every other task that wants the file is held up. `NoOrphanLock` says
  there is no further way.
* When setup and persistence both fail under a watchdog that asks the model, TLC
  finds retries past the bound of `RetriesBounded`; the conditions of the run do not
  combine the two.
* A task that fast-aborted is selected again while it has retries left; a task
  whose failed dependency was pruned falls under the milestone barrier; the
  bypass writes StallCount 2 back, so the hard stop at 5 is not reached; an agent
  WORKING on a FAILED task with StallCount 2 is never cleared, hence
  `Termination` without the watchdog.
* A file another task stages between stash and merge makes `git merge` refuse;
  Tier 3 or 4 then commits that file alone, reports success, and the caller
  deletes the unmerged branch. `NoStowaway` says what does hold.

State, mailbox, daemon.
* With PostgreSQL, or two processes on one database, the fingerprint cache may
  not match the tables; `occ` has one SQLite repository. Orders and task
  directives have no table: `reconcilePendingOrders` (`standby_loop.go:136`) finds
  none after a restart, while CHANGELOG.md:2163-2165 says that orders persist.
* The circle of the two queues is the finding of `queuefull`.

Runs and rescue.
* Stories are streamed before the sanitizer caps them and the generator purges
  their files; stories Stage 1 creates in full are not streamed. A crash during
  generation leaves a partial roadmap that a restart takes for the whole.
* A tripped oscillation breaker returns without the final restore of the best
  commit. The acceptance gate passes when the state or the audit fails, and the
  re-audit after a rescue fails when it does.
* A file event that meets a standby queue full of other items is lost
  (`EditsExecuted` exempts the edit until the file is edited or taken up again);
  pending events and orders are lost at a restart.
* Two story files with one number are one story to the state; the model has one
  file for each number.

Turns and attempts.
* A patch without a path and the map form of `write_files` do not reset the
  count of passes; an E2E pass counts as a pass of the suite; a tester may
  declare completion on red once it has called `run_tests`. An answer that mixes
  an edit with a declaration on red gets its turn back every time.
* ModelUpgrades is not persisted, so a task is never split. The E2E gate is
  skipped by a short-circuit pass. Failed commits are ignored after turns, the fast
  exit, a race, a surgical repair and its undoing, and a candidate of the fallback
  agent (`fallback_hypotheses.go:165`); only the QA gate notices. Without it a task
  is merged as SUCCESS on a validated worktree whose changes are not in the merged
  commit. The post-merge repair calls the build passing on the tree in the
  directory, though its commit or the checkout before it failed
  (`orchestrator_repair.go:40`, `:99-116`). `MergedValidated` and `BuildTruthful` say
  which trees agree when. A refused repair leaves untracked files; the fallback agent resets
  HEAD~1 even when its candidate committed nothing, and merges without a review.
  A retry replaces the first review phase, so that a WORKING one may remain and a
  restart mark a merged task INTERRUPTED.

Audits and release.
* The state knows the stories that were started. The first story of a sequential
  run therefore passes for the last one and gets the whole-project audit
  (CHANGELOG.md:920: "only runs if the story being finalized is the final story
  in the roadmap"); a FAILED story suppresses it for all later ones.
* The remediation task of the acceptance audit is appended to a copy of the state
  that is never saved (`orchestrator_acceptance.go:119`; CHANGELOG.md:952 says that
  a task is injected): `RunOnce` finds the same gaps again, the executor returns
  nil and the loop records SUCCESS for a story that was not released. The rescue
  of the story audit ends the same way.
* The story audit parses a contract with an absolute path, which
  `ParseStoryContract` refuses: a story with a `noctifab-contract` block fails its
  audit whatever the program does.
* The ledger is keyed by number, the state by file name, so the fast pass
  applies only while no story is SUCCESS. A refused command is a skip for the
  acceptance audit and an error for the sovereign one, which never gets the E2E
  mode. An unreadable answer passes a story and fails a project.
* The checkout before the story audit and the staging and commit of the release are
  not looked at (`orchestrator_repair.go:40`, `orchestrator_finalize.go:100-104`): a
  release may then publish a branch that nobody audited. `ReleasedGreen` and
  `FinalReleaseSafe` exempt a `RunOnce` in which that happened.
* A failed write or a crash after the push releases a story again
  (`ReleasedOnce` bounds it by the faults). The fast exit releases nothing.

Router and clients.
* The daily limit is checked before and charged after a call; retries and
  ensembles are charged as one estimate; emergency recovery charges nothing and
  may lift an eviction that another request set. A cancelled caller penalises
  every candidate in turn. `ApplyDynamicDemotion` skips the candidate that moves
  into the place of a demoted one. The shared key index may give a retry the key
  that was just refused.
* The one-shot soft timer and the select at the hard timeout of the parallel
  strategy may pass over an answer that has arrived; `AnswerKept` is about
  answers that were taken. Two provider adapters cancel their context before the
  body is read.

## 8. Not modelled

* Inside modelled parts: cancellation of the dispatch loop, failures of Load in
  it, scope triage and DEFERRED stories, CONFLICT_BLOCKED, the `max_actions`
  ceiling, pre-warming, the speculative planner, the token rate limiter; in the
  merge queue stale lock files, the text of resolutions, in-place execution; in
  the router usage per provider type, background goroutines of a cancelled call
  (token estimates are the prompt plus the number of actions, all budget reads of
  a request agree; a member's answer is sent and received in one step); in the
  release a second story that executes at the same time, though two at once are
  the default: its merges could change the integration branch between an audit
  and the release that follows; commits a post-merge repair leaves on the branch
  that was checked out when its checkout failed; an E2E command that passes without any output, story files named by number
  only.
* What only looks at text is an operator over what it finds: the patterns of the
  anti-stub and AST analysers, patch hunks, prompts, answers.
* Not at all: the worktree cache (links and environment of one task's worktree),
  git and VCS clients (external programs, modelled where their behaviour
  matters), configuration (its values are the constants), the dashboard,
  reporting and telemetry (nothing the system reads back).

## 9. State of the plan

Modelling is complete along the original plan (mailbox, store, scheduler and
standby, turn loop and attempt, router, audits and release), and the safety
invariants and action properties that the passing runs check are proved, but for
the two section 6 names. What would come next: two stories at once in the
release, the parts of section 8 that keep state (DEFERRED stories, the speculative
planner), and liveness once the prover handles it.
