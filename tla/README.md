# troute: a TLA+ verification project

troute is a route-optimization server. A client submits a job; the server
persists it, builds a travel-time matrix, runs a portfolio of solvers, stores one
terminal result and lets clients follow, cancel and inspect the job. This
directory models the parts of the server where processes, files and deadlines
meet, checks them with TLC on small instances, and proves the central results
with TLAPS for every instance. Paths below are relative to the repository root.

## 1. Inventory

| Component | State it keeps | Operations | Interacts with | What is hard |
|---|---|---|---|---|
| Job store (`src/storage.rs`) | one directory per job (`request`, `state`, `event-sequence`, `result`, `error`), `index.json`, one mutex | create, mark running, progress, save result or error, cancel, record sequence, recover | every HTTP handler, the runner, startup | several files per operation; crashes and I/O errors between them; the index as a second copy |
| Job runner (`src/jobs.rs`, `src/jobs/cancellation.rs`, `src/cancellation.rs`, `src/job_pacing.rs`) | admission and execution semaphores, registry of activities (token, sequence, broadcast channel) | submit, run, consume updates, persist, publish | store, executor, cancel endpoint, streams | result, failure and cancellation race; a worker that outlives its cancelled job; publication in several steps by several tasks |
| Job endpoints (`src/http/handlers/jobs.rs`, `optimization.rs`) | none | submit, optimize, cancel, inspect, list | runner, store | the cancel endpoint persists, publishes and signals in this order |
| Event streams (`src/http/handlers/events.rs`) | a cursor and a receiver per stream | snapshot, forward, recover from lag, close | activity, store | bounded channel, snapshot read while events are published |
| Matrix builder (`src/routing/matrix_builder.rs`) | shared counters, flags and results of one build | take a pair, query, complete, fail, watch, assemble | provider, caller's token, deadline | threads, deadline against late answers, `expect`s at the end |
| Resource manager (`src/solver/portfolio/resources.rs`) | usage counters under a mutex | try, acquire until a deadline, release | strategies of all jobs | capacity against deadline and cancellation, saturating arithmetic |
| Solver orchestrator (`src/solver/orchestrator/`) | task queue, candidates, budget | run a batch of strategies, watch each, select | resource manager, solvers, telemetry | per-strategy timeout against completion, remaining budget |
| Portfolio policy (`src/solver/portfolio/`) | statistics per annealing start, cursor, stage | select a start, observe its run, eliminate | orchestrator | rules that override each other over long sequences of runs |
| Solvers (`src/solver/{exact,heuristic,initial}/`, `src/solver.rs`) | the search state | solve under a token | orchestrator | algorithmic correctness, cancellation in the middle of a search |
| External solvers (`src/solver/{external,mip}/`) | a child process, a native model | solve | orchestrator | supervision of something foreign |
| Schedule (`src/schedule.rs`) | none | arrival, waiting, service and departure times of a route | solvers, service | boundaries of windows and of the day |
| TCache provider (`src/providers/tcache/`) | a remote job per pair | create, poll, fetch, cancel | matrix builder, revalidation | polling against deadline and cancellation; answers that are late or lost |
| Provider selection (`src/routing/provider_selection/`) | registry, policy | build from settings, resolve, publish diagnostics | service | precedence of five sources, eligibility |
| Telemetry (`src/storage.rs`, `events.rs`, `jobs.rs` handlers) | `solver-telemetry.jsonl` | append, page, follow | runner, streams, polling clients | half lines after a crash, pages of a growing file |
| Optimization service (`src/service/`, `src/failure.rs`) | progress of one pipeline | prepare, route, solve, revalidate, finalize, report, remediate | all of the above | monotone progress, failure paths, advice |
| Request validation (`src/api.rs`) | none | defaults, checks, problem, response | service | what later stages rely on |
| Configuration, HTTP plumbing, observation, tools | little or none | - | - | - |

What makes each component correct: the store and the runner must give a job one
forward-only life with exactly one end, and tell every observer the same end; the
streams must never show an older view after a newer one and must end; a matrix build
must return, never panic, and blame the deadline only when it has passed; the
resource manager must neither overcommit nor leak; a solve must return the best
candidate whatever the threads did, prove nothing from an interrupted search and
leave no thread or lease behind; the policies must starve no start; every solver
must agree with the schedule about time and lose no better route, the exact one must
find the optimum; a request must be answered as a whole or refused, by the provider
its operator configured, with one outcome that everybody is told and advice that is
true. The hazards behind these sentences are listed with their lines in
`PROJECT.json`.

## 2. Modules

| Module | Models | Notes |
|---|---|---|
| `JobState` | the persisted record and its transformations | operators shared by the next four modules |
| `JobLifecycle` | what the store promises | abstract specification: one atomic step per visible change |
| `JobStore` | `FileJobStore`, one step per file write | crashes, failed writes, interrupted recovery |
| `JobRunner` | runner, worker, registry, cancel endpoint, publication | one step per store operation, lock, channel or semaphore operation |
| `JobEvents` | `job_events`, extends `JobRunner` | the broadcast channel is the log of sent events and a read position |
| `MatrixBuilder` | `build_matrix_until` | worker threads, watchdog, owner |
| `ResourceManager` | `ResourceManager`, `ResourceLease` | one step per iteration of the wait |
| `StrategyExecution` | `execute_strategy`: lease, strategy, watcher, evaluation, candidate | instantiates `ResourceManager` with the executions of this and of other jobs |
| `SolverOrchestrator` | `solve_anytime`, `solve_registered`, `StrategyBatchExecutor`, `CandidateAccumulator`, `CandidateSelector` | extends `StrategyExecution` |
| `ArmSelector` | `RestartableArmSelector`, `RoundRobinInitializerSelectionPolicy` | the choice the annealing loop makes before each run |
| `JsonLines` | the append-only file and its readers | half lines, lines that continue them |
| `SolverEvents` | the telemetry file, `solver_events`, `solver_telemetry`, a polling client | crashes, failed appends and reads, every end of the job |
| `RouteProblem` | the problem, `simulate_solution`, `evaluate_solution`, the objective, `schedule.rs`, the penalised evaluation | shared by all solvers and the service |
| `ExactSolver` | the subset recursion and its frontier at one start time | |
| `InitialRoutes` | greedy, doubled tree, Christofides, random | |
| `ClusteredSolver` | clustering, cluster order, subproblems, merge | |
| `RouteSearch` | one call of the exact, clustered or annealing solver under a token | extends the four above |
| `ProviderSelection` | policy, registry, selector, diagnostics | pure operators |
| `RequestValidation` | defaults, `try_from`, the response | pure operators; extends `ProviderSelection` |
| `TcacheClient` | one travel time through a remote job | time is a counter; the service is external |
| `FailureAdvice` | failure detail, suggestions, ranking, the three classifications of an error | pure operators |
| `OptimizationPipeline` | `optimize_with_cancellation` and the remediation | extends `FailureAdvice`, `RequestValidation`, `TcacheClient` |
| `JobStoreProofs`, `JobEventsProofs` (runner and streams), `SolverEventsProofs`, `MatrixBuilderProofs`, `OptimizationPipelineProofs`, `SolverOrchestratorProofs`, `PortfolioProofs` (resource manager and arm selector), `RouteSearchProofs` (all solvers) | the proofs | |
| `MC*` | instances for TLC | constants only |

Variables and actions carry the names of the fields and functions they stand for;
`PROJECT.json` maps each definition to its lines.

**JobStore.** An operation takes the mutex, decides from the files and records in
`op` which file it writes next (`FollowingFile` is the order of the writes in the
code). `Write*` performs one write (temporary file, rename), `WriteFails` aborts
the operation with what has been written so far, `Crash` stops the process
between any two writes, `Restart` begins `recover_interrupted`. Operations refused
before their first write are disabled actions. Stages are numbers, the percentage
is clamped as in the code; names, timestamps and payload contents are abstracted
to their existence. `VisiblePayload` is what `get_job` returns beside the record:
every payload file there is, whatever the status says; since `get_job` takes the
mutex, an operation in flight shows what it found (`found`) until `state.json` is
renamed, and what an interrupted one wrote is seen.

**JobRunner.** `submitter`, `runner`, `worker`, `canceller` and `publisher` are
the positions of the processes. A store operation is one step, because it holds
the mutex throughout; it ends as `ok`, `lost` (nothing written), `payload` (only
the payload) or `late` (everything but the index), the last three being errors to
the caller. Taking a sequence number, recording it and sending the event are
separate steps, as they are in `JobActivity::publish`. An unlimited server
(no `TROUTE_MAX_...`) is one whose limit is at least the number of jobs. The
process does not crash here: a crash forgets all of this module's volatile state,
and what remains is `JobStore`.

**JobEvents.** Each stream subscribes, reads sequence, job, sequence until both
agree, yields the snapshot, and receives. `lagged` is what tokio reports when the
receiver's position has been overwritten. `SenderDropped` says when the last clone
of the activity is gone.

**MatrixBuilder.** A pair is its index and an answer is `minutes` or
`unreachable`; time is the flag `deadline_passed`. A panicking provider is left
out.

**ResourceManager.** A holder is one strategy execution. Cancellation and
deadlines of holders are environment steps.

**StrategyExecution.** `phase` is the position of the calling thread and `watcher`
that of the watcher thread; `reason` is `timeout_reason`, which is written
together with the cancellation of the child token (a strategy that returns between
the two is one that returns before both). What a strategy returns is any member
of `Returns`: a route with its score, its own claims and whether it made an
iteration, an error, or a panic; it says "cancelled" only of its child token. The
token of the evaluation is chosen when the strategy returns and looked at in a
later step. The case of `failed_candidate` for `NoFeasibleRoute` of the exact solver
is unreachable, since errors of strategies go through
`failed_candidate_from_error`: an exact solver that finds nothing is reported as
failed with unknown proof status.

**SolverOrchestrator.** `pc` is the position of the solving thread. Worker threads
are alike: `free` counts the ones about to pop a task, `busy` holds the
executions the others are in. `spent` says that no more than the safety margin of
the budget is left. A candidate's order is its place in the registration. The
annealing loop runs the members of `Annealings` in order.

**ArmSelector.** One run at a time is selected and observed. Weights are
compared by cross-multiplication, shares likewise. Scores of UCB1 and Thompson
sampling are replaced by an arbitrary choice among the active arms, which is why
what holds for them holds for any score.

**SolverEvents.** An event is its sequence number, a line the entries that were
written to it; a line with half an entry is unreadable, and the next append
continues it, which is what the code does because it writes the newline last. A
failed append is logged and the next update received, a crash is followed by
recovery.
Stream and polling client never share a behaviour: neither touches the file.

**RouteProblem, ExactSolver, InitialRoutes, ClusteredSolver.** Times are slots of a
short day, an unreachable pair is `None`. The code has several clocks for one
route: `simulate_solution`, the transition of the exact search, the penalised
simulation, and the schedule. Each is translated on its own; that they agree is
checked and proved, not assumed. Of the matching algorithms the exact one is modelled, which
serves up to its limit of odd vertices.

**RouteSearch.** A step reaches from one read of the token to the next, so that a
cancellation falls between any two of them. Random numbers, temperature and the
wall clock of the annealing search are choices: it may take any neighbour, accept
or refuse it, and stop. An evaluation that the token interrupts fails, which the
penalised evaluation swallows as the code does.

**TcacheClient.** `call` is the position of the client; every exchange may fail on
the way there or back, the service may end the job at any time. `stop` is the
token of the matrix build.

**OptimizationPipeline.** `pc` names the next step between two reads of the token
or two reports. Solver and matrix build return any result their own modules allow,
while `on_progress` lets their threads report at any moment. A request is a record
of what validation looks at; provider, matrix and schedule are computed. What the
preparation and the matrix stage expect of an accepted request (`PreparationPanics`:
coordinates for a straight line, a country with a code; one source of travel times) is a
step to `panicked`, which `AnswerIsComplete` forbids. A probe of
another mode resolves its provider again; a probe without a location runs the exact
solver on the reduced problem.

Next to some definitions stand *seeded faults*: variants of the definition, named
after it, that no specification uses. Each is a plausible mistake in that piece of
code, and for each checked property `PROJECT.json` names the fault that breaks it.

## 3. Runs

| Run | Instance | Shows |
|---|---|---|
| `job_store` | 2 jobs, 2 stages, 1 crash, 1 failed write | payload before state (`TerminalStateHasPayload`); recovery leaves nothing active and rebuilds the index, which agrees while no write failed (`RecoveryIsComplete`); refinement of `JobLifecycle` |
| `job_runner` | 1 id, 2 submitters, 2 cancellers, 2 updates (stages, telemetry, full result), 1 fault | the token follows the record, the completion is true, nothing reported is lost, published events are valid and at most one is terminal, refinement of `JobLifecycle` |
| `job_runner_limits` | 2 jobs, 1 permit, 2 admissions, 1 fault, fair | limits bound real executions and outstanding jobs; created jobs end and everything is returned |
| `job_events` | 1 job, 2 updates, 1 canceller, 1 stream, a channel of 1, fair | ids increase and the view never goes back; no stream trips the wire assertion and every stream ends |
| `matrix_builder` | 3 workers, 3 pairs, fair | no panic in the assembly, pairs handed out once, honest timeouts, the build ends with its progress in order |
| `resource_manager` | 3 holders, requests of all widths | exact counters, no overcommitment, a deadline only under contention |
| `solver_orchestrator` | 1 exact, 2 baseline and 1 annealing strategy, 2 workers, another job, requests that fit and one that never does, fair | the answer does not depend on thread timing and is the best one tracked, every strategy is accounted for; an interrupted search proves nothing and outcomes blame only what happened; the resource manager is used as it allows; every solve returns and leaves no lease behind |
| `arm_selector` | 4 arms, all policies, starvation limits 3 and 5, up to 9 runs | nobody starves; rotations are even (the exploration ratio is a half, the most that evenness allows), racing keeps the better half, an arm is left |
| `solver_events` | 4 events with gaps, pages of 2, cursors 0 and 1, 2 faults, fair | readers get each readable event once and in order, a fault costs at most one other event, a stream that ends is honest about it, followers finish |
| `route_search` | 4 to 6 locations, asymmetric and one-way matrices, hours that force waits and closings, optional locations, all start policies, a day of 10 slots, clusters of 2, 2 annealing iterations, fair | answers are the schedule's; the exact solver is optimal against all orders and starts; nothing better is dropped, interrupted or not; initial routes are tours, with minimal tree and matching; every search ends |
| `optimization_pipeline` | 382 pairs of configuration and request: feasible, infeasible and dated ones, one step past every validation limit, 16 configurations of the provider selection; remote answers of 5 lengths, fair | progress only advances, everyone is told one outcome, answers are complete, the promised provider is asked, revalidation is all or nothing, remote calls end cleanly, advice holds, the pipeline ends |
| `announced_end_is_delivered` | as small as possible | a disagreement with `docs/api.md`, section 6 |

**Bounds.** A second job matters to the store only through the shared mutex, index
and recovery; two suffice to have one being recovered while another is untouched.
One crash and one failed write reach every intermediate disk state; a second crash
meets a state a first one could have met, except inside recovery, which the
invariant covers for every number (section 5). Two submitters and two cancellers
are the smallest numbers with a race among equals; a channel that retains one
event makes every second unread event a lag. Two updates allow a report after a
report and a regression of the stage. Three pairs and three workers let a worker
stop while another still holds a pair. Two capacity units for two workers and
another job make every lease contended; one annealing run reaches every exit of
the loop (a second repeats the first with another best). Nine runs of four arms
contain the exploration, two full rotations and two racing stages. Two faults
damage two lines or one line twice; pages of two over four events give a full, a
short and an empty page. Problems of four locations have every shape of two-stop
route, five are the smallest with an optional one among required ones and with
two clusters of two, and six exceed the exact solver's limit, which the instance
sets to five. A day of 10 or 20 slots leaves waits, closings and the end of the day
within reach of each other; granularity 2 makes odd times invalid. The remote
call's deadline of 3 ticks is longer than a poll and shorter than two, and the
revalidation budget of 4 ends inside the second leg. No symmetry is used: several
runs check liveness.

**Fairness.** `FairSpec` of `JobRunner`: handlers that have begun, runner tasks and
publications are polled again by tokio, and an execution ends (every solver is under
a deadline); nothing makes a client submit or cancel. `JobEvents` adds that a stream
is polled. `MatrixBuilder`: threads run and a provider that was given a token and a
deadline answers; neither the caller nor the clock has to move.
`SolverOrchestrator`: threads run, a waiter looks again every 5 ms, time passes
while an execution or a budget lasts, and a strategy returns once its child token is
cancelled (every solver polls it); a strategy that is not interrupted need not
return. `SolverEvents`: the runner consumes, the process is restarted, readers
continue. `RouteSearch` and `OptimizationPipeline`: the thread runs until it
answers, and a call of the tcache client proceeds, whatever the service does; both
are spelled `[]<>(ended) \/ []<><<Step>>_vars`, which is weak fairness of a step
that is enabled until the end, because evaluating `ENABLED` would run every search
twice. A round of the bisection whose middle is its lower bound would leave both
bounds as they are, so the formula demands nothing there (`Idle`): a bisection
that rounds down violates `SearchEnds`. Only weak fairness is used.

**Deadlock.** Runs of `JobRunner`, `JobEvents`, `MatrixBuilder`,
`ResourceManager`, `SolverOrchestrator` and `ArmSelector` say
`CHECK_DEADLOCK FALSE` because the bounded system comes to rest when all requests
are served; that it does not rest too early is what the liveness properties say.
`SolverEvents`, `RouteSearch` and `OptimizationPipeline` name the state in which
they rest and check that they rest nowhere else.

## 4. Refinement

`JobLifecycle` is the promise of `docs/api.md` and
`docs/architecture/request-lifecycle.md`: created once, forward only, one terminal
status, with its payload. Its variables are the record, the payloads that
`get_job` returns with it, and how often the process stopped or a store operation
failed. An end adds its payload in the same step. The documentation goes further:
a completed job has no error, a failed one no result, and no other job has either.
That is what the code keeps while nothing fails, and no longer: `LeaveBehind`,
a step that must count a failure, puts a payload beside a job that is still active,
where it stays whatever the job becomes. `PayloadAsPromised` states both and is a
theorem of `JobStore` and of `JobRunner` (`PayloadKept`); section 6 has the
disagreement.

`JobStore` implements the lifecycle with the record `state`, `VisiblePayload` and
the sum of its crashes and faults; the step is the rename of `state.json`, and a
`LeaveBehind` is a crash or a failed write after that of the payload. `JobRunner`
implements it with all its concurrency and its faults. Both are checked and proved.
 `StrategyExecution` uses `ResourceManager` through
an instance, and `UsesResourceManager` says that every step of a solve, of its
environment and of other jobs is a step of that specification; this is checked
and proved too.

## 5. Proofs

| Theorem | Says | From |
|---|---|---|
| `JobStoreProofs!TypeCorrect` | `[]TypeOK` | each action keeps each type |
| `JobStoreProofs!InvariantHolds` | `[]StoreInvariant` | inductive |
| `JobStoreProofs!PayloadBeforeState` | `[]TerminalStateHasPayload` | `StoreInvariant` |
| `JobStoreProofs!Refinement` | `Spec => JobLifecycle` | `StoreInvariant` |
| `JobStoreProofs!PayloadKept` | `[]Lifecycle!PayloadAsPromised` | the refinement |
| `JobStoreProofs!RecoveryCompletes` | `RecoveryIsComplete` | `RecoveryInvariant`, inductive |
| `JobEventsProofs!InvariantHolds` | `[]RunnerInvariant` | inductive |
| `JobEventsProofs!TokenFollowsRecord` | `[]TokenMeansCancelled` | `RunnerInvariant` |
| `JobEventsProofs!CompletionIsTrue` | `[]CompletionAgrees` | `RunnerInvariant` |
| `JobEventsProofs!Refinement` | `Spec => JobLifecycle` | `RunnerInvariant` |
| `JobEventsProofs!PayloadKept` | `[]Lifecycle!PayloadAsPromised` | `RunnerInvariant`, `MovesAlong` |
| `JobEventsProofs!LimitsCounted`, `LimitsAreKept` | `[]LimitInvariant`, `[]LimitsHold` | inductive with `RunnerInvariant` |
| `JobEventsProofs!EventsAreTrue`, `EventsValid` | `[]EventInvariant`, `[]PublishedEventsValid` | inductive with `RunnerInvariant` |
| `JobEventsProofs!ReportsTracked`, `ReportsKept` | `[]ReportInvariant`, `[]NothingReportedIsLost` | inductive with `RunnerInvariant` |
| `JobEventsProofs!StreamsAreFed` | `[]EventsInvariant` | inductive with `RunnerInvariant` and `EventInvariant` |
| `JobEventsProofs!ViewsAdvance` | `ViewNeverGoesBack` | `EventsInvariant` |
| `JobEventsProofs!AssertionHolds` | no stream aborted while `faults = 0` | `EventsInvariant` |
| `SolverEventsProofs!TelemetryFollows` | `[]TelemetryInvariant` | inductive |
| `SolverEventsProofs!TelemetryCompleteness`, `StreamsEndHonestly` | `[]TelemetryIsComplete`, `[]EndedStreamIsHonest` | `TelemetryInvariant` |
| `PortfolioProofs!TypeCorrect` | usage within the limits | inductive with `fits` and `reserve` |
| `PortfolioProofs!RunsBounded` | `[]RunsCounted` | cardinality of the set of leases |
| `PortfolioProofs!LeasesBounded` | `[]LeasesWithinLimits` | sums over the leases |
| `PortfolioProofs!DeadlineNeedsContention` | `DeadlineMeansContention` | `LeasesWithinLimits` |
| `MatrixBuilderProofs!BuildIsSound`, `ExpectsHold` | `[]BuildInvariant`, `[]AssemblyNeverPanics` | `BuilderInvariant`, inductive |
| `MatrixBuilderProofs!ReportsInOrder` | the action part of `BuildEnds` | `BuilderInvariant` |
| `OptimizationPipelineProofs!CallsEnd` | `[]CallEndsCleanly` | `CallInvariant`, inductive |
| `OptimizationPipelineProofs!RouteIsHeld`, `RevalidatesAllOrNothing` | `[]RouteInvariant`, `[]RevalidationIsAllOrNothing` | inductive |
| `OptimizationPipelineProofs!ProgressAdvances` | `ProgressOnlyAdvances` | `ProgressHeld` |
| `OptimizationPipelineProofs!OutcomesHonest`, `AnswersComplete` | `[]OutcomeIsHonest`, `[]AnswerIsComplete` | `OutcomeInvariant`, inductive with `RouteInvariant` |
| `OptimizationPipelineProofs!ProvidersSuitable` | `[]ProviderIsSuitable` | `ProviderHeld`, with `RouteInvariant`; what the selector does for every policy |
| `SolverOrchestratorProofs!Refinement` | `Spec => ResourceManager` | only strategies of the solve are launched (`QueueHeld`) |
| `SolverOrchestratorProofs!ExecutionsAgree` | `[]ExecutionInvariant` | inductive |
| `SolverOrchestratorProofs!InterruptionIsHonest` | `InterruptedProvesNothing` | `ExecutionInvariant` |
| `SolverOrchestratorProofs!WorkEndsWithTheSolve` | `[](WorkIsLeased /\ NothingLeftBehind)` | `ThreadsHeld`, inductive with `ExecutionInvariant` |
| `SolverOrchestratorProofs!AnswerIsDeterministic` | `[]SelectionIsDeterministic` | `SelectionHeld`, inductive with `ThreadsHeld` |
| `SolverOrchestratorProofs!SolveIsSound` | `[]SolveInvariant`, the safety part of `SolveEnds` | the invariants above, `WorkersCounted` |
| `RouteSearchProofs!SearchIsSound`, `NothingDropped` | `[]SearchHeld`, `[]NothingBetterIsDropped` | inductive |
| `RouteSearchProofs!ExactIsSound`, `ExactFindsTheOptimum` | `[]ExactHeld`, `[]ExactIsOptimal` | inductive with `SearchHeld` |
| `RouteSearchProofs!AnswersAreScheduled` | `[]AnswerIsTheSchedule` | `SearchHeld`, `ExactHeld` |
| `PortfolioProofs!StarvationGuardWorks` | `[]NobodyStarves` | `SelectorInvariant`, inductive |
| `PortfolioProofs!SelectionFair` | `SelectionIsFair` | `FairInvariant`, inductive |

**Job store.** `TerminalStateHasPayload` is not inductive: a step that renames
`state.json` to a completed record is only safe if the operation has written
`result.json` before. `OperationPrepared` says so, and more: until `state.json` is
written, the target still follows the record on disk (`MayFollow`), which is what
the mutex is for and what the refinement needs; and the payload files of its job
are those it found and the one its end brings, so that a payload which appears
without its end is the work of the step that interrupts it. `RecordsHaveDirectories` makes
creation start from nothing. Crash and failed write preserve the invariant because
they only forget the operation. `RecoveryIsComplete` needs to know that recovery
is alone (`RecoveryAlone`: only its operations run while the server recovers, and
every job still active is on the list or is the one being failed) and that the
index is behind by the running operation at most (`IndexFollows`).

**Job runner.** `CompletionAgrees` and `TokenMeansCancelled` rest on
`OneRunnerDecides`: until its runner has ended, a job is pending, running or
cancelled; one submitter at most is between creation and spawn; a canceller that is
about to signal has persisted. Every runner step concerns one job, so the other
jobs need no argument. The refinement shows of each write that it moves the record
along the lifecycle (`MovesAlong`), together with the payload of its end, or that
it failed and left the payload alone.

* Limits: permits plus the runners that own one are `MaxConcurrent`
  (`PermitsCounted`), admissions plus admitted submitters plus live runners are
  `MaxOutstanding` (`AdmissionsCounted`), and while no write failed every active
  job is owned by a submitter or a runner (`ActiveIsOwned`). `LimitsHold` compares
  sets of jobs with sets of processes and needs all three.
* Events: a process that announces the end of a job has seen it persisted
  (`AnnouncesRecord`), the process that wrote the end is the only one to announce
  it (`OneAnnouncement`), and a terminal record does not change after it was read.
* Reports: each update a worker reported is still in the channel, or held by the
  runner, or persisted (`ReportsAccounted`), with the position of the runner saying
  which; the channel is empty when the runner joins the worker.

**Event streams.** A stream filters by number, and numbers are given after the record
is read: that this keeps the views in order needs the whole way of an event.
Records only move on (`Reaches`, from the refinement of the lifecycle). An envelope
on its way or sent shows a record its job had, with a number no larger than the
counter (`EnvelopesReached`). Only the runner publishes progress, one event at a time,
and while it does nobody but a canceller writes the record (`HeldIsRecord`), so
progress events are ordered by their numbers (`ProgressOrdered`). For a stream,
`ViewHeld` compares what it has shown with every event of a larger number, on the
channel or still with the runner; `ReadHeld` says that a snapshot whose number was
stable is behind nothing the runner is about to number, unless it is the last one.
The theorem holds with failed reads and writes, while the run bounds them by zero.

**Telemetry.** `TelemetryInvariant` has a part for the file, one for what is lost and
one for each reader. `FileIsOrdered` says that lines stand in the order of the trace and
that the event written next is younger than everything in the file and with a reader:
a cursor can therefore never have passed an event that is still to come. A page is the
selection of the readable lines behind the cursor, written as an enumeration by rank
(`InOrder`), so that no induction over the file is needed: ranks grow with positions and
every rank up to the size is taken (`RanksGrow`, `RanksExhaust`), hence a page that is
cut by the limit misses only what lies behind its last event (`PageFollows`).
`LossIsBounded` is the accounting: a line left open has a failure behind it and has not
yet cost its second event, the one that continues it. A reader's cursor is where it
started or an event it has (`Follows`), also when the stored trace answers for the file,
which happens only to a completed job, whose writer is done (`PollerInvariant`).

**Resource manager.** The holders are any finite set of executions: those of this and of
other jobs. What holds for the manager holds in a solve, because of the refinement by
`SolverOrchestrator`. The counters are sums over the leases. The library's sum is
a recursive function over sets; that it adds or loses exactly the amount of the
lease that comes or goes is shown without induction on data: the set of sizes for
which it fails would have a least element (`WFMin`), which is refuted.
`DeadlineMeansContention` follows: without leases the sums are zero, and a request
that passed validation fits.

**Matrix builder.** A pair below the shared index is answered or with exactly one
worker (`PairsApart`, `NothingIsDropped`), the counter lags the answers by the
workers about to count (`AnswersCounted`), the index overshoots by the workers
that ended (`OvershootBounded`), and the token is cancelled only for a recorded
reason (`StopsAreRecorded`). Together they leave no way for the assembly to find a
missing answer with nothing to report.

**Pipeline.** `CallInvariant` ties the position of a remote call to the job at the
service and to the clock. `RouteInvariant` keeps request, problem, order and
matrix what they were when the route was accepted, and lets the matrix differ
only on the legs queried so far (`LegsHeld`). `OutcomeInvariant` says for every
position of the pipeline what has been reported and what error or response is
held; `OutcomeIsHonest` then follows by cases over the errors a stage can raise.

For the provider, `normalize` keeps every rule under the code of its country
(`NormalizeKeeps`) and the legacy setting writes one rule and no other
(`LegacyKeeps`), so a server that started has every rule the operator wrote
(`SelectorIsConfigured`). The diagnostics publish at most one matching entry of each
specificity (`PublishedEntries`); the highest is the one `resolve` reads
(`PublishedDecides`), and a written rule is always the highest (`WrittenDecides`).

**Solver orchestrator.** `ExecutionInvariant` has four parts. `ExecutionTypes` and
`LeasesCounted` say what the threads and the manager hold. `ReasonIsTrue` says
that the reason a watcher stored has its cause, a cancelled token or a deadline
that passed, and that it is stored before the strategy can return for it.
`LeaseAgrees` ties the position of a strategy to its state at the manager, so that
every way out, a panic included, gives the lease back. `InterruptedProvesNothing`
follows by cases over what `execute_strategy` does with a result. For the end of a
solve, `ThreadsHeld` says who may be in a strategy by what the solving thread waits
for: nobody, the exact solver, the workers of the batch or the last annealing run.

`SelectionHeld` carries the answer. Candidates are final and in registration order,
because whatever the solving thread considers next stands behind `Boundary`
(`CandidatesHeld`); the running best is the first of the best of them (`BestOf`), which
a stable sort then puts first (`SelectIsBest`). `BatchHeld` follows the strategies of a
batch from the queue through the workers to the channel, and says that a worker is left
while some are queued. Two operators needed lemmas of their own, both shown by a least
counterexample: strategies can be sorted by position and the result has all of them
(`OrderExists`, `InOrderSorts`), and the library's fold takes the new candidates one by
one (`FoldExists`, `FoldStepwise`).

**Route search.** The solvers are recursive functions over routes, slots and cells. The
provers cannot use an induction theorem, so each induction refutes a least
counterexample: along a route by position (`VisitInduction`), over the slots by the
distance of the bounds, over the cells by the size of the mask (`RankedInduction`), and
that the recursive functions exist at all is shown by extending and joining partial ones
(`VisitsExist`, `RankedRecursion`).

* One clock. At every visit of every route, simulation and schedule agree about the
  time, the travel and the wait, or both have given up (`ClocksAgree`, `OrdersAgree`); a
  route has no penalty exactly when it can be driven (`PenaltiesAgree`). A route that
  can be driven from a slot can be driven from every earlier one (`EarlierIsFeasible`), so
  the bisection finds the last (`BisectionFinds`).
* Annealing. Every neighbour of a valid order is a valid order
  (`NeighboursAreValid`), `Better` is a strict order (`BetterOrders`), and `BestHeld` carries the
  best route through the loop. A nested evaluation that the token interrupts is the
  only way past it, and the token is set from then on.
* Exact search. Dominance is kept by an extension by the same visit
  (`DominanceExtends`), whatever the waits; a frontier has a dominating member for
  everything offered (`FrontierKeeps`). Hence a cell holds only routes with
  their true times (`CellsAreSound`), and for every route through the cell one that
  dominates it (`CellsAreComplete`), which gives `SearchMeans`: at a given start the search
  finds the best. The same for the earliest finishes (`FeasibleMeans`).
* Latest start. `Bounds` says of the bisection over starts that its lower end keeps the
  target, that no start past its upper end does, and that no route covers more than the
  target (`Limits`). The last is what makes the bisection right under best effort: a
  later start never covers more, so the probe is monotone (`PreservesMeans`,
  `KeptEarlier`). `LatestIsOptimal` compares with every order at every start.

**Arm selector.** `NobodyStarves` is not inductive: two arms that wait equally long
could not both be served in time. Runs return one at a time, so last pulls are
distinct (`PullsDistinct`) and only one arm can reach the limit at once; until all
arms are explored they are pulled in order (`ExploredInOrder`), which needs a limit
of at least the number of other arms; and while an arm runs the others have a run
to spare (`OthersCanWait`).

`SelectionIsFair` has an invariant of its own. Comparing mean rewards by
cross-multiplication is transitive (`RatioOrder`), and a strict order on a finite
set has a minimal member (`MinimalMember`, from the well-foundedness of the natural
numbers, so without an induction of its own): racing therefore keeps its best arm,
removes nothing better than what stays (`RacingIsFair`), and every key that `select`
minimises finds an active arm (`SelectsActive`). Evenness of ROUND_ROBIN is an
invariant of rounds (`InRound`): in each the exploration rule, the starvation rule
and the cursor name the same arm. That needs an exploration ratio of at most a half,
a hypothesis the proof brought to light. Above it, a protected selection leaves the
cursor behind, and with a tight starvation limit the rotation later comes back to an
arm just served: three arms, a ratio of 2/3 and a limit of 3 give 6, 4 and 5 runs
after 15. The default ratio is 0.1. Policy Current (`FirstRound`, `InCycle`) needs
neither hypothesis.

Assumptions on constants: positive stage count, percentage, limits and sequence
bound, a nonempty set of jobs, cancellers that are not jobs; for the resource
manager, finitely many holders and the limits `ResourceManager::new` accepts; for
the builder, finitely many workers; for the orchestrator, finitely many executions
whose requests lie within the limits, and annealing runs that claim no proof, as
`AnnealingStrategy::execute` never does, at least one worker, and no execution in two
places of the registration order; for the arm selector, what
`PortfolioPolicyConfig::validate` accepts; for the pipeline, what the Rust types of
a request and of a provider policy guarantee, and that a provider's travel times are
a matrix of the locations, which `MatrixBuilder` assembles (`CasesAssumption`; the
straight-line matrix is computed, `travel_time_rows`, and a supplied one is validated); for the route search, a
positive number of iterations and what the types of a problem and of a matrix
guarantee (`IsProblem`: natural numbers, a start within the day, at least one location),
and not that hours are in order or that the triangle inequality holds. TLC evaluates them
in every run.

Only model-checked:

* liveness, outside the prover's reach: `JobsEnd`, `StreamsEnd` but for its safety
  part, `BuildEnds` but for its action part, `PipelineEnds`, `SearchEnds`,
  `FollowersFinish`, `SolveEnds` but for its invariant;
* `AdviceHolds`, which sorts and folds over suggestions and runs the exact solver;
* `InitialRoutesAreTours`: minimality of tree and matching and the tours are compared
  with reference definitions over the enumerated problems. No other theorem depends on it,
  since the annealing search tests the initial route and replaces an invalid one.

## 6. Disagreements between code and documentation

* `announced_end_is_delivered`: a cancel handler takes sequence number n, the
  runner takes n + 1 for a progress event and sends it first; the stream's cursor
  then skips the terminal event. `docs/api.md:500-503` promises one terminal event.

Observed while modelling, without a run of its own:

* A crash after `result.json` and before `state.json` makes recovery write
  `error.json` beside the result (`src/storage.rs:526`). The snapshot of that job has
  both, which `docs/api.md:524-527` excludes and the assertion in `sse_event`
  (`src/http/handlers/events.rs:217`) refuses. Likewise a failed write of
  `state.json` leaves a running job, later perhaps a cancelled one, with the result.
  `LeaveBehind` is this step in `JobLifecycle`, and `PayloadAsPromised` is the
  documented shape with `failures = 0` in front of its second half, which does not
  hold without.
* Between `create_job` and the registration of the activity (`src/jobs.rs:301-308`)
  a stream finds an active job without a channel, delivers one snapshot and
  closes (`docs/api.md:494`).
* `solver_events` reads a page and then the status: a job that ends in between, or
  whose events exceed a full page, has its stream closed without them.
  `EndedStreamIsHonest` states the exact exemption.
* Two publishers may store their sequence numbers in the opposite order of
  `fetch_add`, so the stored revision stays behind the last one issued
  (`src/jobs.rs:617-620`).
* An exact solver that finds no route is never reported as infeasible by the
  orchestrator.
* A `max_starvation_runs` below the number of the other arms lets the first arms,
  always starved, take every run.
* An annealing search whose token is cancelled after its loop ended by itself
  answers "cancelled" although it holds a route; one interrupted in the loop
  answers with the route.
* The match of country and time zone (`src/api.rs:836-848`) compares the
  upper-case country code without trimming it, while the provider selection trims:
  a padded code is routed as the country and skips the match.
* The exact `START_EARLIER` advice shifts the start by the lateness; when the
  earlier route then waits for an opening, the shift does not arrive at the late
  location, although the advice is marked exact (`src/failure.rs:472-485`).
  `AdviceHolds` exempts that case; without the conjunct `e.violation.wait > 0` the run
  `optimization_pipeline` finds it violated.

## 7. Not modelled, and the plan

Not modelled, with the reason in `PROJECT.json`: LKH3 and SCIP (a child process and
a native library; to the orchestrator they are strategies, which
`StrategyExecution` models with any result), the construction of strategies and
the summaries of finished solves, registry descriptors and displayed counters, the
observation timeline (written by the append that `JsonLines` models, read by its
endpoint only), reading of environment variables, the preview endpoint (a
stateless call around the matrix sources of the pipeline), the alternative
matchings, benchmark tools and the browser testbed. Also left out: floating-point
search quality, the contents of messages and payloads, HTTP and logging plumbing.

What remains is proof: the graph algorithms behind `InitialRoutesAreTours`, and
`AdviceHolds`.
