# TLA+ models of autocodex

autocodex drives the Codex CLI through a loop of phases (ideate, plan, implement,
review, test), one *run* at a time or many in parallel, and records everything in
files under `.autocodex/`. Several processes read and write these files without a
common lock: the process that owns a run, its heartbeat goroutine, the watchdogs of
the API server and of other runs, `autocodex status`, `autocodex kill`, the HTTP API.
These modules state what the files promise and check that the code keeps it.

Source paths below are relative to `src/`.

## Inventory

| Component | State it keeps | Operations | What is hard |
| --- | --- | --- | --- |
| Run files, `internal/state/runs.go`, `control.go` | `run.json`, `control.json`, `run.lock`, `heartbeat.json` per run | SaveRun, SaveRunControl, Set/ClearRunChildPID, Acquire/ReleaseRunLock, TouchRunHeartbeat | read-modify-write by several processes; a crash between two files |
| Orchestrator, `internal/orchestrator` | position in the loop, iterations, failures | Run, shouldStop, finalizeRun, heartbeatLoop | stop conditions, deferred calls, a second goroutine that writes the heartbeat |
| Stale-run finalizer, `internal/state/finalize.go`, `internal/api/watchdog.go`, `cmd/autocodex/cmd_status.go` | none | FinalizeStaleRuns, FinalizeRun | four reads at four instants, then three writes; several finalizers at once |
| Control requests, `internal/api/handlers_runs.go`, `cmd/autocodex/cmd_control.go` | none | POST /runs/{id}/control, kill | write back what was read earlier; signal or finalize by a lock read earlier |
| Codex runner, `internal/codex/runner.go` | the child process, last activity, follow-up mark | Exec | child exit, deadline, idle timeout, settled output and follow-up race in one select loop |
| Autonomy, `internal/autonomy` | bead statuses (in `bd`), fix attempts, the worker pool | Controller.Run, runCoordinator, applyActions, createBeads, createFixBead | workers, fail-fast cancellation, gates, partial failure of `bd` calls, retries across runs |
| Terminal sessions, `internal/terminal`, `internal/api/terminal.go` | output buffer, subscribers, attached flag | Create, Subscribe, TryAttach, Close, wait, stream | stream, wait and attach race on the subscriber set |
| Snapshots, resume, cleanup, `internal/state/snapshots.go`, `cleanup.go` | snapshot files | CreateSnapshot, CleanupRuns, DeleteRun | byte budget; crash between content and record; deletion of a run in use |
| Plugin host, `internal/plugins` | one plugin process per call | Discover, Host.Call | late, wrong or missing answers; reaping the process |
| Events, artifacts, memory, feedback | append-only or best-effort files | AppendEvent, writeArtifact, gatherFeedback ... | the byte budget; files that are deleted meanwhile |
| Generation of spec, plan, tasks, `internal/autonomy/generator.go`, `tasks.go`, `bead_prefix.go` | output files, the tasks | generateSpecAndPlan, generateTasksFile, normalizeTasksFile, createBeads | retries and fallbacks, stale output files, names normalised more than once |
| Configuration; hub; API routing; command line; skills; logging | - | sequential | - |

### How the components meet

A CLI process loads the configuration, starts a watchdog goroutine when
`max_heartbeat_seconds` is set (`cmd/autocodex/cmd_init_run.go:196-205`) and calls either
the autonomy controller or the orchestrator. The controller calls the orchestrator once
per bead, the coordinator in several goroutines at once. The orchestrator calls the codex
runner once per phase; the runner reports the child's pid back, which lands in
`control.json` and `heartbeat.json`. Everybody else sees a run only through its files.

### What makes each component correct

* Run files and their writers: a run that its owner can still finish is closed by nobody
  else, and an outcome is not taken back, unless a kill comes before the owner has its lock;
  a run whose owner died, or could not write `run.json`, is closed by somebody.
* Orchestrator: the loop respects its limits and always ends; `Run` leaves an outcome in
  `run.json` unless it cannot write that file, where two of its exits leave "running" there
  (`orchestrator.go:49-51`, `187-189`).
* Autonomy: every ready bead of a round is worked on once or its omission is reported;
  a gate that fails keeps its bead open; the pool ends, and so does the loop unless its
  agents renew its work for ever.
* Runner: `Exec` returns, with the child reaped, and success only when the child
  succeeded or its final output was complete.
* Terminal: a client sees the output in order and without gaps unless it is too slow, no
  closed channel is used, and every subscription ends.
* Snapshots: what is listed is whole, and a budget cuts the end off and nothing else;
  cleanup deletes only runs that nobody writes any more.
* Plugin host: a call ends with its timeout, and neither process nor goroutine stays. The code
  keeps this but for a process that the plugin leaves behind (`plugin_timeout`).
* Generation: a fallback replaces a list only for what the calls for it came to, and the
  names of the tasks reach `bd` as they were meant.

## Modules

| Module | Models | State and actions |
| --- | --- | --- |
| `RunOutcome` | what the files promise about one run: the status, what became of its owner, and the two events that void a part of the promise | `Begin`, `Hold`, `Finish`, `Leave`, `Refuse`, `Die`, `Close`; `Contest`, `Resume`, `Lose` |
| `RunLifecycle` | one run: the orchestrator, its heartbeat goroutine, finalizers, API requests, kills, crashes, time | one action per file operation or branch of the code |
| `MCRunLifecycle` | fairness, the properties only TLC checks | - |
| `BeadWork` | what becomes of one bead: its run, the answer of its agent, gates, fix beads, attempts | one action per `bd` call or decision of `runBeadOnce` and of the body of the controller's loop |
| `BeadLoop` | the controller without a coordinator, its crashes and restarts | extends `BeadWork` by creating the planned beads, selecting, limits, the next hint |
| `Batch` | what the coordinator promises about the beads of a round | `Offer`, `Take`, `Drop`, `Start`, `End`, `Conclude`, `Decline` |
| `BeadPool` | the coordinator: channel, workers, error list, cancellation | extends `BeadWork` by `runCoordinator` and `runParallelBeads` |
| `MCBeadLoop`, `MCBeadPool` | instances, answers, configurations, fairness | - |
| `CodexCall` | what the runner promises about one call | `Launch`, `Refuse`, `End`, `Rest`, `Return` |
| `Runner` | `Runner.Exec`: the select loop, the goroutines of the pipes and of `Wait`, the child, the clocks | one action per case of the select, read, or move of the child |
| `Terminal` | one terminal session: stream, filter, buffer, wait, websocket handlers and their writers | one action per critical section or blocking call |
| `LimitedText` | the limit writer and `gatherFeedback` as operators | - |
| `RunArchive` | a run's files under `snapshot`, `resume`, `cleanup`, a kill or finalizer, and its owner | one action per file operation of a command |
| `PluginHost` | discovery and one `Host.Call` with its plugin | one action per step of `Call`, of the reader, of the plugin |
| `Generation` | `generateSpecAndPlan`, `generateTasksFile`, `createBeads` | one action per call of codex or `bd`, and per decision about an output |
| `Services` | the last three in one module, for the run and the theorems about them | - |
| `MCRunner`, `MCTerminal`, `MCServices` | instances and fairness; `MCServices` runs the three of `Services` side by side | - |
| `RunLifecycleProofs`, `RunnerProofs` | theorems about `RunLifecycle`, `Runner` | - |
| `BeadWorkProofs`, `BeadPoolProofs`, `BeadLoopProofs` | lemmas about `BeadWork`, theorems about the two modules that extend it | - |
| `FilterProofs`, `TerminalProofs` | lemmas about the filter of `Terminal`, theorems about the session | - |
| `ServicesProofs` | theorems about `RunArchive` with `LimitedText`, `PluginHost`, `Generation` | - |

### RunLifecycle

`runStatus`, `control`, `lock`, `hbChild` are the four files. `age` counts the ticks since
the run started (`StartedAt`, which is what the finalizer compares) and since
`control.json` and `heartbeat.json` were stamped. `pc` is the position in
`Orchestrator.Run`; `draft`, `touched`, `outcome`, `iter`, `pos`, `fails` are its locals;
`hpc` and `htouched` those of `heartbeatLoop`. `agent[a]` holds position and locals of one
finalizer, one API request or one kill. `children` are the codex processes that live.

One read or one write of a file is one action, so every interleaving of the file
operations of the processes is explored; a `Crash` of the owner may come between any two.
`SaveRunControl` is two actions (it reads the old record to inherit the pid, then writes),
`SetRunChildPID` and `ClearRunChildPID` three (read and change, write, heartbeat),
`FinalizeRun` four, a scan four reads and a decision.

Abstractions, and why they are sound here:

* `GetRun` and `ListRuns` read `run.json` and `control.json` in one step. `mergeRunControl`
  prefers a terminal `run.json`, so the result is what one of the two instants gives.
* `os.WriteFile` and `os.ReadFile` are atomic. A torn file is listed as a hazard.
* A write of `run.json` may fail (`SavesFail`) and leaves the file as it was; a full disk may
  truncate it instead. Where the code returns the error, so does the model: `SaveConfig`,
  `BeginPhase`, `FinalizeFails`; elsewhere it goes on. `AcquireRunLock` may fail as well.
  Failing writes of `control.json` and `heartbeat.json`, whose errors the orchestrator ignores,
  are left out, and so is a failing `CreateRun`, which makes no run.
* No tick of the clock falls into `Brief` stretches of a live owner or between a stamp and
  its write: the start of a run up to its first control record, a record between its stamp
  and its write, the two writes that record a failed phase. These are a handful of file
  operations; a threshold is tens of seconds. If such a stretch could stall for the whole
  threshold while an API request overwrites the record, `StaleOnlyAfterCrash` would fail
  between lines 415 and 431 of `orchestrator.go`.
* SIGTERM ends the owner some steps after `KillSignal`, as a `Crash` or after its `Exit`; a kill
  whose signal arrives late is one more interleaving of the crash.
* A pid is the number of the iteration that started the child, so pids are not reused.
* Whether the review guardrail skips a phase, whether a phase succeeds, and whether a time
  limit has been reached are free choices.
* Feedback, artifacts, memory summaries and the event log are left out: no decision reads
  them.

`MaxScan` bounds the ticks one `FinalizeStaleRuns` may last; ages are capped at
`Threshold + MaxScan`, beyond which no comparison tells them apart. `MaxRequests` bounds how
often posters and killers ask.

Two history variables, which no action reads, name what the properties except:

* `contested`: a kill looked for the lock while its owner was alive and had not acquired it. The
  code has no guard against this: a run is listed as soon as `CreateRun` has written `run.json`
  (`runs.go:57`). Such a kill finalizes the run, the owner's next `SaveRun`
  (`orchestrator.go:187`) takes the outcome back, and `ReleaseRunLock` removes the lock the owner
  has made meanwhile. `lifecycle_requests` reaches all of this. Of kill, `docs/CLI.md:190` only
  says "Request a run stop/kill.", so it is no finding.
* `unsaved`: a `SaveRun` of the owner has failed. `Run` may then return with `run.json` still
  "running" and the lock released, and a finalizer closes the run (`CrashedRunIsClosed`).

### BeadWork, BeadLoop, BeadPool

`status` and `needs` are the state of `bd`, `attempts` is the fix-attempt tracker, `work[w]`
what one worker does: the bead it holds, the answer it read, the `bd` calls it still has to
make, whether the gate failed (`gateFailure`), whether somebody decided about the bead
(`updatedCurrent`). The controller's loop is the one worker `Me`; the pool has a worker per
goroutine. In `BeadPool`, `round[got + 1 .. sent]` is the content of `beadCh`, `errs` is
`errList`, `canceled` the context that `fail_fast` cancels. `RunFails`, `RunEnds`,
`RunIsCut` are the three ways `orch.Run` returns; the run between them is `RunLifecycle`.
The loop does not have `RunIsCut`: its context is the background context and is never canceled.

Abstractions:

* One `bd` call is one step (`runBD` holds `bdMutex`). `bdMu` of the coordinator adds
  nothing to that but that two `createFixBead` do not overlap; these touch different beads.
* An answer is a record of what decisions read: updates, gates, evidence, new beads, next,
  stop. `Answers` says which answers the agent of a bead may give; a run may also leave no
  readable ACTIONS block. `require_actions` with an unreadable block marks the bead twice in
  the code, once here.
* A run that a control request stops or cancels returns no error, and its artifacts are
  read like those of any other: the code does not look at `run.Status`. It is `RunEnds`.
* Priorities and ids are left out: a listing may have any order.
* A bead has one fix bead (one reason), and a fix bead has none (`FixOf`). That bounds the
  beads that the loop creates for its own failures; in the code the id of a fix bead is a
  hash of parent and reason.
* `max_fix_attempts` is at least 1, which `ApplyDefaults` ensures. `bd` is installed.
  A task does not depend on itself (`createBeads` skips that).
* Every process has a plan of its own (`Begin` chooses from `Plans`), as `Controller.Run` has
  spec, plan and tasks written anew at every start (`controller.go:47-66`, of which
  `cmd_init_run.go:94` warns). It may plan beads that exist, which only rewrites their
  description. `planned` is a history variable: the dependencies of the plans that a process
  has created in full. The generation itself is `Generation`.
* The configuration is chosen in `Init`, so that one run covers several. `faults` allows
  `bd` calls to fail; in configurations without it only updates of unknown beads fail.
* `tries` in `BeadLoop` is a history variable of `RetriesCapped`. `MaxStarts` bounds the
  processes started one after the other; beads are reopened by people in between.

`Increment`, `Reset` and `Load` are the tracker of fix attempts: one map per process, written
to its file at every change under a mutex, so that map and file are one variable.

### Runner, CodexCall

`pc` is the position in `Exec`; `branch` the case of the select that left the loop;
`settled`, `idled`, `marked` are `terminatedForOutput`, `idleTimeoutTriggered`,
`needsFollowUp`; `seen` and `stable` are `lastModTime` and the time since
`outputStableSince`, `quiet` the time since `lastActivity`. A pipe is a sequence of pieces; the
follow-up marker is two pieces, because `copyWithActivity` looks for it in one read only.
`WaitReturns` may come before the readers have read all: `cmd.Wait` closes the pipes, which is
what `os/exec` warns of and this code does (`runner.go:172`). `SelectTick` has the three
reasons to kill the child in the order of the code; every kill is one step.

Abstractions: time is in ticks, a scale of the model (`Settle`, `FollowUpIdle`, the idle timeout are
constants of two or three ticks, where the code has `outputSettle`, 8 s, and others),
and durations beyond `Horizon` are not told apart, which no constant exceeds (`HorizonIsFar`). A
tick of the clock and a tick of the 500 ms ticker come in any order. The output file has versions instead of times of modification;
it is never empty. `MaxWrites` and `MaxSaves` bound what the child does.

`CallKept` is the refinement of `CodexCall` that `RunLifecycle` relies on when it treats a call
as a start and an end: the call returns when the child is reaped and not before.

### Terminal

`output`, `subs`, `attached`, `status` are the fields of `Session`, `pending` that of the filter;
`stream`, `waiter`, `handler[c]`, `writer[c]` are the positions of the goroutines; `queue[c]` is
the content of the channel of client `c`, `closed` the channels that are closed. `shown`, `missed`
are history variables. `s.mu` is held by `wait` until the subscribers are closed (`Mutex`); each
section under `outputMu` or `subsMu` is one step. `Create` and `Close` are the manager's,
`PostSession` and `DeleteSession` the handlers that call them.

Abstractions: the process writes a given text byte by byte and may stop anywhere; the filter
works on these bytes, as its property is about them. Input, resizing and exit codes are left
out. A client that left may take writes for a while, and any later write may fail. Sessions
share nothing but the manager's map, so there is one.

### RunArchive, LimitedText

`run` is `run.json`, `log` the event log, `dirs` the subdirectories that exist, `arts`, `content`,
`record` what is in them. The owner appends and saves as `RunLifecycle` says, as far as these
files are concerned; without the directory its lock and its `SaveRun` fail and `Run` returns.
`killer` is a kill or a finalizer of stale runs between the read of `run.json` and the write back
(`KillReads`, `KillSaves`), `early` the history of one that found no lock of a live
owner. `cmd` is the position of one `snapshot`, `resume` or POST `/runs/{id}/snapshots`; `w` is its limit writer, `whole` the same without a limit (a history
variable); `cleaner` the position of one `cleanup`. Both may be interrupted at any step.

A text is a sequence of bytes that name the piece they belong to, so that the budget cuts real
bytes; `Put` is the closure `appendWithLimit`, with the result that ends its callers' loops.
`GatherFeedback` follows `gatherFeedback` with its early returns; `Ending` is the new line after an
inline text, or the line that names its file.

Abstractions: `os.RemoveAll` reads the entries once and removes a subdirectory in one step; memory
documents do not change; a new run has `NewEvents` events and no artifacts when its first prompt
is built; a snapshot has one id. Texts of the records are left out. A memory document has a
heading of one byte in a snapshot, so that an empty one shows as well.

### PluginHost

`named` and `others` are the manifests `Discover` loads; `ctx` the context with its timeout, 60 s
when none is configured; `reader` the goroutine of `readLine`, `line` what it sent; `heir` a process
that the plugin started and that keeps its pipes open. The plugin may write any lines, exit, or
do nothing; a request that does not fit the pipe (`large`) may block the write until the plugin
reads or ends. `Return` needs `heir` to be gone: `cmd.Wait` waits for the copy of stderr.
`FairSpec` is the specification of `plugin_timeout`.

### Generation

A name is the sequence of its segments between dashes, so that trimming and prefixing are what
they are in the code. `files` are the output files, which stay as an earlier call left them, and
`out` what the last call printed; `ResolveOutput` prefers the file. What a call of codex prints
is one of a few kinds (nothing, prose, a list that breaks the schema, one without tasks, one with
tasks); which list, `Plans` says. `replies` is a history variable: what each call for tasks came
to, an error or a kind of output. A task without a name ends `createBeads` with an error. `step` is
the position in the two loops of `createBeads`. The dependencies of a task are a set: their order and repetitions reach `bd`, but no decision.

Abstractions: prompts, slugs, run tags and the copies of invalid outputs; the beads are new; bd is
asked for the prefix once. A configured plan is not empty, and a segment holds no dash
(`GenerationConfig`).

A definition named `X_Word` is a planted bug: put in the place of `X` it must break the
property that `PROJECT.json` names for it.

## What the runs check

| Run | Instance | Properties |
| --- | --- | --- |
| `lifecycle_requests` | bounded run of one phase, one finalizer, one client that once posts stop or runs `autocodex kill`, a context that may be canceled, failing writes of `run.json` | `StaleOnlyAfterCrash`, `LockCoversRun`, `OutcomeKept` |
| `lifecycle_live` | continuous run, two phases, two iterations, two tolerated failures, time limits, failing writes of `run.json`, one finalizer, fairness | `TypeOK`, `RecordedChildKeepsRun`, `CrashedRunIsClosed`, `RunReturns` |
| `lifecycle_orphan` | as `lifecycle_requests` without the client and the cancellation | violates `LiveChildKeepsRun` |
| `pool` | rounds of two out of three beads, up to two workers, five configurations | `TypeOK`, `GatedIsOpen`, `OkMeansDecided`, `BatchKept`, `PoolReturns` |
| `loop` | two starts, each with one of two plans (two beads with a dependency; the second of them alone), one more bead that agents create, a fix bead, six configurations | `TypeOK`, `GatedIsOpen`, `RetriesCapped`, `NothingStranded`, `DependenciesFirst`, `LoopReturns` |
| `pool_fail_fast` | as `pool`, `fail_fast: true`, `require_actions: false` | violates `CutStaysOpen` |
| `loop_deadlock` | as `loop`, one start, the first plan, `stop_on_gate_failure: false` | violates `CompleteLeavesNoneOpen` |
| `runner` | three configurations (no idle timeout with and without output file, the latter old; idle timeout and a new file), two writes, two saves | `TypeOK`, `CallKept`, `ExecReturns` |
| `runner_stale` | as `runner` | violates `OutputIsOfThisCall` |
| `terminal` | two clients, one connection each, three texts, reads of one or two bytes, a buffer of two bytes, channels of one chunk | `TypeOK`, `BufferIsTail`, `InOrder`, `ChannelsOpen`, `SessionEnds` |
| `services` | an archive with four settings of limits and modes, two memory documents of which one is empty, two events, two artifacts; the same with one setting, kills and a failing owner; a plugin that writes up to three lines; plans of two tasks with five names and eight lists of dependencies, and one with a task without a name; three prefixes | `TypesOK`, `SnapshotsAreWhole`, `CutAtBudget`, `FallbackHasReason`, `PlanArrives`, `DeletedStaysDeleted`, `CallEnds` |

* `StaleOnlyAfterCrash`: a finalizer writes only to a run whose process died in the middle, or
  whose `Run` returned unable to write `run.json` (unless an early kill has contested the run).
  This is delicate: a run that ends during a scan has no lock any more when the finalizer
  looks, and its heartbeat may be old. What saves it is that its last control record is
  newer than the scan's clock, and that `control.json` is read last.
* `LockCoversRun`: neither a finalizer nor a kill removes the lock of a live owner, unless the
  kill looked for it before it was there.
* `RecordedChildKeepsRun`: a child whose pid was recorded protects its run, even if its
  owner is dead and the heartbeat goroutine has overwritten the pid in the heartbeat. It is not
  true of every run: a control request that read `control.json` before `SetRunChildPID` and writes
  it back afterwards wipes the pid (`control.go:109`, a hazard). `lifecycle_live` has no
  request, and the theorem assumes none of that kind (`NoPidIsOverwritten`).
* `OutcomeKept`: the refinement of `RunOutcome`. Without an early kill and a failed write it says
  that an outcome is never taken back, that nobody but the owner writes one while the owner can,
  and that the owner leaves none out. `Contest` and `Lose` say what the two events void: after
  the first, closer and owner may write over each other; after the second, the owner may
  leave without an outcome.
* `CrashedRunIsClosed`: whatever step the owner dies at, and whichever exit `Run` takes, every
  reader sees the run ended in the end and ever after. `RunReturns`: `Run` returns unless its
  process dies, with an outcome unless a write failed.
* `LiveChildKeepsRun` is the statement of `docs/specs/review-phase-stability.md:45`; the
  counterexample is a crash between `cmd.Start` and `SetRunChildPID`.

* `GatedIsOpen`: a bead whose gate failed is blocked or in review when the fix bead is
  created and the failure counted, although its own agent may have asked to close it and the
  order of the calls decides which wins.
* `BatchKept`: the pool implements `Batch`. No bead is worked on twice in a phase; one that is
  left in the channel or dropped after a cancellation implies an error of the coordinator.
* `OkMeansDecided`: a round without an error leaves no bead of it as it was listed.
* `RetriesCapped`: counts the runs of a bead between two gates that hold, in one process;
  agents may reopen each other's beads meanwhile.
* `NothingStranded`: a process that ends because nothing is ready or `max_beads` is reached leaves
  no bead in progress. One that an agent asks to stop returns without an error and with its bead
  in progress (`controller.go:206-211`, before the bead is marked done), and so may one that fails
  or dies; what is checked there is that it leaves that bead and no second one. It is stated for
  the first process, as a later one inherits what it left, and for calls of `bd` that succeed.
* `DependenciesFirst`: in every plan that some process has created in full, also when a later
  process works from another plan. A plan that was cut off between creating and linking its
  beads is not covered: the next process has a new plan, nobody links the old beads, and they
  may be started too early, which the model reaches.
* `PoolReturns`: liveness. `LoopReturns`: with `max_beads` the loop returns. Without it, it returns
  if beads are closed when done (`beads.auto_update`) and from some time on no bead is added and
  no answer whose gates hold opens one. In `loop`, agents may do the latter for ever: an agent that
  passes its gates and reopens its own bead keeps the loop going (`controller.go:202-216`), as
  does one that adds beads, of which the model has finitely many.
* `CutStaysOpen` states `docs/config/README.md:152`, `CompleteLeavesNoneOpen` states
  `docs/plans/autocodex-autonomy-loop.md:11` and `:72`. The first counterexample: worker 1
  passes its context check, worker 2 fails and cancels, the run of worker 1 is canceled before
  its first phase, and its bead is closed as done. The second: the gate of a bead fails, the
  fix bead depends on the blocked bead, nothing is ready, the loop reports completion.

* `CallKept`: the refinement of `CodexCall`. A success means that the child ended with 0 or that
  nobody had touched its output file for the time to settle, whichever of the four cases of the
  select came first, and that the child is reaped.
* `ExecReturns`: liveness; a child that ignores its pipes, hangs after it asked for follow-up, or
  goes on after its context is done does not keep the call.
* `OutputIsOfThisCall` states `docs/config/README.md:48`. The counterexample: the file of an earlier
  iteration exists, the child is quiet for the time to settle, is killed after `outputSettle` (8 s, two
  ticks of the model), and the call succeeds without a message of its own.
* `BufferIsTail`: the filter against a reference definition for every way to cut the output into
  reads. `Shows` says which bytes of the text a client is to see, namely all outside queries and
  responses; `Queries` how many are to be answered; `Withheld` that the filter holds back only what
  may be the beginning of one. The buffer holds exactly the last bytes of what passed.
* `InOrder`: a client gets snapshot and chunks in order and, unless a chunk was dropped for it,
  without a gap from the first chunk on. Between `OutputSnapshot` and `Subscribe` there may be a
  gap (`internal/api/terminal.go:197-201`), and the first chunk may repeat the end of the snapshot:
  the model reaches both, and no document says otherwise. `b` and `p` are the places in the output
  where the snapshot and the chunks lie.
* `ChannelsOpen`: nobody sends on a closed channel or closes it twice, although four goroutines
  close channels; `SessionEnds`: liveness of session and handlers.
* `SnapshotsAreWhole`: a listed snapshot has its content, of the recorded size, and the manifest
  counts the items that show in it and at most one more per source, the one that did not fit;
  broken only by a deletion that has begun.
* `CutAtBudget`: the text under a budget is the beginning of the text without one, for snapshots and
  for the feedback of a resumed run. The record of a feedback whose budget ends at a heading says
  0 bytes (`feedback.go:70-93`, early returns before `meta.Bytes` is set); the property names the
  case and says that it happens only with the budget used up.
* `DeletedStaysDeleted`: of a run deleted for its age, run.json does not come back, although
  snapshot, resume, its owner and kills go on. Two cases in which the code brings it back are left
  out by name, and the model reaches both: a kill or finalizer that has read `run.json` before it
  is removed and writes it back after (`finalize.go:19-36`, for runs of any status), and the owner
  of a run that was killed before it had its lock. With `--run` a live owner saves its run again.
* `CallEnds`: every call returns after its timeout at the latest, and so does the goroutine of a
  line nobody waits for; except for a process that the plugin left behind. `EveryCallReturns`
  states `docs/contracts/plugin-protocol.md:57-58` without that exception. Its counterexample: the
  plugin starts a process, the context ends, the plugin is killed and reaped, and the deferred
  `Wait` (`host.go:64`) waits for the copy of stderr, which that process keeps open.
* `FallbackHasReason`: what the calls for tasks came to decides whether the fallback is written. A
  usable list is never replaced; two replies without JSON or a broken schema need
  `allow_fallback_tasks`. After a follow-up in the second call the fallback is written although
  that is false (`tasks.go:98,121`), also when the first reply was invalid JSON (`tasks.go:118-122`).
  `docs/config/README.md:143`, "when task JSON is invalid, allow writing a fallback tasks file",
  can be read to forbid this; the property names the case.
* `PlanArrives`: tasks named as the prompt asks keep their names, dependencies named with or without
  the prefix reach the bead meant, and a plan that names only its own tasks is never refused. Two
  limits came out of the proof: a short name with a dash is taken to have another prefix, which is
  cut off (`applyBeadPrefix`), and a name with two dashes in a row may lose one (`normalizeBeadID`).

`services` is four state spaces in one run: `service` picks one, and the others rest in an initial
state. The archive is two of them: "archive" with all settings, an owner that has its lock and does
not fail, and no kill; "kill" with kills, a failing owner and one setting, without artifacts and
resume, none of which matters to what a kill writes.

Two clients with a connection each meet all steps of one another's handlers, as at most one is
attached; a channel of one chunk is full after one; a buffer of two bytes overflows with three.
The texts hold a query and a response, whole, and the beginning of one. Three lines are a
handshake, an answer, and one nobody reads. Budgets of 3 and 6 bytes end in a heading, a document,
an artifact or the closing of a list.

Two beads and two workers are enough for one worker to cancel while the other is at any of
its steps, and for one answer to touch the bead of the other. With `require_next` one
worker is left, and a cancellation leaves beads in the channel. Two starts are enough for a
process to find what a crashed or failed one left behind.

One finalizer is enough to meet all its interleavings with the owner. A finalizer and a
kill meet in `lifecycle_requests`, where both may close the run; one request is enough for a stale
record, and one kill for each place of the run. `Threshold` and `MaxScan` are
one tick: a file is either fresh or old, and a scan either sees the clock move or not.
The theorems below hold for every value of these constants.

Fairness (`MCRunLifecycle`): the owner's code runs on unless its process dies; the
heartbeat goroutine runs; the child of a codex call ends (a phase has a deadline,
`orchestrator.go:307`, and an orphan ends by itself); runs are scanned again and again (the
watchdog's ticker, `internal/api/watchdog.go:24`); time passes; and a finalizer that tries to
write `run.json` again and again succeeds in the end (strong fairness of `FinalizeSaveRun`: a
full disk is not full for ever). Crashes, cancellations,
requests and kills are never forced. `CHECK_DEADLOCK` stays on: agents and time go on
after the run.

Fairness of the autonomy: the controller's process, the coordinator and each worker run on;
an orchestrator run ends, which is `RunReturns`; `bd` calls return. No branch is forced. After
the end, `Over` and `Rest` stutter, so deadlock is checked here too: the pool never waits for
a worker that has left.

Fairness of the runner and the terminal: their goroutines run on, and time passes; neither the
child, the process of the terminal nor a client has to do anything. Fairness of the plugin host:
the host runs on and its timer fires; the plugin and what it started do as they like. `services`
turns deadlock checking off, because its services end.

## What is proved

Every theorem holds for all values of the constants that satisfy the named assumptions of its
module; TLC evaluates these assumptions on every run. Each proof rests on an inductive
invariant. TLC has checked those that stand at the end of a model's module on the instances of the
runs; those in `ServicesProofs` range over all texts and names, and are only proved.

### RunLifecycle

Assumed: agents of different kinds are different, limits are natural numbers, the threshold is
positive, actions are those `validAction` accepts.

| Theorem | Statement |
| --- | --- |
| `TypesAreKept` | `Spec => []TypeOK` |
| `InductiveIsKept` | `Spec => []Inductive` |
| `StaleRunsCrashed` | `Spec => []StaleOnlyAfterCrash` |
| `LockIsKept` | `Spec => []LockCoversRun` |
| `OutcomeIsKept` | `Spec => OutcomeKept` |
| `RecordedChildrenKeepRuns` | `Spec /\ []NoPidIsOverwritten => []RecordedChildKeepsRun` |

`StaleOnlyAfterCrash` says nothing about a scan that is under way, so it is not inductive.
`ScansAreSafe` adds what a scan that may still decide against the run knows: it began after the
start of the run; if it saw no lock, the owner is away; and if the owner came to its end
meanwhile, then the control record was stamped after the scan began, which `Decide` will notice
because it reads that record last. `ClosersComeLate` says that whoever closes the run, kills
included, does so when the owner is away. Each conjunct that an early kill or a failed write of
`run.json` breaks says so (`~contested`, `~unsaved`); nothing keeps kills or failures out of the
specification. `StatusFollowsOwner`
and `ShortStretches` tie `run.json` and the ages to the position of the owner. `TypeInv` adds
that drafts are records and that iterations follow the phase list.

`RecordedChildrenKeepRuns` needs `ChildIsRecorded`: from `SetRunChildPID` on, the control record
names the child, and so does every draft that will replace it, as whoever writes one has read it
when the owner was away. A control request need not have: without the hypothesis
`NoPidIsOverwritten` TLC finds the property violated when one request that resumes the run is
added to `lifecycle_live`.

`OutcomeIsKept`: most steps of the owner map to `Finish`, `Leave` or a stutter of `RunOutcome`;
`KillCheck` without a lock to `Contest`, a failed write to `Lose`, `FinalizeSaveRun` to `Close`, and
a `SaveRun` that takes an outcome back to `Resume`, which needs a contested run.

### BeadPool, BeadLoop

Assumed: `WorkConfig`, `LoopConfig`, `PoolWorkers` (the configurations, answers and plans are of
their types; `max_fix_attempts` is positive; `Me` is the one worker of the loop, and the pool has a
place for as many workers as there are beads, which is what `maxParallel` is cut to).

| Theorem | Statement |
| --- | --- |
| `BeadPoolProofs!TypesKept` | `Spec => []TypeOK` |
| `CoordinatorImplementsBatch` | `Spec => BatchKept` |
| `OkRoundsAreDecided` | `NoReopening` implies `Spec => []OkMeansDecided` |
| `BeadPoolProofs!FailedGatesStayOpen` | `OwnBeads` implies `Spec => []GatedIsOpen` |
| `BeadLoopProofs!TypesKept` | `Spec => []TypeOK` |
| `BeadLoopProofs!FailedGatesStayOpen` | `Spec => []GatedIsOpen` |
| `RetriesAreCapped` | `Spec => []RetriesCapped` |
| `PlanOrderKept` | `Spec => DependenciesFirst` |
| `NothingIsStranded` | `NoneTaken` implies `Spec => []NothingStranded` |

`PoolInv`: different workers hold different beads of the round, all received from the channel;
which stage of its call a worker is at decides what a cancellation and the list of errors say;
and no worker leaves while the channel is open unless the context is canceled. `NothingSlips`
adds that every bead received is decided, or its worker still has it and the call that decides
it on its list. `GatesMarked` and `GateKept` say that behind a failed gate the call that marks
the bead is on the list after every call that might close it.

`LoopInv`: attempts and `tries` of a bead differ only while its worker is between a run and its
count (`RunsAreCounted`); the dependencies of the process's plan are in `bd`, or the calls that add them
are ahead of the next selection, and those of `planned` stay in `bd` (`PlanIsLinked`).
`NoneStranded` adds for the first process that only the bead in hand may be in progress, and where
the worker has decided about it, not even that.

The three hypotheses are about agents, which may answer anything: that none sets a bead back to
`open` (`NoReopening`), none answers for a bead of another worker (`OwnBeads`), none sets a bead
to `in_progress` (`NoneTaken`). Without them the properties are false, and so the sets `Answers`
of the runs obey them where a run checks the property.

### Runner

Assumed: `HorizonIsFar`, `DurationsAreTicks`, `BoundsAreNatural`, `OptionsAreConfigurations`.

| Theorem | Statement |
| --- | --- |
| `TypesKept` | `Spec => []TypeOK` |
| `ExecImplementsCall` | `Spec => CallKept` |

`RunnerInv`: `Positions` ties the branch that left the select loop to the flags, the child and
the goroutines; `OutputRests` says that a call that counts its output as settled has seen no newer
file for the time to settle.

### Terminal

Assumed: `SizesArePositive`, `TextsAreSequences`.

| Theorem | Statement |
| --- | --- |
| `TypesKept` | `Spec => []TypeOK` |
| `FilterIsExact` | `Spec => []BufferIsTail` |
| `NoClosedChannel` | `Spec => []ChannelsOpen` |
| `ClientsSeeOrder` | `Spec => []InOrder` |

`TerminalInv`: what the filter has passed so far ends at a `Boundary`, a place of the text that
lies in no query and no response, and what it holds back begins there. `FilterProofs` shows that
one call of the filter leads from a boundary to a boundary, whatever the read. `OrderInv` gives
each client places (`Placed`): its snapshot ends at a place that was the end of the buffer when it
was taken; its chunks lie behind one another, and end before the chunk that the stream has in
hand between buffer and broadcast (`ChunkInHand`).

### RunArchive, PluginHost, Generation

Assumed: `ArchiveConfig`, `HostConfig`, `GenerationConfig` (types of the settings and the plans);
`NoneIsNone`, that the constant `None` is no status, no text and no record.

| Theorem | Statement |
| --- | --- |
| `TypesHold` (with `ArchiveTypesAlways`, `HostTypes`, `GenerationTypes`) | `Spec /\ Host!Spec /\ Gen!Spec => []TypesOK` |
| `DeletionIsFinal` | `Spec => DeletedStaysDeleted` |
| `BudgetCutsTheEnd` | `Spec => []CutAtBudget` |
| `SnapshotsStayWhole` | `Spec => []SnapshotsAreWhole` |
| `FallbackNeedsReason` | `Gen!Spec => []FallbackHasReason` |
| `PlansArrive` | `Gen!Spec => []PlanArrives` |

`DeletionInv`: a run that a deletion by age has chosen has no owner that could save it, unless a
kill came before the lock; and a kill that begins later finds no run. `FallbackInv` ties `replies`
to the position in the generation of tasks, so that the fallback is reached only along the paths
that `FallbackHasReason` lists. `HostInv` ties the result of
a call to the line its reader has sent, and that to the pipe.

`CutAtBudget` follows from a relation between two writers (`Cut`): the limited one holds the first
bytes of the other and has room for the rest of its budget, or is closed. `CutPut`, `CutItem`,
`CutItems`, `CutSection` show that every way to write keeps it, although the limited writer
leaves its loops earlier. `BudgetInv` says it of `w` and `whole`; the feedback goes from
`CutSnapshot` to `CutGathered`.

`SnapshotsAreWhole`: `CountItems` shows for one source that the items that show are those that were
counted, or all of these but the last. `CountInv` says it of all sources, and that a source which
is still to come does not show; `WholeInv` has the order of the two files, and that only a deletion
takes the directory of snapshots away.

`PlanArrives`: `PlanInv` says which beads and edges the two loops of `createBeads` have made so far.
The lemmas on names (`TrimLeaves`, `Prefixed`, `KeptByNormalize`, `NormalizedTasks`) show that a name
that has been normalised once does not change again, though the code does so up to three times.

### Induction over data

The rule of induction of the libraries takes an operator as a parameter, which the installed
provers cannot instantiate. `SetInduction` and `RangeInduction` say the same of a set of numbers
(its complement has no least element), and `Iteration` that a step iterated over a sequence has
the values it should. So the filter of the terminal and the writers are recursive functions, and
their lemmas hold for texts of any length.

### Only model-checked

* The liveness properties `CrashedRunIsClosed`, `RunReturns`, `PoolReturns`, `LoopReturns`,
  `ExecReturns`, `SessionEnds`, `CallEnds`: they rest on fairness and `ENABLED`, out of the
  prover's reach.
* The five runs that expect a violation.
* That `NoPidIsOverwritten`, `NoReopening`, `OwnBeads` and `NoneTaken` are needed: TLC finds a
  counterexample without each of them. That real agents keep to the last three is not shown.

## Plan

Done: every module above, and a theorem for every safety property that a passing run checks. Left:

1. Torn and failing writes of `control.json` in `RunLifecycle`, with the proofs that change.
2. The second process of `NothingStranded`, which may inherit a bead from a crash.
3. The hazards that no property covers, listed with their reasons in `PROJECT.json`.

## Not modelled

* Configuration: sequential defaults and validation; its values are the constants of the modules,
  and its bounds their assumptions.
* API routing, authentication, request ids, logging; the hub, whose workspaces are fixed when
  it starts; read-only endpoints and `status`, which show what they read.
* init, bootstrap, doctor, harness: files written once from templates, checks of the environment.
* Skills, the web front end, the bundled plugins' own work, scripts: no state shared between
  processes beyond what is described above.
* The wording of prompts, memory summaries and events: no decision reads them.
* `bufio.Scanner`'s limit of 64 KB per line, beyond which `ListEvents` fails, and the errors of file
  operations in general, but where the code turns one into an outcome.
