# A TLA+ model of cloudengio/citools

citools is a set of Go programs for CI. Its largest part by far is the **orchestrator**
(`github-runners/orchestrator`): a long-running process that answers GitHub's `workflow_job`
webhooks by acquiring a macOS VM, running an ephemeral self-hosted runner on it and disposing of
the VM, and that shows what it does in a web UI. Beside it are tools that CI scripts call:
`multimod`, `govulnchecker`, `waitforfiles`, `chrome-for-testing`. This directory models the
state and the concurrency of both, model-checks them with TLC and proves most of the safety
properties with TLAPS. Paths below are relative to `github-runners/orchestrator/` unless they
name another directory or program.

## 1. The system

### Components, their state and operations

| Component | State | Operations | Modelled in |
|---|---|---|---|
| workflow event handler (`githubclient/event_handler.go`) | what its goroutines remember between steps | `HandleWebhooks`: `handleQueuedEvent`, `handleInProgressEvent`, `handleCompleted`; `Cancel`; `Close`; `DrainCompletionQueue`; `Subscribe` | `WorkflowHandler`; `Orchestrator` (close, drain); `ChangeSignals` (`Subscribe`); `RunnerConfigs` (match of labels) |
| workflow instances (`githubclient/workflow_instance.go`) | the manager's map from runner name to live instance; an instance's VM and token | `newInstance`, `getInstance`, `deleteInstance`, `AcquireVMAndToken` | `WorkflowHandler` |
| self-hosted runner (`githubclient/self_hosted_runner.go`) | none of its own | `runQueuedJob`: configure, run, extract logs, stop and release, push | `WorkflowHandler` |
| status tracker (`githubclient/status.go`) | a record per runner name | `upsert` with `pruneLocked`; `list`, `get`; `subscribe` | `StatusTracker`, `WebUIRequests`, `ChangeSignals` |
| completion queue (`vmsclient/completion_queue.go`) | two bounded FIFOs of stopped VMs with expiration times | `PushSuccess`, `PushFailure`, the periodic `expiration` scan, `Close` | `CompletionQueue` |
| webhook listener (`githubwebhook/listener.go`) | the channel of the read in flight, the group of handlers | `Listen`, `waitForEvent` (`Stop` is never called) | `Orchestrator` |
| run command (`run_cmd.go`) | where `Run` is | `Run` and its deferred drain and close; its start | `Orchestrator`, `RunnerResources` |
| registration tokens (`githubclient/github_client.go`) | a cached token per repository | `GetRegistrationToken` | `RunnerResources` |
| VM pools (`vmsclient/vmsclient.go`, `tart.go`, `provider.go`, `pool_status.go`) | pools by name; VMs recognised by name prefix | `NewPools`, `Acquire`, `Close`, `Status`, the change signal | `RunnerResources`, `WebUIRequests`, `ChangeSignals` |
| orphaned VM sweep (`vms_cleanup.go`) | none | `sweepOrphanedVMs` | `RunnerResources` |
| configuration (`githubclient/github_config.go`, `config.go`) | none | `Validate`, canonical label sets | `RunnerConfigs` |
| web UI backend and server (`webui_backend.go`, `webui/server.go`) | the published handler, the subscriptions | `SetHandler`, event stream, pools, workflows, cancel, logs | `ChangeSignals`, `WebUIRequests` |
| web UI frontend (`useOrchestrator.ts`) | what is shown, refreshes in flight, a timer | connect, debounce, refresh | `ChangeSignals` over `RefreshedView` |
| `multimod` | where its loops are | commands of actions over modules, concurrent and sequential | `CIChecks` |
| `govulnchecker` | scan level, verdict | the decoding loop, the exit status | `Govulnchecker` |
| `waitforfiles` | a goroutine per file | ticker, deadline, interrupt, exit status | `WaitForFiles` |
| `chrome-for-testing` | the cache on disk, a browser | `install`, `paths`, profile initialization | `ChromeInstall` |
| generated API code, command lines, logging, `astest`, runner images | | | see section 8 |

### How they interact

`Run` sweeps the VMs of earlier processes, creates the pools, the completion queue and the event
handler, sets the web UI's handler and blocks in `Listen`. For every webhook `Listen` starts
`HandleWebhooks` in a goroutine it will wait for; for a *queued* webhook that goroutine starts
another one, `handleQueuedEvent`, which nobody waits for. Each `handleQueuedEvent` owns one
instance: it acquires a VM and a token concurrently, runs the GitHub runner, gives the VM back and
pushes a completion event. `handleCompleted` and `handleInProgressEvent` find the instance by the
runner name GitHub reports, and may write the same record, stop the same VM and push a second
event; `Cancel`, from the web UI, writes the record too. Only single map accesses are locked
(`statusTracker.mu`, `workflowInstanceManager.mu`); every decision taken after a lookup may be out
of date.

Every `upsert`, and every change of a pool, publishes a signal with nothing in it. It passes
through the subscription, the channel `Subscribe` merges into, the backend's forwarding goroutine,
the server's `pumpEvents` and an event-stream frame to a timer in the page, and each of these holds
one. When the timer fires the page fetches the pools and the workflows; the backend answers
from the records and from what the VM provider lists, without a lock over the two.

`multimod` runs commands in the modules of a repository, `govulnchecker` among them. The cache of
`chrome-for-testing` outlives the commands that write it.

### What is hard

- a completed webhook against the local teardown of the same instance, in both orders;
- GitHub giving a queued job to another runner than the one created for it;
- webhooks reordered or lost; the API lookup that stands in for a missing runner name failing;
- one of the two concurrent acquisitions failing;
- records pruned under handlers that still hold their name;
- a full completion queue; expiration while a sender waits; two events for one VM;
- Ctrl-C or a closed relay while handlers run, some of them not waited for;
- signals that coalesce on their way, with goroutines that subscribe late;
- an answer put together from two readings with handlers at work in between; a log that is copied
  while it grows;
- a cached token that expires between check and use, and two creations at once;
- what a crashed process leaves behind, found by name alone;
- a ticker and a deadline that are due together;
- a download or an extraction cut short, and the next command's view of it;
- a pass over all modules at once that is followed by one over them in order.

`PROJECT.json` lists each of these at its line, with the properties that would catch it.

## 2. Modules

### The orchestrator

- **StatusTracker**: the tracker's map as a function from names to records, `Upsert` and
  `PruneLocked` as operators on it. An absent record is one with state `""`.
- **GitHubJobs** (external): a job is queued, given to one runner, concluded; each step emits
  one webhook. Webhooks form a set, so they are handled in any order or never.
- **WorkflowHandler**: composes the two with the handlers. `pc[n]` is where the
  `handleQueuedEvent` of runner `n` is, `completing[j]`, `starting[j]` and `cancel[n]` where the
  other goroutines are. One action is the stretch of a goroutine up to its next lock, call or
  send. `instances` is the manager's map, `recs` the tracker's, `vm[n]` the VM of the instance
  (`"released"`: `StopAndRelease` was called; `"deleted"`: deleted unused; `"undeleted"`: its
  `Delete` was called and failed, which the code does not look at), `pushed[n]` the
  completion events of its VM. `cancelCalls` and `reruns` observe calls to GitHub.
- **RunnerLifecycle**: an abstract specification, what the orchestrator promises of a runner
  instance: one lease, given up once, told of after that, acknowledged last. It knows nothing
  of webhooks, handlers or records.
- **CompletionQueue**: the two FIFOs, with capacity, expiration, receive and close. An event
  carries the time it has left, which makes the clock unbounded. `Scan` lets each expired event go
  by choosing which indices stay, so that proofs can speak of where a kept event was. `DeleteAll`
  calls `Delete` of each VM, which may fail: the event is dropped all the same and the VM left
  (`"undeleted"`).
- **Orchestrator**: composes CompletionQueue with the listener, the goroutines that push, the
  interrupt, and the end of `Run` (drain, pools, queues).
- **RunnerConfigs**: what YAML can be read into (`IsConfig`), what `Validate` accepts, canonical label
  sets, the runner an event selects (the last of those entered under the event's key) and the name
  prefix of a pool's VMs, as operators. Names are sequences of the words between dashes: that is all
  that the prefixes depend on.
- **RunnerResources**: composes RunnerConfigs with processes that start, sweep, serve, close or crash
  (`phase`, `boot`), their VMs on the host, the token cache, and concurrent handlers that check,
  create, store and use a token while a VM is acquired. Every deletion of a VM may fail, in a
  handler, at the close and in the sweep; `unswept` observes those of the sweep.
- **ChangeSignals**: one variable per channel on the way of a signal (`unpublished`, `sig`, `merged`,
  `pumpSig`, `event`, `timer`), `stream` for the page's connection, `fetches` for refreshes in
  flight. `asked` and `missed` observe what the page has asked for and a signal that came to nothing.
- **RefreshedView**: an abstract specification, what a page may rely on: it asks for nothing but the
  present, and for every change in the end. It knows of no channel, stream or timer.
- **WebUIRequests**: composes WorkflowHandler with the requests that read its state. `page` is the
  last list of workflows, `vms` a pools request between its readings and its answer, `log` a
  download. `leased` and `worked` observe what was true in the course of the request.

### The tools

- **Govulnchecker**: the decoding loop as a step per JSON value, in operators on a checker's record.
- **CIChecks**: `multimod`'s scripts, commands and the two kinds of pass, with a Govulnchecker in each
  module where it is the command, as `.multimod.yaml` has it. `visited` is the index of the loop over
  the modules. `ran` observes exit codes. `MaxScripts` bounds the scripts of a plan and the commands of
  a script; it only gives `ran` a domain.
- **WaitForFiles**: `pc`, a ticker's channel and a context per file, the wait group and exit status.
- **ChromeInstall**: one command after another on one cache: `archive` the downloads, `disk` the files
  of each installation with the version each file is of, `profile` and `browser`. A step may
  fail and the command be killed at each of them. `told` observes the paths that were output.

`MC...` modules give constants that a cfg cannot express, and symmetry. The `..._proofs` modules
hold the theorems (section 4). In a module, definitions marked *faulty variant* are mutations:
each one, put in the place of the definition after it, makes a property fail. They belong to no
specification.

### Abstractions

- Records keep the fields a decision reads; names, URLs, errors and log contents are dropped. In
  WorkflowHandler all jobs have the repository and labels of one runner, the case in which GitHub can
  give any job to any runner; RunnerResources has the choice of the runner.
- A name is used once (it is built from a time, an id and a counter), and runners are ephemeral:
  each takes at most one job. `RunnerConfig.Ephemeral` is an option; with it off the
  orchestrator's one-instance-one-job bookkeeping would not apply.
- Runner names come from this process. After a restart GitHub may still report on runners of the
  process before; those have no instance and no record and are not in the model.
- `runErr` is the outcome of `runQueuedJob`: any step may fail, a failure is remembered. The
  runner exits without error only after GitHub has a conclusion for its job.
- `vm.StopAndRelease`'s effect is one step and its error only counts as a failed job, as in the code,
  which releases in either case.
- A `Delete` that fails leaves the VM as it is; one that times out and deletes it later is one that
  succeeds.
- A completed webhook may come without a conclusion (`""`); the record then keeps its result.
- Libraries that are not in the repository are modelled from how it uses them. `patterns.FIFO` holds
  `Capacity` events, blocks a sender while full, and scans on after its context is cancelled, until
  it is closed. `PubSub` reaches those subscribed at the time of a publication and coalesces.
  `vmspool` creates VMs at its start, hands each out once and deletes at its close those it still
  has; a VM that was handed out is its user's. `net/http`, `EventSource` and `govulncheck` do what
  they document.
- In Orchestrator the handlers are reduced to what matters for the queue: busy, sending, sent.
- `useOrchestrator.ts` has no limit on the refreshes in flight: `MaxFetches` is a bound of the model, a
  guard of `Ask`. `SignalInv` and the theorems hold for every value of it, and `PageNeverGoesBack`
  needs 2 (section 6).
- In WebUIRequests one request runs at a time. Requests read; the one that writes, `Cancel`, is
  WorkflowHandler's and runs beside any other.
- A log is not written, written in part, or complete.
- In CIChecks of a command only its first word matters, and a program other than govulnchecker may
  succeed or fail; govulnchecker may also fail before it has read anything. In WaitForFiles -1
  stands for every negative interval, and a negative timeout or delay is as good as 0. In ChromeInstall a version is a number, an archive a set of files extracted in
  some order.
- Time: `now` in WorkflowHandler and WaitForFiles ticks up to a bound; in RunnerResources and
  CompletionQueue values count down instead.

## 3. Model checking

| Run | Instance | States | Question |
|---|---|---|---|
| `HandlerSafety` | 2 runners, 2 jobs, symmetry, `MaxTime` 1 | 1,879,063 | all interleavings of handlers and webhooks; refinement of RunnerLifecycle |
| `HandlerRetention` | 1 runner with Cancel, 2 jobs, `Retention` 1, `MaxTime` 3, fairness | 562,704 | records pruned and written again, status moves, records that age; handlers end, VMs are given up |
| `WebUIRequests` | 1 runner with Cancel, 1 job, `MaxTime` 3 | 2,502,255 | what requests make of the state of handlers at work |
| `WebUISignals` | versions up to 2 of pools and of workflows, 1 refresh in flight, 1 lost connection, fairness | 680,684 | signals reach the page; refinement of RefreshedView |
| `RunnerResources` | 2 handlers, 2 boots, 3 VMs, 3 configurations, 3 kinds of event, symmetry | 1,329,619 | the right pool, a good token, a thorough sweep |
| `OrchestratorShutdown` | 2 VMs, queue of 1, retentions 1 and 0, fairness | 357,686 | a full queue, expiration, Ctrl-C, drain and close |
| `CIChecks` | 2 modules, 5 plans, 16 outputs of govulncheck, fairness | 75,629 | order, completeness and verdict of multimod |
| `ChromeInstall` | 3 commands for 2 applications, 2 files, 2 versions, 2 faults, fairness | 124,656 | what commands make of what others left |
| `WaitForFiles` | 2 files, intervals from -1 to 3, timeouts to 4, fairness | 165,998 | what the exit status says |
| `HandlerCanceledWasCanceled`, `HandlerCancelHitsItsJob`, `OrchestratorOutcomesPushed` | small | | each shows one disagreement of section 6 |

*Why the bounds are enough.*

- The handlers of different runners meet only through GitHub's choice of a runner for a job, through
  webhooks and through the shared records. Two runners and two jobs give every such meeting: the
  runner made for one job executes the other, one runner's job is concluded while the other runner
  is at any step. The clock does not move in `HandlerSafety` (nothing there depends on time), and
  passes the retention period in `HandlerRetention`, where one name is enough as pruning looks
  at one record at a time. A second job there lets a runner execute a job other than its own. Cancel is
  left out of `HandlerSafety`: it writes nothing but a record's state, and its interleavings with
  every other writer of that record are in `HandlerRetention`.
- A request of the web UI combines what concerns one workflow at a time, so one runner is enough in
  `WebUIRequests`; the clock lets records be pruned between two readings.
- In `OrchestratorShutdown` four goroutines push to queues of one event, so that both queues fill and
  senders wait, and the two retentions differ and one is zero.
- In `WebUISignals` each kind changes once after the page has been opened or before; a second change
  of the same kind meets the same full or empty channels. `ChangesSignalled` is proved for any number.
- In `RunnerResources` a second boot finds what the first one left by crash, failure and close. The
  pools `mac` with image `ci-base` and `mac-ci` with image `base` share a name prefix, and two
  runners have nested label sets, spelled, ordered and repeated differently in the event. The token
  lives for two ticks with a margin of one, so that both sides of the check occur.
- `CIChecks` has one plan for each shape of action in `.multimod.yaml`, one with an empty command (the
  panic) and one whose second script is empty; the outputs put a finding before and after the level
  that judges it.
- In `ChromeInstall` two faults before a third command give every pair: a partial archive and a
  partial extraction, of the same version or not. Both file orders are initial states.
- `WaitForFiles` has the deadline on, before and after a tick, and an interval of zero and one below.

*Fairness.* `WorkflowHandler!Fairness` makes every started handler go on: acquisition and the
commands on the VM run under `runner.Timeout`, log extraction and stop under 30 seconds of their
own. GitHub owes nothing, webhooks may never come. `Orchestrator!Fairness` says that goroutines that
can run do, that the scans run, and that time passes; neither an event nor Ctrl-C is owed.
`ChangeSignals!Fairness` makes goroutines and the browser go on (`EventSource` reconnects, a timer
fires, a request is answered or fails); no change, connection loss or opening of the page is owed.
In the tools, the program takes its next step, the commands it started end, and the clock goes
on; no file need appear. All of it is weak fairness.

`CHECK_DEADLOCK FALSE` is in every cfg because every one of these systems may rest: when every runner
is used and the clock is at its bound, when the process has exited, when no more changes come.

What each property says and which code it is about stands before it in its module. In short:

- `CompletedAfterTeardown`, `CompletedMatchesGitHub`: "completed" means torn down, pushed, and has
  the conclusion of the job that really ran on that runner.
- `PushedAfterRelease`, `JobKeepsItsVM`, `NoVMAbandoned`, `VMGivenUp`: no VM is deleted or stopped
  under a running job; each one is stopped or its `Delete` called in the end, and one whose `Delete`
  failed had no runner and is on no queue. Such a VM runs on until a sweep: no property says otherwise.
- `StatusAgrees`, `StatusMoves`: the status shown against the handlers, over all its writers and
  pruning.
- `OnlyLateCancelsStay`: a record whose handler has written its last will be dropped, in whichever
  order webhooks and requests to cancel came before. The one step that makes it stay is a `Cancel` that
  writes after that (finding 5). It rests on `vm_completed` being written unconditionally: the mutant
  leaves a canceled record as it is.
- `RerunOnlyOrphans`: no rerun of a job with a known runner that may still be executing here.
  With an unknown one (the API lookup failed) a rerun is asked for blindly; that is the code.
- `ImplementsLifecycle`, `ImplementsView`: refinement of the two abstract specifications.
- `KeptForRetention`, `NoVMForgotten`, `AwaitedBeforeClose`, `PushesEnd`, `InterruptEnds`: a
  finished VM lives as long as promised, and its `Delete` has been called by the end of the process
  (where it fails the VM is the next sweep's); a full queue delays but does not block; Ctrl-C ends the
  process. `config.go` does not validate `completion_queue_size`: the theorems hold for a capacity of 0
  too, liveness is checked for 1.
- `PoolsShowLeases`, `ThroughMeansWritten`: what the web UI answers is true of some moment of the
  request, and what it says of a workflow that is through stays true.
- `ChangesSignalled`: while a page has not asked for the present state, a signal is on its way. It has
  two exceptions, both of the code, which `missed` observes: a publication between `SetHandler`'s own
  signal and its subscription, and a signal that `writeSnapshot` answers with no frame.
- `RightPool`, `TokenGoodWhenUsed`, `SweepIsThorough`: who runs a job, with what, and what remains.
- `CommandsInOrder`, `ZeroMeansAll`, `ZeroMeansClean`, `ChecksEnd`: the exit status of multimod.
- `ToldMeansInstalled`, `FailsForACause`, `InitializedProfile`, `CommandEnds`: a cache that failed and
  killed commands have worked on.
- `FailureMeansLate`, `SuccessMeansThere`, `WaitEnds`: the exit status of waitforfiles.

## 4. Proofs

Proved with TLAPS for every value of the constants, from the named assumptions of the modules
(`Retention` is an integer, `MaxTime` a positive natural, `NoName` neither a name nor a job, a
completion queue's capacity is a natural, 0 included, and so on).

| Module | Theorems | Inductive invariant |
|---|---|---|
| `WorkflowHandler_proofs` | `Typing`, `Invariance`, and from it `CompletedIsAfterTeardown`, `CompletedIsGitHubs`, `PushesFollowRelease`, `JobsKeepTheirVM`, `NoVMIsAbandoned`, `StatusIsHandlers`, `RerunsAreOfOrphans` | `HandlerInv` |
| | `OnlyLateCancelsRemain`, `StatusesMove` | `HandlerInv`, `RecordsInv` |
| | `HandlersImplementLifecycle` | `HandlerInv` |
| `Orchestrator_proofs` | `Typing`, `Shutdown`, `RetentionIsKept`, `NoVMIsForgotten`, `HandlersAreAwaited` | `ShutdownInv` |
| `ChangeSignals_proofs` | `Typing`, `NoSignalIsLost`, `PagesAskForWhatIs` | `SignalInv` |
| `WebUIRequests_proofs` | `RequestsRefineHandlers`, `RequestsInvariance`, `PoolsAreTrue`, `LogsAreWhole` | `RequestInv` with `VMsInv` |
| `RunnerResources_proofs` | `Invariance`, `Typing`, `RightPools`, `SweepsAreThorough`, `TokensGoodWhenUsed` | `ResourcesInv` |
| `CIChecks_proofs` | `Invariance`, `Typing`, `CommandsRunInOrder`, `ZeroRunsAll`, `ZeroIsClean` | `ChecksInv` |
| `ChromeInstall_proofs` | `Installing`, `ToldIsInstalled`, `FailuresHaveCauses`, `ProfilesAreWhole` | `InstallInv` |
| `WaitForFiles_proofs` | `Typing`, `SuccessIsTrue`, `FailureIsTrue` | `WaitInv` |

With them every invariant and every action property that a run checks is proved, and both refinements
as far as they are safety. What the theorems assume of the constants is what the code or its input
gives:

- `ConfigsAssumption`: a configuration is what YAML is read into. It need not be valid: that
  `Validate` has accepted it is a guard of `Start`. `EventsAssumption`: some event can come.
- `TimesAssumption` (RunnerResources): a token lives at least as long as the cache's margin.
- `DirsAssumption`, `PlansAssumption`, `StreamsAssumption`: modules and words are strings, a plan is
  a sequence of scripts within `MaxScripts`, an output is a sequence of govulncheck's messages in
  any order.
- The bounds are naturals; `MaxBoots`, `MaxVMs`, `MaxVersion` and the like may be any.

*The handlers.* None of the properties is inductive: each one depends on what handlers remember of
a lookup made earlier. `HandlerInv` is the conjunction of

- `InstanceInv`: a name is in the manager's map exactly between `newInstance` and `deleteInstance`
  (or for ever after a failed acquisition);
- `VMInv`: the VM and completion event at each step of the handler. Its last conjunct is the key one:
  a VM that is released while its runner still runs implies that GitHub has concluded the
  runner's job, since only a `handleCompleted` of that job can have released it;
- `GitHubInv`: a runner name GitHub knows is that of a runner that got to run, for one job only,
  and a webhook tells what has happened;
- `LookupInv`: the name a webhook handler holds is its job's runner, and a lookup that found no
  instance stays right, because a name that has left the map never returns to it;
- `StatusInv`: what the record says of the handler.

Each part has a lemma of its own (`InstanceStep`, `VMStep`, `GitHubStepInv`, `LookupStep`,
`StatusStep`) with a step per action. The records are handled by `RecordShows`: after an upsert with
pruning the record of each name is the old one, the written one, or absent.

*The records.* The theorems about records need `RecordsInv` on top of it: a record has no completion
time before its runner ran, so it is not pruned under a handler that is still acquiring, and a completed
record was written by a `handleCompleted` that is through, so no other one finds its name. The lemma
`Fates` says what any step does to any record: it is left alone, pruned, or written by one of seven
writes. `OnlyLateCancelsRemain` goes through them: of the writes after the handler's last one all but
`Cancel`'s set a state together with the time it ages from.

*The refinement.* Each action is shown to be one of RunnerLifecycle's or to leave its variables
alone, `Forget` included: a completed record that is pruned or overwritten.

*The shutdown.* `ShutdownInv` ties every event in a queue to the goroutine that sent it, with the time
the event has left (`EventsAreSent`), and every goroutine that has sent to a VM that is queued or
whose `Delete` was called (`SentIsKept`); it says which queue is closed and drained at each step of the end of `Run`
(`Closing`), and that Listen waits for the handlers it started (`Awaited`). A scan removes events
from the middle of a queue: that nothing else moves follows from the kept indices being in order.

*The signals.* `ChangesSignalled` is nearly inductive: each step hands the signal on to a variable in
`OnItsWay`. It lacks that a publication is always that of a change (`OfAChange`) and that nothing is
asked for before there is a handler (`NothingYet`).

*The requests.* A request's remembered reading has to stay good under every step of the handlers.
`ListedInv` says what is left of a list of VMs: a VM listed as running that was not leased then has
a handler that has given it up, whose record stays other than running (nothing but the handler that
has just acquired the VM writes "running"), or a failed stop. It rests on `VMsInv`: a VM that was
stopped under its handler belongs to a workflow that is not shown running, and a runner whose job is
not concluded has its record, with its VM's id, unless canceled. `PageInv` says that a state
that means "through" stays true. As requests read only, `UISpec => Spec` (`RequestsRefineHandlers`),
and the handlers' invariants are used, not proved again.

*The resources.* `ResourcesInv` says of the process (`ProcessOK`) which phase it is in with which
pools, of a VM (`VmsOK`) that its name is its own pool's prefix and a number that no later VM gets, and
of a handler (`LeaseInv`) that the VM it has is leased from the pool of its event's runner, by this
process, and to nobody else. Numbers make names unique even where two pools' prefixes
agree (`NumbersDiffer`), which `TypeOK` states. A sweep goes by names and may delete another pool's
VMs, but a pool's own are among those it lists (`OwnAreListed`), so none is left where it succeeded
(`SweepInv`). `GoodToken` is the reason for `TokenGoodWhenUsed`: what a token has left is never less
than what is left of the margin since the handler has it, and time takes from both alike.
`RunnerSelected` shows that a runner the map has for an event is one that is configured under its key.
It needs the last of a set of positions: the maximum of a set is a `CHOOSE` in the community modules,
and that there is one is derived from the least-number principle for sets (`LeastOf`).

*The commands.* `ChecksInv` ties the place main is at to what has run: every command before it
succeeded in every module it is for, and nothing after it has run anywhere (`RanOK`). `PassOK` holds
that for the command of the pass under way: as long as nothing failed, a module that a concurrent pass
is no longer running in, or that the sequential pass has come by, has its exit code.
`Knows` is what a govulnchecker has learnt from the messages it has read: if it found nothing to
report, then none of them was a finding that counted at the scan level of its time. That level is the
one of the last configuration message before the finding (`SymbolsScanned`); a statement that looks at
any of those before it is neither inductive nor true of an output with two of them.

*The cache.* `InstallInv` says what the files of an installation are at each step of each command, and
what remains when no fault came (`Undisturbed`). `LastComesLast` is the reason for the exception in
`ToldMeansInstalled`: where the binary is the archive's last file a whole binary is a whole
installation, so the check of `binaryExists` is enough; where it is not, it is not.

*The wait.* `LastLookSees` follows a file that was there before the last look to the tick that
finds it; `OnTime` says where goroutines can be at which time.

## 5. Only model-checked

Liveness: `HandlerEnds`, `VMGivenUp`, `PushesEnd`, `InterruptEnds`, `CommandEnds`, `ChecksEnd`, `WaitEnds`, and
the fairness of `RefreshedView` in `ImplementsView`. Liveness under fairness is outside the prover's
fragment. No induction over data is needed: loops of the code are steps of the models, so that
what they compute is an invariant over their index.

## 6. Where the code and its comments disagree

Each is in `PROJECT.json` "findings" with its lines. Three have a run that ends in a counterexample:

1. `HandlerCanceledWasCanceled`: `event_handler.go:328` takes a completed webhook of a live instance
   for a cancellation. It may be that of a job that succeeded, handled before the local teardown: the
   workflow is shown as canceled, a failure event is pushed for its VM, and the record is later
   overwritten by `vm_completed`, from which nothing moves it any more.
2. `HandlerCancelHitsItsJob`: `Cancel` cancels the run of the event the runner was created for, not of
   the job on that runner.
3. `OrchestratorOutcomesPushed`: `handleQueuedEvent` is not waited for at shutdown; it may push onto a
   closed queue, which panics.

The others are stated, most of them as a definition of that name that no run checks, or as an
exception that a checked property makes:

4. `OnlyRunningCanceled` (WorkflowHandler): a failed acquisition leaves its instance in the map
   (`event_handler.go:369`, before the `defer` of line 372), so that `Cancel` acts on a workflow that is
   over.
5. `CanceledRecordsAge` (WorkflowHandler): `Cancel`'s record has no completion time; when it is written
   last, and the job was cancelled before a runner took it, the record is never pruned. `OnlyLateCancelsStay` says that
   it takes a `Cancel` that writes that late.
6. `ListenBlocks` (Orchestrator): `Listen` is documented to block until cancelled or stopped; it also
   returns when the relay closes cleanly, and the process ends.
7. `PageNeverGoesBack` (ChangeSignals): two refreshes in flight may finish in the other order. A run with
   `MaxFetches` 2 shows it.
8. A canceled workflow's VM, on which a job may still run, is shown as available
   (`webui_backend.go:207`). `PoolsShowLeases` excepts it.
9. One provider that fails hides all pools (`webui_backend.go:168`), though `pool_status.go:83` collects
   errors so that it does not.
10. Pools that were started before one that failed to are never closed (`event_handler.go:47`); the
    next process's sweep deletes their VMs.
11. The global log file is closed when `NewWorkflowEventHandler` returns (`event_handler.go:46`), before
    it is used.
12. `RunsOnce` (CIChecks): with `-concurrent` every command that succeeded everywhere is run again, one
    module at a time (`multimod/main.go:333`).
13. `ChecksEnd` excepts it: `govulnchecker/main.go:169` loops for ever over an output that breaks off.
14. Two entries for one repository may have runners with the same labels (`event_handler.go:60`); the
    later one replaces the earlier.
15. The VM name prefixes of two pools may be the same (`vmsclient/tart.go:33`).
16. `ToldMeansInstalled` excepts it: an interrupted extraction may pass for an installation
    (`chrome-for-testing/download_install.go:89`).
17. `SuccessMeansThere` excepts it: waitforfiles exits with 0 when it is interrupted
    (`waitforfiles/main.go:108`).

## 7. Plan

1. `multimod`'s `goworkUpdate`: which modules' versions a go.work is brought to when a `go get` fails
   half way.
2. `run-job`, the orchestrator's one-shot mode: `handleQueuedEvent` and then the drain, in sequence.
3. Two Chrome installs at once on one cache.
4. A protocol that WorkflowHandler's pushes and Orchestrator's senders both follow: Orchestrator takes
   for granted that each goroutine pushes its VM's event once and only for a VM that was given back,
   of which `PushedAfterRelease` states the second half.

## 8. Not modelled

- *Generated API code* (`webui/api.gen.go`, `types.gen.ts`): decodes requests and encodes answers.
- *Command lines* (`main.go`, `github_cmd.go`, `config_cmd.go`, `webapp_build_cmd.go`): flags and one-shot
  calls of an API, with no state of their own. `main`'s start of `run` is in RunnerResources.
- *Logging* (`logger_fields.go`, `internal/log_files.go`) and the React components: output.
- *Configuration summary and download* of the web UI: copies of data that does not change.
- *`astest`*: translates Go source text in one pass, with no state between steps.
- *Module discovery* in `multimod`: runs git and walks the file system, sequentially.
- *Runner images*: packer templates and scripts.
