# A verification project for clyde

Clyde is a daemon that stands between coding assistants and their model
providers: it serves an adapter API, proxies TLS traffic, indexes conversations
and replaces itself, without dropping a connection, when its binary or its
configuration changes. The modules here model the parts of it that are concurrent
or that must survive failures: the machinery that starts, drains, replaces and stops
the daemon, the data structure every surface uses to keep track of what is in
flight, and three stores that are read and written by several parties at once.

Paths below are relative to `src/`. `PROJECT.json` maps each definition to the
lines it models and lists components, runs, hazards, findings and theorems.

## 1. Inventory

### The parts modelled

| Part | Code | State | Operations | What is hard |
|---|---|---|---|---|
| livetrack registry | `internal/livetrack/{registry,drain,closer}.go` | state word, session map, parent index, lock | Register, Release, Touch, IdleSince, Drain, ForceCloseMatching | a check without the lock repeated under it; idle pass, force pass, force calls and owners after the same session; closers that hang |
| lifecycle group | `internal/livetrack/{group,group_member}.go` | members and hooks by phase | Attach, AddHook, AddHookBefore, Quiesce | overlapping Quiesce calls, members attached late, a cap on the whole |
| daemon worker | `internal/daemon/{run,runtime,reload,lifecycle_group}.go` | main goroutine, reload drain, control server | reload, rebind, signal, runtime error, deferred shutdown | a select with several ready cases; a background drain and a shutdown at once |
| supervisor | `internal/daemonsupervisor/supervisor.go` | current worker, superseded ones, wait channels | boot, replace, abort, stop, control handlers | channels with one slot and several readers; handlers that outlive the loop; crashes; late aborts |
| config watcher | `internal/daemon/{config_watcher,config_apply,client}.go`, `internal/config/change_class.go` | baseline hash, running config, debounce timer, reload lock | load, hash, watch, classify, hot apply, wait, trigger | a file read again at every step while anybody edits it; cancellation of a goroutine that is about to act |
| semantic sync | `internal/daemon/conversation_semantic_sync.go`, `internal/conversation/vectorsearch/{ingest,checkpoint}.go` | manifest, pins, failure memo, cursor; rows and checkpoint | one pass: list, advertise, collect, load, upsert, publish | bytes newer than the stamp they are advertised under; rows and checkpoint written one after the other; failures and restarts between any two calls |
| websocket session cache | `internal/adapter/codex/{ws_session,transport_ws,livetrack_meta_ws}.go` | cached session and registration per conversation | Take, Put, Invalidate, register, release, drain | Put gives up its lock in the middle; the registry closes sessions behind the cache's back |
| conversation index | `internal/conversation/{index,scan,retained,index_records}.go` | records, stamps, retained records, two files | load, refresh, lookup | one refresh slot and waiters that share its outcome; two files written one after the other; crashes anywhere |

They interact as follows. The supervisor starts a worker. A worker's surfaces, the
websocket cache among them, register what is in flight in registries, which are
members of one lifecycle group. A watcher, or the command line, asks the worker for
a reload or a rebind. The worker asks the supervisor for a replacement, which loads
the configuration anew, and then drains its group. At exit the group is quiesced
once more. The conversation index runs in the worker and in commands, shares its
files with both, and feeds the semantic sync.

### The parts not modelled

Worth a model, in this order: the metrics rollup (`daemon/metrics_rollup*.go`:
append, then checkpoint, then prune); the credential managers
(`adapter/codex/auth_manager.go`, `adapter/anthropic/auth_manager.go`: refresh under
a lock file, crash between the refresh and the rename); the capture store
(`mitm/capture/store.go`, `retention.go`: a bounded queue and its last drain);
storage retention; self update; retry.

Not worth a model checker: request translation in `adapter` and `providers` (pure
conversions of large formats), the command line, logging, transcript
transformations, hard reset (a sequential command), generated wire types. The
largest part of the code by far is of this kind, which is why the lines mapped
are a small share of all lines.

## 2. Modules

| Module | What it is |
|---|---|
| `SessionGate` | abstract specification: a gate that admits only while open and finishes only when empty |
| `Registry` | one registry, its owners, drains, force calls and closers; implements `SessionGate` |
| `Group` | members and hooks by phase, and the steps of `Quiesce`. Each member is a gate, the abstraction that `Registry` is shown to implement |
| `Worker` | extends `Group` with the worker's main goroutine and its RPCs |
| `Supervisor` | the supervisor with the workers' side of a handover |
| `ConfigWatcher` | generations, their watchers, the file, and the reloads that follow |
| `SemanticSync` | the feeder's passes, the engine's rows and checkpoint, and the transcripts under them |
| `WsSessionCache` | turns, the cache they share, its registrations and a drain |
| `ConversationIndex` | processes, the transcripts they scan, the two files, lookups |
| `MC…` | instances for TLC |
| `…Proofs` | theorems checked by TLAPS |

**Registry.** `owner[s]` is where the goroutine that owns session `s` stands in
Register or Release, `drain[d]` and `force[f]` where a Drain or a
ForceCloseMatching call stands, `pending[p]` the batch its bounded pool works on,
`mu` the holder of the lock where a section that holds it is split. Register is
three actions: the check without the lock, the check under it, the insert. Closers
start, finish, and are given up on independently of each other.

**Group and Worker.** `phase[q]`, `step[q]`, `todo[q]` and `draining[q]` are the
locals of one Quiesce call; there are two kinds, that of a reload or rebind and that
of the deferred shutdown. `gate[m]` and `inside[m]` are a member's registry. `main`
is RunContext from serving to exit. `stream` says that GracefulStop has a client of
SubscribeProviderStats to wait for, which stays for as long as it likes. The ghost
`overlapped` records that a shutdown began while another Quiesce was at work.

**Supervisor.** `sup` is the main goroutine, `exitCh` the one-slot channel of each
worker, `duty` the RPC of each worker and `child` the replacement it asked for, and
control handlers have a place of their own. `superseded` is the loop's slice as a
set; `rank` gives the order of the slice, which an abort needs in order to find the
latest worker that still runs. Timeouts are actions that may happen at any time. A
worker that becomes ready writes to the pipe of the RPC that asked for it; when that
RPC is over the write fails and the worker exits (`ReadyTooLate`). `announced` is the
workers whose write arrived.
One crash in a behaviour is enough for every case in the code, since each case
reacts to one exit.

**ConfigWatcher.** `file` is edited at any time. Each read of it (load and hash at
boot; hash, parse and hash again in handleChange) is a step of its own. A content
stands for its hash; a parsed configuration is a record with the four classes of
fields the classifier tells apart: hot, cold, listener addresses, surface toggles.
A watcher may fail to start, and its generation then serves without one.
`gaveUp`, `missed` and `torn` are history variables that name the reasons the
code has for leaving an edit unapplied; `cancelled` is the generations whose watcher
was cancelled or could not be started.

**SemanticSync.** A transcript's stamp is the number of times it was written and
stands for its fingerprint; `held` is what it contained at each stamp. `pc` follows
one pass of the worker; `manifest`, `suppressed`, `needed` are that pass's locals,
pins, empty deliveries and failure counts its memory, `rows` and `recorded` the
engine's two stores. A restart forgets the memory and keeps the stores.

**WsSessionCache.** An attempt is one turn and gives its name to the session it
dials. `entries` and `live` are the cache's two maps, `tracked` what the registry
would close. Every critical section of the cache's mutex, and every use of a session
outside it, is one action, so that Put is up to six. `failed` and `overwritten` record
the sessions that the code loses while their connection is open.

**ConversationIndex.** `pc[p]` is where process `p`'s refresh stands (scan, retain,
save the retained records, truncate and fill the cache, install, end), `apc[p]`
where its lookup stands. `cache` and `retainedFile` are the files. A crash is an
exit at any of these points. Loading fails on a cache file that was cut off, and
`StartUnloaded` is a daemon that could not load either file for another reason: it
goes on without them. `bare` marks a refresh that began before the files could be
loaded, `blind` that there was one; `missed`, `joined` and `undone` name the other
exceptions the code makes. `rebuilt` says that the refresh a lookup runs or waits for
has installed its records.

## 3. Runs

Violations are disagreements between code and comments; see section 6.

| Run | Instance | Shows |
|---|---|---|
| `registry` | 2 sessions (parent and child), 2 drains, 1 force call; 96,198 states | `ClosedIsEmpty`, `CloserOnce`, `ClosedOwnersTold`, `IndexCoherent`, `StateForward`, that Registry implements the safety of SessionGate (`GateSafe`), and that a drain that began ends (`GateLive`) |
| `worker` | 3 members, 2 hooks, 3 sessions; 381,716 states | `PhaseBarrier`, `CleanExit`, `StopExits` |
| `supervisor` | 2 workers; 23,485 states | `ReloadKeepsService`, `StopLeavesNoWorker`, `HangsOnlyAtBoot`, `AbortRestoresServing`, `StopCompletes` |
| `supervisor_replacement_crash` | 2 workers | `KeepsPredecessor` is violated |
| `config` | 2 generations, 2 edits, 7 contents, 1 command-line reload; 467,818 states | `OnlyHotChanges`, `BaselineAgrees`, `NoLostEdit`, `Converges` |
| `config_second_reload` | 3 generations, 1 edit | `WatcherReloadsItself` is violated |
| `semantic_sync` | 2 conversations, 2 writes, 1 fault, batches of 2 or 3; 320,476 states | `NothingHidden`, `PendingIsHonest`, `EventuallyStored`, `ComesToRest` |
| `ws_cache` | 4 turns of 2 conversations; 240,439 states | `Exclusive`, `Accounted`, `TrackedUnlessStale`, `TakenIsOwn` |
| `ws_stale_registration` | the same | `CachedIsTracked` is violated |
| `ws_failed_exchange` | the same | `FailedIsClosed` is violated |
| `index` | 2 processes one after the other, 2 conversations, 2 writes, 1 fault; 107,346 states | `NothingForgotten`, `FreshMeansRebuilt`, `AbsentIsAbsent`, `ServedNeverShrinks`, `LookupAnswered`, `Converges` |
| `index_retained` | 2 daemons one after the other | `RetainedForNextLoad` is violated |

Each module's type invariant (`TypeOK`) is checked in its first run. `Registry`,
`WsSessionCache` and `ConversationIndex` may come to rest (owners, turns or processes
are gone), so their runs do not check for deadlock; the others do.

### Bounds

- Two sessions are what the index of a registry needs for a parent and a child, two
  drains and a force call what races for a session need. The safety properties also
  hold with two force calls (531,558 states).
- One member in each of the phases that have one, one late member, one late hook
  and the store hook give each kind of item the group distinguishes.
- Two workers are what a reload, an abort and a crash need. Three allow a replacement
  of a replacement, and so an abort that meets two superseded workers: the safety
  properties hold there as well (1,596,825 states up to the symmetry of replacements).
- `MaxGens`, `MaxEdits`, `MaxCli` bound the config watcher. Two edits are needed for
  an edit between two reads and a revert; seven contents cover each result of the
  classifier, a config that cannot be applied and one that cannot be parsed. With an
  eighth content that differs in a comment only and `MaxGens = 3` the invariants hold
  as well (14,379,388 states).
- In `SemanticSync`, `MaxWrites = 2` allows a write between listing and load and one
  more before the next pass, `MaxFaults = 1` one failing call anywhere. A batch of 2
  is too small for both transcripts, one of 3 is not. `Threshold = 2` (3 in the code)
  lets one failed load be forgiven and a second one not, so that giving up one attempt
  too early is seen by `EventuallyStored` and one too late by `TypeOK`.
- Three turns of one conversation are what it takes to race two Puts with a Take; the
  fourth belongs to another conversation.
- `MaxUp` is the number of processes of the index that may be up together. With one
  the files are written by one process at a time. The invariants that do not speak of
  the files also hold with two (10,204,018 states), all of them with `MaxWrites = 3`
  (638,271 states) or `MaxFaults = 2` (360,065 states) and `MaxUp = 1`.

The theorems of section 4 have none of these bounds: safety is proved for any number
of sessions, members, workers, contents, conversations, turns, processes and faults.
One crash of a worker in a behaviour is part of the model of the supervisor and
remains in its theorems.

### Fairness

Goroutines that can run do run, and timers fire: weak fairness of their steps.
Nothing is assumed of owners of sessions (they may never release), of closers (they
may never return), of workers (they may ignore signals) and of clients (they may
never leave a stream, which `StopExits` has as a hypothesis). Strong
fairness is used where Go's `select` chooses at random among ready cases (the
supervisor's stop), and for the reload lock: a watcher blocked in `flock` gets it
sooner or later, as its holders are few and each holds it for a bounded time. That
a debounce timer fires needs events to pause; edits are bounded. The feeder's ticker
starts passes and the index's timer starts refreshes for as long as their process
lives; faults and writes are bounded, so both are left alone in the end.

## 4. Proofs

Every invariant and every action property that a passing run checks is also a
theorem, proved for all values of the constants that the named assumptions admit:
`RegistryAssumption`, `GroupAssumption`, `WorkerAssumption`, `SupervisorAssumption`,
`ConfigAssumption`, `SemanticAssumption`, `WsAssumption`, `IndexAssumption`. They say
that constants have their types, that special values are distinct, and that sets that
are finite in the code are finite. `WorkerAssumption` also says that the one
CancelNoWait member, the config watcher, is attached by the main goroutine, as
`run.go` does. Each inductive invariant was model-checked on the instances of
section 3 before it was proved.

| Module | Theorems | Inductive invariant |
|---|---|---|
| `RegistryProofs` | `TypeCorrect`, `ClosedStaysEmpty`, `CloserCalledOnce`, `OwnersTold`, `IndexAgrees`, `StateMovesForward`, `ImplementsGate` | `IInv`: `ControlInv` (who holds the lock; at most one drain is active, and the state names its stage; an admitted Register lives at most until the drain's first locked section), `EmptyInv`, `ClaimInv` (a session is tracked, in one batch, or closed) |
| `WorkerProofs` | `TypeCorrect`, `PhasesAreBarriers`, `StoreClosesLast`, `ExitsClean` | `IInv`: `CallInv` (which Quiesce calls can be in progress together), `BarrierInv` (how far the call has got with each member of its phase; a shut gate has a drain that waits for it); with `ExitInv` (how far the deferred Quiesce has got with each item) for `ExitsClean` |
| `SupervisorProofs` | `TypeCorrect`, `ServiceKept`, `NoWorkerLeft`, `NoHang`, `AbortsRestore` | `IInv`: `Processes`, `Births`, `Queue`, `Boot`, `Lists`, `Listed`, `Requests`, `Succession`, `Calm`; see below |
| `ConfigWatcherProofs` | `TypeCorrect`, `AppliesOnlyHot`, `BaselinesAgree`, `EditsAreNoticed` | `IInv`: `BootInv` (what each stage of a boot has set, and that the content loaded parses to what runs), `LockInv` (an RPC has a target that serves and a child), `OnlyHotChanges`; with `EditInv` (an edit that was not dealt with is a queued event or a recorded exception) for `EditsAreNoticed` |
| `SemanticSyncProofs` | `TypeCorrect`, `HidesNothing`, `PendingHonest` | `IInv`: `Transcripts`, `Remembered` (what the store holds for every stamp that is remembered), `Collecting`, `DocsFresh`, `Settled` (what a pass was not asked for), `InUpsert` |
| `WsSessionCacheProofs` | `TypeCorrect`, `NeverShared`, `LeaksNamed`, `OwnUntilPut`, `CachedTracked` | `IInv`: `Belongs`, `Exclusive`, `Unborn`, `Displaced`, `Shut`, `Accounted`; with `TrackInv` (what cache and registration are while a conversation's only turn works) for `CachedTracked` |
| `ConversationIndexProofs` | `TypeCorrect`, `ConfirmedAfterRebuild`, `ListsNeverShrink` | `IInv`: `Counted`, `Empty`, `Kept`, `Rebuilt` |
| `ConversationIndexFilesProofs` | `NeverForgets`, `FindsWhatIsThere` | `FInv`: `Alone`, `Loadable`, `Agree`, `Covered` (what is on disk covers what was ever listed, at each step of a save), `Recalled` (so does what the process lists that is up); `StampInv` and `LookInv` for `FindsWhatIsThere` |

Why the strengthening is needed:

- `ClosedIsEmpty` is not inductive, because a Register that has passed its first check
  could insert after the drain closed. What excludes it is that the second check holds
  the lock that the drain's count or snapshot needs, and that is `ControlInv`.
- `StoreClosesLast` is the part of `StoreClosedLast` that is true: it holds unless a
  shutdown overtook a drain. `CleanExit` needs more than the barriers, because late
  members and hooks are not covered by a reload's drain: the deferred Quiesce starts
  when everything is attached, so what was true of surfaces is true of every item.
- `ReloadKeepsService` says that some worker serves, and not which. `Succession` says
  it: every worker that has announced itself and has since handed over or ended is
  followed by one of higher rank that is ready, accepted and about to be aborted by
  nobody. `Calm` adds that the loop returns by itself only behind a current worker that
  ended before it had announced itself.
  That it is not about to be aborted needs `Requests`: a replacement belongs to one
  RPC, and an RPC that was answered "ready" never aborts. That it has a higher rank
  needs the order of the handlers' queue: a worker can ask for a replacement before
  the loop has accepted it, but its own handler queued earlier (`Precedes`).
- `AbortRestoresServing` follows from `Succession` too: the highest superseded worker
  that still runs cannot have handed over, or its successor would be higher.
- `StopLeavesNoWorker` needs `Listed`: a live, accepted worker is current, or
  superseded, at every point of the loop and of its unwinding. `HangsOnlyAtBoot` needs
  `Lists`: the loop stops nobody whose exit status was received, which is what
  `runningWorkers` ensures when it takes the statuses of those it drops.
- `NoLostEdit` is about a watcher at rest; `EditInv` adds where an edit hides when it
  is not: before the watcher starts, and between its hash of the file and the parse.
- `TrackedUnlessStale` speaks of the moments at which no turn works; `TrackInv` follows
  the one turn from Take to the publication of its registration.
- `NothingForgotten` says nothing while the cache file is cut off, and the process that
  is up must then hold what the next whole file has to contain: that is `Recalled`.
- `FreshMeansRebuilt` needs to know, for each stage of a refresh, whether those who wait
  for it have seen it install (`Rebuilt`); one who joins after that sees it too.
- `AbsentIsAbsent` depends on what earlier refreshes left in the files: a stamp
  without a record would make a scan skip a readable transcript. `StampInv` says that
  such a stamp is of an unreadable transcript or one whose first read failed, in the
  cache file, in memory and in a scan's result.

Only model-checked: all liveness (`GateLive`, `StopExits`, `StopCompletes`,
`EventuallyStored`, `ComesToRest`, `LookupAnswered`, and `Converges` of the watcher and
of the index), because reasoning from fairness is out of the prover's reach. The
properties of the violation runs are false and have no theorem.

## 5. What is shown

- A registry that reports Closed is empty and stays so; its sessions' closers run at
  most once; whoever still holds a session has been told.
- Ingress, egress, workers and stores are drained in this order, and a worker that
  exits has drained all it ever attached, unless a shutdown overtakes a drain.
- As long as no ready worker crashes, a reload leaves the daemon without a worker that
  serves in one way only: the current worker ends before it has announced itself (see
  section 6). A rebind does so by design. A supervisor that is told to stop leaves no
  worker behind that its loop has seen and, past boot, always exits. An abort, however
  late, goes back to a worker that has not handed over.
- A worker told to stop exits, whatever its sessions and RPCs do, once no client is
  subscribed to its statistics.
- Only hot fields are ever applied in a running process. A watcher at rest has no
  edit outstanding that it has not reported. After the last edit every generation
  comes to rest, and runs what is in the file or has one of the named reasons not to.
- What the engine counts as satisfied is stored, and what the feeder omits is blank or
  has failed to load as often as the threshold allows; the latter it counts as pending.
  "Nothing pending" is true when it is published. In the end everything that can be
  read is stored, and the passes read nothing any more.
- Turns never share a frame stream. A connection that nobody owns has one of two named
  causes, of which one contradicts a comment. A cached session that a drain cannot close has an older registration to blame.
- With one process at a time, a conversation that was listed is never forgotten, even
  if writes are cut off, unless a refresh began before the files could be loaded, or the
  transcript was back and the refresh that saw it saved only the retained file.
- A lookup reports a confirmed miss only if the refresh it ran or waited for was
  installed, and it is right, except when it joined an earlier refresh or the
  transcript's first read had failed.

## 6. Findings

Each is a run in which TLC produces a behaviour of the code that a comment in the
repository excludes. `PROJECT.json` quotes the comments.

- `supervisor_replacement_crash`: a replacement that dies before it is ready, or is
  ready too late and finds its pipe closed, takes its healthy predecessor with it.
- `config_second_reload`: a cancelled watcher in its quiet wait still reloads the
  next generation.
- `ws_stale_registration`: a session that is replaced for its shape leaves its
  registration behind, and the next one is not registered.
- `ws_failed_exchange`: the connection of a failed exchange stays open, because
  Invalidate looks for it in the cache, from which it was taken.
- `index_retained`: after a cache write that was cut off, the next process rebuilds
  without the retained records and overwrites them.

Further behaviours of this kind are exceptions that passing properties name:

- a signal or a runtime error that overtakes a reload's drain (`overlapped` in
  `PhaseBarrier` and `CleanExit`);
- a client that stays subscribed to the provider statistics (`stream` in `StopExits`);
- two goroutines that receive the one exit status while booting (`HangsOnlyAtBoot`), and
  a worker that a handler started and the loop never took (`StopLeavesNoWorker`);
- an edit between two reads of the file, or before the watcher starts (`torn` and
  `missed` in `BaselineAgrees`, `NoLostEdit` and `Converges`);
- a generation that serves on without a watcher, because it could not be started or the
  drain of a rebind that failed later has cancelled it (`cancelled` in `Converges`);
- a checkpoint write whose failure nobody notices (`forgot` in `ComesToRest`);
- a session that another turn caches while Put has unlocked, and that Put then writes
  over (`overwritten` in `Accounted`; `failed` there is the finding above);
- a refresh that begins before the files could be loaded (`blind` in `NothingForgotten`,
  `bare` in `ServedNeverShrinks`), a removal from the retained file whose cache was never
  saved (`undone`), a lookup that takes the outcome of an earlier refresh (`joined`), and
  a transcript that is not read again after its first read failed (`missed`).

## 7. What the models leave out

- Time: a timeout may fire at any moment. Properties that compare durations, such as
  the client's 30 s for a rebind against the drain's 60 s, cannot be stated.
- Data: payloads, metadata, logs, metrics, file descriptors and the wire format of
  the control socket.
- Failures of a worker before it serves, other than that it dies, that its config does
  not load, that its watcher does not start or that its readiness comes too late.
- RPCs of the control server other than the reload, the rebind and the stream of
  provider statistics: they end by themselves. The stream is one flag, that
  GracefulStop has a client to wait for.
- `AwaitQuiet` is a wait that ends; it changes no state.
- Semantic sync: the prefetching of transcripts (their loads are steps in any order),
  embedding inputs that are skipped (data), and the job of a remote engine, which
  only makes passes be skipped. An upsert stops at the first conversation that fails,
  as in the code.
- Conversation index: how a selector matches, the subagent setting, and offsets of
  files with several conversations are data. Why a file could not be loaded (a read
  error, another version, a cache or a retained file that does not decode) is left open:
  a cut-off cache fails every load, any other cause is one fault. A command that cannot
  load answers with the error and does not refresh. Processes that write the files together
  are in the model, and nothing is claimed of the files then.

## 8. Plan

Done: registry and its abstraction; group and worker; supervisor; config watcher;
semantic sync; websocket cache; conversation index; theorems for the safety of all.

Next, one module each with its MC module, properties and mutants:

1. `MetricsRollup` with crashes: each finished request is counted, and at most how
   often twice.
2. `AuthManager`: several processes, lock file, rotation: the refresh credential on
   disk is the last one issued, or the failure was reported.
3. `CaptureStore`: what was accepted before Close is written.
4. `Retention`: never two generations at work on one store.
