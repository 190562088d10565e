# Jayrun verification project

TLA+ modules, TLC configurations and TLAPS proofs for jayrun: the engine that runs graphs
of operators, the storing of what it did, and the dashboard that shows it.

Contents

1. The system: components, state, operations, interactions
2. What is modelled, and by which module
3. The modules one by one
4. The runs, their bounds and their fairness
5. What is proved, from what, and how
6. What is only model-checked, and why
7. Where code and documentation disagree
8. What is not modelled, and the plan

Paths are relative to `jayrun/engine/` unless they start with `jayrun/`, `core/`, `persistence/`,
`dashboard/` (all under `jayrun/`) or `docs/`. Run a model with `tlc -config X.cfg MCModule`, a proof
with `tlapm Module.tla`. `PROJECT.json` names for every definition the lines it models, for every
property a mutation of the code that breaks it, and for every hazard the properties that cover it.


## 1. The system

An *engine* (`supervisor.py`, `runtime.py`) runs *contexts*. A context is one execution of a compiled
*graph* of operators over one or more iterations. Operators may need *resources* (loaded once, shared,
torn down) and *placements* (device memory). Contexts can be handed to other engines by *snapshots*.
Facts about them go to *observers*, to a window of *terminal summaries*, to a *progress* display and,
through a *persistence lane*, to a SQLite store. A *dashboard* consumes all four.

Threads of control that meet:

* **the coordinator**, one coroutine that takes batches of messages from a queue, handles them in
  order, then reconciles placements, acquires work from every execution context and assigns it to
  executors. Nearly all state of contexts and resources is changed here;
* **executors** (a thread pool and asyncio tasks) that run sessions of user code and put the
  results back in the queue. From there they also reserve device memory directly, and steps of
  supervising contexts submit and control other contexts;
* **threads of the application** that start, submit, wait, command, observe and shut down;
* the **lane thread** of each database, the **two tasks** of the dashboard and its workspace's worker;
  timers of the loop, finalizers of the garbage collector, remote engines.

| Component | State it keeps | Operations | What is hard | What makes it correct |
|---|---|---|---|---|
| Resource cache (`resource/resource_manager.py`, `cached_resource.py`) and execution contexts (`context/`) | per key: state, pin count, user count; per context: steps, sessions, pins | register, load, pin, acquire, release, unpin, unload, close; prepare, dispatch, collect, retry, drain, finish | teardown is awaited in the middle; a pin is taken per field and returned per key; setups end after an abort | counts equal what is held; nothing used is torn down; nothing left at close |
| Registry and context instances (`registry/`) | lifecycle state, stop request, placement requests, owner, generation, waiters | register, start, pause, resume, stop, abort, transfer, apply, finish, both shutdown groups | a command meets a context in any state; an outcome is decided before it is committed | allowed transitions only; a terminal context keeps nothing; authority contexts last |
| Scheduler (`scheduler/`) | queued and admitted contexts, a scheduled reconciliation | admit, release, reconcile | somebody must look at the queue again | a context waits in one place and is started once |
| Coordinator and queue (`coordinator/`, `messages/`) | two queues with a burst counter, state | handle, reconcile, stop barrier | registrations are overtaken; any exception ends the coordinator | shutdown ends, with or without the coordinator |
| Supervisor, API and run handles (`supervisor.py`, `api.py`, `submission.py`, `context_run.py`) | engine state, failure, locks, who cleans up | start, submit, wait, list, shut down, escalate, fail, clean up | three locks held across several steps; overlapping starts, failures and shutdowns | one cleanup; waits tell the truth; calls return |
| Capabilities (`messages/runtime_messenger.py`, `interfaces/`) | grants | issue, revoke, submit, ask | grants end while they are used | nobody reaches what its grant does not cover |
| Placement (`resource/placement_controller.py`, `device_allocator.py`, `interfaces/placement.py`) | reservations, accounts, grants, released ids | reserve, resolve, evict, break wait cycles, release | called from all threads; leases end in finalizers; sessions replay their calls | no overcommitment, no capacity lost, cycles broken |
| Persistence lane (`persistence/_database.py`), capture (`_history.py`) | reservations, pending batches, sequence, gaps, barriers | reserve, publish, discard, flush, request, close | uncertain commits are repeated; a flush must not succeed past a failure | exactly once; gaps are told; flush and close are truthful |
| SQLite store (`persistence/_sqlite.py`, `legacy.py`) | tables, counters, watermarks, checkpoints | batch, maintain, import, page | several processes, crashes, clocks set back | counters are those of the rows; stored once; readers miss nothing that stays |
| Snapshots and ownership (`snapshot.py`, `registry/`) | generation, revision, retired contexts, slots | transfer, publish, apply | snapshots late, repeated, reordered | an older owner never undoes a newer one |
| Progress (`progress.py`, `progress_history.py`, `recorders/`) | reports, tracker, learned profiles | update, record, commit, forget | repeats, retries, transfers and stops rewrite it | shown progress is true and never goes back |
| Graphs and artifacts (`core/graph/`, `artifact/store.py`) | layout, steps, values | compile; update, release, feed back | three traversals must agree; values live across iterations | each step reads what the layout gives it |
| Observation, terminal history (`observation.py`, `terminal_history.py`) | bounded queues and a bounded window | publish, consume, detach, read a page | overflow and eviction while a reader waits | loss is always told |
| Dashboard (`dashboard/`) | rows, details, counts, cursor; queue of detached work | consume, sample, recover, list, lay out, close | three sources tell of one context in any order | each end is counted once; nothing accepted is forgotten |
| Declarations, settings, visualization, reporting | none that changes | – | – | – |

How they interact: a submission registers a context in the registry and puts a `ContextRegisteredEvent` in
the submission queue. The coordinator hands it to the scheduler, which admits it when there is a slot,
no memory pressure and no placement request it would compete with; it gets an execution context and a
`StartContextCommand`. Each reconciliation takes sessions from execution contexts; executors run them and report
with `RetrieveSessionCommand`. A session that cannot get device memory becomes a pending request, is granted or
revoked by a later reconciliation and starts over. When the last iteration is done, or a draining context
has no session left, a `ContextTerminatedEvent` is queued; its handler commits the outcome, finalizes the
context, wakes its waiters, hands its record to the lane and its summary to the window, and releases the slot.
Shutdown asks ordinary contexts to stop (or aborts them), then the authority contexts; if the
coordinator is lost, the supervisor aborts what is left and drains the executors itself.


## 2. What is modelled, and by which module

| Module | Models | Role |
|---|---|---|
| `ResourceCache` | resource manager, cached resources, execution contexts and sessions | component |
| `ResourceLifecycle` | what the cache promises | abstract specification |
| `ContextLifecycle` | registry, context instances, scheduler, coordinator with its queue, context and executor manager, shutdown | composition of the control components |
| `DevicePlacement` | placement controller, allocators, placement interface, reconciliation | component |
| `HistoryLane` | persistence lane, recorder, captures, timing contributions, callers of flush | component |
| `HistoryPromise` | what the lane promises its clients | abstract specification |
| `Store`, `StoreWriters`, `StoreReaders` | the SQLite transactions; the databases and importers that write; walkers and the listing that read | operators and two compositions |
| `Ownership` | snapshots, transfers, generations and slots among engines | component |
| `Progress` | reports, tracker and learned profiles | component |
| `GraphDefinition`, `DataFlow` | layout, validation, binding and compilation of graphs; their execution on values | algorithm and component |
| `Observation`, `TerminalHistory`, `Dashboard` | the hub with its observers; the window of summaries; the dashboard composed with both | components and composition |
| `Workspace` | the dashboard's detached work | component |
| `Authority`, `EngineService` | capabilities; callers, supervisor, locks, cleanup | component and composition |
| `Queues` | queues from which members leave out of turn | operators |
| `MC...` | instances for TLC; `MCLanes` and `MCContexts` join models that share nothing into one run | model checking |
| `QueueFacts` | lemmas about naturals, sequences, sets turned into sequences | lemmas |
| `ResourceCacheProofs`, `LifecycleProofs`, `DevicePlacementProofs`, `HistoryLaneProofs`, `StoreProofs`, `DashboardProofs`, `ServiceProofs` | – | inductive invariants and theorems |

The models cut the program along the data they are about. Where one needs another it takes its effect as
nondeterminism, and the other shows that the effect is as assumed:

* `ResourceCache` takes the lifecycle of a context (`run`) as actions that may happen at any handler
  boundary; `ContextLifecycle` shows in detail when they do.
* `ContextLifecycle` gives each execution context one session at a time, which may be retried, wait,
  fail, end a step or an iteration; `ResourceCache` has all sessions of all steps, `DataFlow` their values.
* `ContextLifecycle` lets a reconciliation settle any set of pending requests; `DevicePlacement` decides which.
* `HistoryLane` has one process and a backend that succeeds, fails or leaves a commit uncertain; `StoreWriters`
  has several processes, crashes and what a transaction does.
* `EngineService` has contexts that run and end; `ContextLifecycle` has what happens between.

A definition marked *Variant* is an operation with a plausible programming mistake. Nothing in the
specifications uses it; it breaks a property, which shows that the property depends on that code.


## 3. The modules one by one

Each property and action is commented where it is defined; this section says what to know before reading.

**ResourceCache, ResourceLifecycle.** A coordinator handler that loops over sessions, fields or pins takes
one step per turn (`task`: `PREPARE`, `SETTLE`, `UNPIN`, `TEARDOWN`), between which only executors (`Report`)
move. That is the concurrency of the program: user code on other threads, everything else on one
coroutine. A step may be looked at in any order; retry policies accept or refuse any failure. A failure
while a result is stored (`CollectBroken`) is the one exception in the middle of a collection that the
code contains on purpose; it ends the coordinator, and the emergency path goes on. The mapping (`Lifecycle`)
makes `READY` and `IN_USE` `LOADED`, lets a context keep a key while it owns a pin on it, and takes as users
the live sessions that acquired it.

**ContextLifecycle.** One action per handler with everything it calls; `Reconcile` is
`Coordinator._reconcile` after a batch. `Submit` and other messages come from other threads at any
time. `Fail` is an exception that leaves a handler: the supervisor goes on with `EmergencyAbort`, `...Conclude`,
`...Reclaim`, `...Ready` and `Recover`. All delayed `ReconcileContextsCommand`s are one boolean, like the flag
that guards them; a timed resume is a command of the user; the supervisor's aborts run in any order.
All contexts run one graph on one device, so a pending request keeps every queued context back once placement
history exists. `stale` is a history variable: it marks a context that came back by a transfer while
messages of its first stay wait (section 7); `WaitsOnce` and `PlacementsAgree` make no claim about it, the
other properties do.

**DevicePlacement.** Device counts in the order of preference, allocation sizes, best fit with ties by
id, structural and available plans, eviction targets, blockers, the first strongly connected set of waiting
sessions and the victims by benefit are translated in full. The reconciliation runs in steps (`pc`),
between which executors reserve, finish and release; an eviction plan (`leaving`) is unloaded resource by resource, since each
teardown is awaited. Cached resources are `busy` while they are pinned or in use; their leases end by a plan only, and an
artifact's when the application gives it up. A setup that returns to a draining context is adopted into the cache; other outputs
are not kept. A reservation id is used again only when nothing refers to it
(the code counts on for ever). The order of eviction and of targets is left open. The order in which victims are taken is a total
one (`before`), so the least prefix that makes room is what all sufficient prefixes have in common.

**HistoryLane, HistoryPromise.** `lane` is the lane thread with its program counter, `queue` the jobs
and barriers, `recorder` and its captures the side of the engine, `store.log` what is committed. Capacity is
counted in items. A commit may succeed and be reported as uncertain; the attempt is repeated with the same
producer and sequence. `HistoryPromise` is what a client may rely on: the log grows in the order of the numbers, none
twice; a failure is never forgotten; an answer `OK` to a flush means everything accepted before is stored, and for
those who only wait for their turn, stored or told to be missing.

**Store, StoreWriters, StoreReaders.** A store is a record and a transaction an operator on it, one step
each, as SQLite runs them. Rows have size one and no body. `StoreWriters` adds lanes with their producer,
attempts, crashes, clocks that are set back, and importers with checkpoints; `StoreReaders` the
walks by cursor, the listing of the dashboard with its cached pages and filters. What the lanes are given to write
tells of each fact once and under one id (`ToldOnce`), as the recorder does: it draws a new id for every item.

**Ownership.** Every snapshot a handler leaves behind may be carried to any engine at any time, in any
order, twice or never: `network` only grows. A lost engine takes no more steps; a restarted one is another
member of `Worker`, since an engine id names one incarnation. Transfers are issued at `Home`. A context of two
iterations records, reports and consumes; a snapshot carries these records and reports with the checkpoint, so that a
snapshot of another moment would be caught (`PublishedIsValid`).

**Progress.** Reports and updates of one context with its repeats, placements, skips, failures, aborts,
stops and transfers; profiles are shared by contexts with one key, kept up to a number and up to a number
of steps. While a context is away the engine that gave it away learns nothing of it. Durations and estimates are left
out, and every step has the same weight in the fraction that is shown.

**GraphDefinition, DataFlow.** Three traversals of a layout are written apart in the code and apart here
(`TraversalsAgree`). What a submission is given is normalised as the registry does it. A value is the step that
produced it and the iteration it did so in; another engine goes on from the checkpoint of the last complete iteration
(`Resume`, at most `MaxTransfers` times).

**Observation, TerminalHistory, Dashboard.** Events are published from inside the change they report, to the observers
registered at that moment, one after the other (`sending`), into bounded queues. The dashboard's loop
gives control away only between two events and between two passes; the engine's threads go on in the
middle of a pass. A snapshot is ordered by its revision; at equal revisions a sample is newer than an event.

**Workspace.** A bounded queue of reads and layouts, one worker, futures that handlers wait for, a grant that may
end at any moment, and closing by a sentinel.

**Authority, EngineService.** `lock` has the three locks that are held across several steps; `caller` each thread with
its program of calls; `cleanup` who owns the cleanup. Six kinds of programs are in `MCEngineService`.


## 4. The runs, their bounds and their fairness

Twelve runs, three of which expect a violation (section 7). Times are for two workers.

| Run | Distinct states | What it asks |
|---|---|---|
| `cache` (`ResourceCache.cfg`) | 0.14 M | pins, users and loads stay consistent through aborts, retries, failures and closing; the abstract life cycle is implemented; draining and closing end |
| `lifecycle` (`Lifecycle.cfg`) | 1.1 M | what runs here is the engine's own and its end is heard of once; no context is lost, remembered twice or left waiting; a stop is final; authority goes last |
| `lifecycle_live` (`LifecycleLive.cfg`) | 20 k | a shutdown ends, a draining context is finalized, a queued one starts or ends |
| `placement` (`DevicePlacement.cfg`) | 0.23 M | capacity is neither overcommitted nor lost, grants reach who waits for them, sessions end or wait behind a cached resource |
| `lanes` (`Lanes.cfg`) | 0.18 M | the lane keeps `HistoryPromise`, loses nothing untold and ends; the workspace answers everything it accepted |
| `contexts` (`Contexts.cfg`) | 0.4 M | graphs are laid out, compiled and run alike; one engine runs a generation and knowledge only advances; progress is true |
| `dashboard` (`Dashboard.cfg`) | 1.2 M | events in order or a loss that is told; recovery of summaries without a hole; ends counted once; rows true |
| `store` (`Store.cfg`) | 0.2 M | accounting is that of the rows; evidence is stored once; readers miss nothing that stays |
| `service` (`Service.cfg`) | 55 k | supervisor, registry, messenger and runs agree; waits tell the truth; calls return |
| `pause_after_end`, `stale_iteration_reports`, `submit_deadlock` | small | the disagreements of section 7 |

Runs that say `CHECK_DEADLOCK FALSE` are about programs that end: an engine that is closed, a dashboard that was shut
down, threads that have made all their calls, a store nobody writes to any more. The others check deadlock and let
only a closed engine, lane or workspace rest. All runs take a set of instances in `Init`, so that one run covers several
configurations that would be too large together.

Why the bounds are enough for the cases that matter:

* *cache*: two contexts share a key, which is what skipping, double loading, exclusivity and eviction
  under another context need; two iterations, because pins taken in one are released in
  another; two fields with one key, where pins per field and per key differ. `MaxIteration` is the only bound.
* *lifecycle*: two ordinary contexts and one slot, so that one waits for the other; `maxCommands` 1–3 is the
  length of histories such as stop–pause–stop or transfer out–in; `maxQueue` 1–3 lets a command be queued
  behind others (it limits only what users put in, never what handlers send); `ActiveBurst` 2 (64 in the code)
  lets a registration be overtaken and still be served. `guard` is an authority context. The ordinary contexts
  are interchangeable (symmetry, not in the run with liveness). Instances: `Controls`, `Routing`, `Guarded`, `Forced`,
  `ForcedPair`, `Returning`, and `Pressed`: a context is taken back, or reclaimed without the coordinator, while the scheduler
  can admit another one in its place.
* *placement*: device 0 has three units, device 1 one and only exclusive reservations. The workloads are
  `Crossed` (a wait cycle over two devices), `Thirds` (two sessions hold a third of a device each and want the rest, beside a
  resource that may keep the last third: it can be unloaded, and that is not enough), `Groups` (several devices, one allocation of
  no bytes, one session that needs a device alone), `Floating` (the controller chooses; one request fits none).
* *lanes*: two contexts, room for three items, batches of two, two attempts, one fault, strict and tolerant; a
  queue of two and two captures for three jobs. One fault is enough for each path that tells of a gap, and
  two attempts for an uncertain commit that is repeated.
* *contexts*: graphs of two operators in every declaration, of three in every acceptable one, over six signatures;
  up to three engines, two transfers, two commands, one slot; seven situations of progress (`Situations`).
* *dashboard*: a window of two entries and two bytes, pages of one, one recent and one active row, queues of one or
  two: each bound is reached. Instances `Workload`, `Supervised`, `Operated`, `Observed`.
* *store*: a store that keeps one to three contexts, batches of one or two, pages of one or two, three times.
  Instances `Retries`, `Imports`, `Formats`, `Ages`, `Walks`, `Sessions`, `Listings`.
* *service*: two threads and one step, three contexts, one fault. Six kinds of programs: `Owners`, `Failing`,
  `Controlling`, `Asking`, `Overseeing`, `Slow`.

Fairness, for the liveness properties only (no fairness is assumed of users, commands, faults or transfers):

* *cache*: user code returns (`WF Report`); every reported session is collected, because its message is in a
  first-in-first-out queue and every batch is followed by a pass over all contexts (`SF`, because the coordinator is in
  loops and teardowns in between); loops end; closing goes on.
* *lifecycle_live*: the coordinator handles what is queued and reconciles after every batch, the emergency path goes on,
  timers fire, operators return (`WF`). A waiting request is settled when it can be again and again (what `EverySessionEnds`
  of `DevicePlacement` shows, with the exceptions it names), and a graph of finitely many steps with bounded retries ends its iterations (`SF`).
* *placement*: executors run what is dispatched and invocations return (`WF`), handlers run (`SF`: they wait for a coordinator that is
  `IDLE` again and again), the reconciliation goes on (`WF`), and an artifact that keeps a lease is given up at some time
  (`WF`; otherwise capacity never comes back, which is the application's business). All are spelled out by what may not last, which is
  the same where only these steps end it, and cheap for TLC. No fairness of pins or of the cache: nothing makes a context
  give back a resource, and the engine takes one from the cache by an eviction plan only. So `EverySessionEnds` has two exceptions,
  a resource in use that somebody waits for again and again, and an idle one for ever too small for any plan
  (`HemmedIn`, section 7).
* *lanes*: the lane's thread and the recorder's closing go on; a capture that is being prepared ends; the worker, its
  executor and the closing of the workspace go on (`WF`).
* *service*: each thread that can go on does, sessions end (except the slow ones, which the cleanup does not wait for),
  the loop and the coordinator run, the cleanup goes on (`WF`). Locks are not fair, and need not be.


## 5. What is proved, from what, and how

All theorems hold for every value of the constants that satisfies the named assumption of the module (which TLC
evaluates in the runs): finiteness, disjoint names, types of maps, bounds that are at least one. Nothing else is
assumed.

| Theorem (module) | States |
|---|---|
| `TypeCorrect`, `ClaimsArePinned`, `ExclusiveIsExclusive`, `LoaderIsUnique`, `CloseIsClean` (`ResourceCacheProofs`) | no count becomes negative; a context owns one pin per promised operator; one user of an exclusive resource; one loader; nothing active at close |
| `PinsAreAccounted`, `UsersAreAccounted`, `PinnedStaysLoaded`, `SetupIsNeverLost` (`ResourceCacheProofs`) | `PinsAccounted`, `UsersAccounted`, `PinnedIsLoaded` and the action property `SetupNeverLost` |
| `Refinement` (`ResourceCacheProofs`) | `ImplementsLifecycle` |
| `ExecutionsAreHeardOf`, `StopIsFinal`, `AuthorityGoesLast` (`LifecycleProofs`) | `ExecutionsAgree` and the action properties `StopFinal`, `AuthorityLast` |
| `StartsAreOwedOnce`, `PlacementsStayAgreed` (`LifecycleProofs`) | `WaitsOnce` and `PlacementsAgree` |
| `AccountsHold`, `LeasesStayAccounted`, `GrantsStayAwaited` (`DevicePlacementProofs`) | `Accounts`, `LeasesAccounted`, `GrantsAwaited`: no overcommitment, no capacity lost, no grant without its session |
| `StoreStaysSound`, `EvidenceIsStoredOnce` (`StoreProofs`) | `StoreSound` and `StoredOnce`, for any scenario |
| `EnginePartsAgree`, `WaitsTellTheTruth` (`ServiceProofs`) | `EngineAgrees`, `WaitsTrue` |
| `LanePromise` (`HistoryLaneProofs`) | `ImplementsPromise`: the lane refines `HistoryPromise` |
| `LanesLoseNothing` (`HistoryLaneProofs`) | `NothingLostUntold`: reservations have owners, no context is stored twice, and what is missing in the end is told |
| `LanesForgetNothing` (`HistoryLaneProofs`) | `NothingForgotten`, for any handlers, graphs and size of the queue |
| `RecoveryIsComplete`, `EventsAreHeardInOrder` (`DashboardProofs`) | `RecoveryCovers`, `ObservedInOrder` |

None of these properties is inductive alone. The invariants, each checked with TLC on the run before it was proved:

**Cache** (`IInv`). That releasing keeps `TypeOK` (`pinCount - 1 >= 0`) needs `ClaimsPinned`; that needs to know which
steps of a group are done while its operator waits; that pins are counted right while a context is being unpinned
needs to know that it has no session any more. `IInv` is `TypeOK`, `CacheInv` (the counts, `PinnedIsLoaded`,
`ExclusiveUse`, `SingleLoader`), `ContextOK(c)` for each context (claims are pinned; an operator is blocked until its
group is done; who has no live session; which loop is possible when) and `CoordinatorOK` (a key is `UNLOADING` exactly
while the coordinator waits for its teardown). Most actions do one of seven things to the cache, stated as
lemmas `PinEffect`, `LoadEffect`, ..., and one thing to a context. `PinTokens` has one element per pin, so
that counting pins is a cardinality. `Refinement` shows per action which step of `ResourceLifecycle` each key takes.

**Lifecycle** (`LifecycleInv`, `AuthorityHere`). `OutcomeIsFinal` counts messages in a queue: it is restated with
positions (exactly one `Terminated` message per terminating execution), kept by the lemmas on what a batch, an
appended message and a removed one do to a queue. A report needs an owner, so sessions belong to executing
contexts, those to started ones of this engine; and a handler meets only contexts whose states its queue allows.
`AuthorityLast` needs to know that authority contexts are never given away.

`WaitsOnce` and `PlacementsAgree` rest on a second invariant on top of it, `WaitInv`, one `Sound(c)` per context. `Remembered(c)`:
the registrations and start commands of `c` in both queues, its place in the scheduler's queue and its admission add up to one
while it is validated or queued here, to none otherwise. `Pended(c)`: who waits for a placement is what `PlacementAgrees` says, and a
context that has ended has no session. `Cleared(c)`: the scheduler keeps nothing of a context that is not this engine's. A handler is
shown to do something to one context and to leave all others alone (`Alone`, `Passed`, lemma `Bystander`), except a reconciliation
and the two shutdowns, which act on sets of contexts and send their messages in some order (`SetToSeq`). A context that is
`stale` (section 7) keeps its claim to nothing but is still followed, since it may become an ordinary one again.

**Placement** (`PlacementInv = Typed /\ Ledger(...) /\ GrantsOpen /\ Phases /\ Rounds`). The pool and the holders are
seen as one ledger: an id is held by one session, or granted, or in the finalizers' queue, never at two of these
places, and every reservation is at one of them. The seven places where the code touches it are movements of the ledger
(`LedgerCollected`, `LedgerDropped`, `LedgerTaken`, `LedgerReserved`, `LedgerRevoked`, `LedgerResolved`, ...),
so that an action's proof is which movements it makes and what it says of phases and requests. `Accounts` needs that a
sum over reservations does not depend on the order of summing and splits into parts (`TotalIsDefined`, `TotalParts`,
by induction on the cardinality of a concrete set); that the greedy plan of a request only takes devices that
accept it (`MatchFits`, `FirstPlanFits`), where the best fit exists because ties are broken by id; and that a free
number exists (`FreshIsFree`, by counting). `LeasesAccounted` needs that a victim is a session that waits; `GrantsAwaited`, that who is
refused has no grant and that who is in a reconciliation's hands is still on the list.

**Store** (`StoreInv`, `OnceInv`). `Sound` is a predicate of one store - each table has the rows its counter says, a session
has one reference per context row and a layout one per context that uses it, no row is of a later publication - that
every operator of `Store` keeps, also in the middle of a transaction that is refused in the end. Recursion over the
items of a batch and over what is pruned is on functions over an interval, so that each is one induction over that
interval. `StoreInv` adds the committed state (`DiskOK`) and that of each lane (`LaneOK`). `OnceInv` says what a store knows by its rows
has been told (`DiskTold`), what token a lane holds and until when (`Token`), and of each fact a lane has still to write
whether it has been told (`Unsent`). The key is that a batch judged new is `Sendable`: none of its facts is known to the store; and that the other
lanes do not care, because what was told since (`Grown`) is disjoint from what they have to tell. Assumed of the scenarios:
`ScenarioOK` (types) and `ToldOnce` (each fact is recorded once); of the constant `Never`, that it is no number and no checkpoint.

**Service** (`EngineInv`). Threads: what a thread is in the middle of says which lock it holds, and a cleanup has one owner
from when the engine is marked until it is over (`ThreadsInv`). Stages: what exists of loop, coordinator, grants and
contexts in each state of the engine and at each step of the cleanup (`Staged`). Contexts: what is still to be submitted is
new, and mail that tells of an end tells of a registered context (`Recorded`). Authority: every grant belongs to somebody
who is there (`Granted`). Coordinator: an engine without contexts that is not idle has the message on its way that will make it
idle (`Coordinating`). A context only moves forward (`Advanced`), which is what keeps a waiter's flag true.

**Lane** (`HistoryInv = NowGood /\ RecorderOk /\ Learned`). The record of the database is sound (`Bounded`, `Accounts`:
reserved, pending and in flight add up; `Reserves`: who owns what; `Truth`: what a failure, a gap and a watermark
say of the log), the queue is in the order of the numbers (`QueueOk`), the lane thread is where its batch and the store
say (`LaneOk`), what it has not yet settled lies ahead (`Ahead`); the recorder and the contributions that are
still to be told agree with it. The lane's actions are split by program counter; each maps to a step of
`HistoryPromise` or a stutter.

`NothingLostUntold` rests on a second invariant on top of it, `Accounted`. `PhasesAgree`: who may still close the Database,
and that a lane that ended leaves nothing behind. `HoldersKnown`: every reservation is that of a capture in hand, of the
accumulator while it is not empty, of the kept layout or of the session's last record, and all of them fit. `MissingTold`: an omitted,
unrecorded or lost capture is on record as a failure. `Flowing`: a context that was handed over has one number of its own in the queue, the
lane's batch and the log, which is in the order of the numbers (`OneNumber`, `Ordered`), and the contributions made are those acknowledged, lost,
pending or carried by a delta that is on its way (`Balanced`, with the sum as a recursive function: `ContributedCut`,
`ContributedAppend`). What an operation does to the record is a lemma `Becomes(d, e, held, published)`, what it does to the
capacity one of four (`HoldsNoMore`, `HoldsOneMore`, `PublishesInPlace`, `NothingHeld`), so that an action's proof is which of them it composes.

**Workspace** (`WorkspaceInv`). Who owes an answer: a pending future or layout belongs to exactly one job that
waits in the queue, is at the worker, or was just taken from it, also while handlers give up and the grant ends.

**Window and dashboard** (`HistoryInv` of `DashboardProofs`). The window holds the last summaries without a hole up to what
was evicted or too large, which the next page tells; so a cursor that passed a number read it or was told.

**Observers** (`ObservedInv`). An event that is on its way to an observer holds the last change of its context
(`PublicationSound`), an observer that is registered is not closed (`RegisteredIsOpen`), one that waits has nothing to
take (`WaitingIsIdle`), one that is absent is as new (`AbsentIsFresh`), and what an observer has heard of a
context continues in its queue without hole, repetition or swap (`HearsAll`). `ObservedInOrder` is stated with the
positions and numbers of a queue as sets, so that a queue that grows or loses its head is a lemma (`AppendContinues`,
`TailContinues`) without recursion.

`QueueFacts` has what several proofs need: a least element, induction over an interval, what `Without`, `SetToSeq`,
`Append`, `Tail` and `\o` keep of the members and the positions of a sequence.


## 6. What is only model-checked, and why

* Liveness (`TakedownEnds`, `ShutdownEnds`, `ContextsMoveOn`, `EverySessionEnds`, `LanesSettle`, `CallsReturn`): fairness
  and `ENABLED` are out of the proof system's reach.
* `GraphAgrees`, `FlowsAsLaidOut`, and with them the properties of `Ownership` and `Progress` that `MCContexts` instantiates:
  `GraphDefinition` is recursive, as the traversals it models are, and induction over data cannot be carried out.
* `EndsAccounted`, `RowsTrue`, `EvidenceAdvances` (rows in the order of their
  evidence, with `SelectSeq` and `SortSeq`): not proved. The library states no facts of these operators and of folds that do not take an
  operator as a parameter; a proof would start, like that of `Accounts`, by replacing them by functions.
* `ReadersComplete`: within reach in principle, not proved yet (section 8).


## 7. Where code and documentation disagree

Three runs expect a violation. Each states what the documentation or a comment says.

* **`pause_after_end`**, `HandlersSucceed`. When the last session of a context is collected, its outcome is
  fixed and a `ContextTerminatedEvent` is queued; until it is handled the context is `RUNNING`. A pause handled in
  between makes it `PAUSED`. `terminate_context` then finishes it, for which `PAUSED` has no transition
  (`registry/context_instance.py:145`): the coordinator ends and the engine shuts down.
  `docs/guides/runs/context-run.md:15` describes pause as harmless at any time.
* **`submit_deadlock`**, `SubmissionReturns`. A thread that submits holds the supervisor's lock and enters the registry's; a
  controller's submission holds the registry's and enters the supervisor's (`supervisor.py:638`). Neither returns, and every
  shutdown waits behind them. `docs/start/first-graph.md:94`: "Submission returns a `ContextRun` immediately."
* **`stale_iteration_reports`**, `ReportsConsistent`. A context that another engine hands back with iterations done records its
  prepared steps as of the iteration that is over (`context/execution_context.py:454`, whose comment says they belong
  to the first); the end of the next iteration raises "iteration execution reports are inconsistent".

One more is in the models without a run of its own: **a queued context that is transferred out and back**
(`registry/runtime_registry.py:988`) while a `ContextRegisteredEvent` or `StartContextCommand` of its first stay still waits is registered or
started twice, because messages carry no generation. The second admission raises "only a queued context can be admitted"
(`scheduler/context.py:67`), or the manager refuses the second registration (`context/context_manager.py:32`), or a stale start
makes it `RUNNING` and the second one is an illegal transition; each ends the coordinator. `ContextLifecycle` has this behaviour (instance
`Returning`), marks such a context `stale` and exempts it where the promise is broken.

Smaller ones, met while modelling and described at the definitions or hazards concerned:

* stopping a context that was stopped before it was paused leaves it paused (`registry/runtime_registry.py:738`), while
  `docs/guides/runs/context-run.md:21` says "Stop also lets paused work drain";
* a forced shutdown that goes on without the coordinator ends at the first context whose release admits another
  one (`scheduler/context.py:95`): the ones after it are neither aborted nor finalized (comment at
  `registry/runtime_registry.py:265`);
* detection of wait cycles is incomplete: requests that leave the device open (`resource/placement_controller.py:529`), all
  but the first cycle (`:591`), a session that waits for itself (`:287`); `EverySessionEnds` has the condition `Exact` for it: each
  session fits alone, requests name their device or are single, and three sessions, so that there is one cycle;
* eviction and revocation are never combined (`resource/resource_manager.py:146-151`): a cached resource that nobody uses, but whose
  bytes are fewer than what is missing, is not unloaded, and a revocation that would be enough together with it does not happen.
  Sessions that each hold a part and wait for the rest then wait for ever (a device of four units, the resource and two sessions with one
  unit each, both sessions asking for three more). `EverySessionEnds` without `HemmedIn` is violated in workload `Thirds` by just that;
* the compiler makes a step wait for the producers of its inputs only (`core/graph/graph_definition.py:823`): an operator that regenerates
  an artifact may run before a consumer of its present value, although "an `ArtifactFlow` orders consumers of one artifact"
  (`docs/model/flow.md:3`); `FlowsAsLaidOut` is about the graphs whose edges order them (`Regenerated`);
* nothing compares the completed iterations with `max_iterations` ("Maximum graph iterations", `settings/context.py:58`) when a
  context is started: one that is taken back after its last iteration and before its end was published runs one more
  (`registry/runtime_registry.py:687`);
* every request made at a shadow raises the shadow's own revision (`registry/context_instance.py:542`), and only newer snapshots are
  taken (`registry/runtime_registry.py:1183`): a shadow that asked often enough ignores its owner's final snapshot and never ends, while
  `api.py:175` says "a committed snapshot synchronizes a non-local shadow";
* a stale `RuntimeIdleEvent` makes the engine's activity `IDLE` while a new context runs (`api.py:395`);
* after a controller's `runtime.shutdown` the supervisor still says `RUNNING`: the next `Engine.submit` raises inside the registry,
  reports a failure and forces the shutdown;
* an external shutdown between the coordinator's `STOPPED` and the end of its task records a cleanup failure; a registration that
  is rolled back leaves a supervisor that listed it waiting;
* a step that waits without a bound for another context while the emergency cleanup drains it makes the drain time out: recovery
  is then cancelled, and waiters outside are never told;
* a dashboard row that is older than a control request settles it (`dashboard/_observation.py:180`).


## 8. What is not modelled, and the plan

`PROJECT.json` lists every component with what is missing from it. By module:

* `DevicePlacement`: closing, rollback after an exception inside a reservation, a teardown that fails during an eviction
  (`ResourceCache` has failing teardowns), several routes. Sessions are of different contexts and have one step each.
* `ContextLifecycle`: a shadow is `RUNNING`, `ABORTING` or `FINISHED` for all that goes on, drains or has ended elsewhere;
  `Ownership` has its states.
* `ResourceCache`: a group that waits for artifacts is prepared when the context is registered or an iteration starts, in the code when its
  last artifact is unlocked; the same in the instances that run, which have one operator.
* `Observation`: the commit of an event and the copy of the observers are one step; in the code an observer that registers between them
  may also hear that event.
* `HistoryLane`: sizes in bytes, the failure callback, value codecs, the limit of a reader's requests.
* `Store...`: encoding and validation, sizes other than one, more than one import source, profile imports, detail reads.
* `DataFlow`: resources, placement and retries of a step (`ResourceCache`, `DevicePlacement`).
* `Ownership`: pause, placement and failure; what the records and reports say; the history budget; submission in two steps.
* `Progress`: durations, estimates, clocks, pauses, the byte limit of profiles.
* `Dashboard`: generations, the limits of 256 and 100 000, byte bounds, archives, selected contexts, HTTP.
* `EngineService`: history capture, iterations and placement, observers and pressure of the API, queue bursts, callers on the loop's own
  thread, timeouts of the cleanup other than the drain's. Its locks are those of submission, control, failure and shutdown: `CallsReturn` says
  nothing of the order in which an applied snapshot takes the registry's and the ownership locks
  (`registry/runtime_registry.py:1125`, `:938`).

Left out for good: measurement of memory, encodings, serializers and descriptors of user classes, presentation and
settings. They are input, output or immutable data; the modules take their results as nondeterministic input or as constants.

Plan, in this order:

1. `ReadersComplete`, with the invariants of the store that `StoreProofs` has.
2. `EndsAccounted` and `RowsTrue`, after the sorting of rows has been restated with positions, as the queues of observers are.
