--------------------------- MODULE ResourceCache ---------------------------
(***************************************************************************)
(* The resource cache and the execution contexts that use it:              *)
(* resource/cached_resource.py, resource/resource_manager.py (everything   *)
(* but placement), context/execution_context.py and                        *)
(* context/execution_session.py.                                           *)
(*                                                                         *)
(* One coordinator coroutine runs every action of the contexts and of the  *)
(* cache; executors (threads and asyncio tasks) run the dispatched         *)
(* sessions and report their results at any moment.  A handler of the      *)
(* coordinator that loops over sessions, fields or pins takes one step per *)
(* turn of its loop: `task` and `subject` say which loop it is in, and     *)
(* until the loop ends no other coordinator action is enabled, so only an  *)
(* executor can interleave, exactly as its threads can in the program.     *)
(*                                                                         *)
(* A compiled graph is a set of operators.  Each operator has a group: one *)
(* resource step per bound resource field, then the operator itself, which *)
(* depends on the fields of its group (graph_definition.py, compile).      *)
(* Artifact dependencies between operators only restrict which READY step  *)
(* is looked at first, so a step here may be looked at in any order.       *)
(*                                                                         *)
(* A definition named Op_X next to Op is Op with a plausible programming   *)
(* mistake X; no action uses it, and each breaks a property.               *)
(***************************************************************************)
EXTENDS Integers, FiniteSets

CONSTANTS
    Context,        \* context ids
    Key,            \* resource keys: type, configuration and parallel_safe
    ParallelSafe,   \* the keys whose field is parallel_safe
    Operator,       \* operator steps
    Field,          \* resource steps: one per bound resource field
    OperatorOf,     \* the operator whose group a field belongs to
    KeyOf,          \* the key a field resolves to (_create_resource_key)
    Graph,          \* the operators of the graph each context runs
    MaxIteration,   \* bound on the graph iterations of a context
    None            \* no context and no key

ASSUME ConstantsAssumption ==
    /\ IsFiniteSet(Context) /\ IsFiniteSet(Operator) /\ IsFiniteSet(Field)
    /\ ParallelSafe \subseteq Key
    /\ Field \cap Operator = {}
    /\ Context \cap Key = {}
    /\ None \notin Context \cup Key
    /\ OperatorOf \in [Field -> Operator]
    /\ KeyOf \in [Field -> Key]
    /\ Graph \in [Context -> SUBSET Operator]
    /\ MaxIteration \in Nat \ {0}

VARIABLES
    state,       \* CachedResource.state by key; ABSENT: no entry in the cache
    pinCount,    \* CachedResource.pin_count
    userCount,   \* CachedResource.active_user_count
    ownedPins,   \* ExecutionContext._resource_pins
    phase,       \* where each step of each context stands
    run,         \* what the context's lifecycle allows
    iteration,   \* ContextInstance.iteration_count
    engine,      \* the coordinator: running, dead, recovered, closing, closed
    task,        \* the loop the coordinator is in
    subject,     \* the context or the key that loop is about
    unclosed     \* keys ResourceManager.close has still to visit

cacheVars == <<state, pinCount, userCount>>
coordVars == <<engine, task, subject, unclosed>>
vars == <<state, pinCount, userCount, ownedPins, phase, run, iteration,
          engine, task, subject, unclosed>>

Step == Field \cup Operator
FieldsOf(o) == {f \in Field : OperatorOf[f] = o}
KeysOf(o) == {KeyOf[f] : f \in FieldsOf(o)}
GroupOf(s) == IF s \in Field THEN OperatorOf[s] ELSE s

ResourceState == {"ABSENT", "LOADING", "READY", "IN_USE", "UNLOADING"}

\* DISPATCHED to FAILED are the states of a session its executor owns or has
\* reported: UNAVAILABLE is PLACEMENT_WAITING before its collection, WAITING
\* after it, ABANDONED a cancelled future whose session is still DISPATCHED.
\* RESCHEDULED is an IDLE session in _rescheduled_sessions.
LivePhase == {"RESCHEDULED", "DISPATCHED", "ABANDONED", "UNAVAILABLE",
              "WAITING", "FINISHED", "FAILED"}
Phase == LivePhase \cup {"BLOCKED", "READY", "DONE", "DROPPED"}

\* DRAINING stands for ABORTING, FAILING and for a terminal state reached
\* before the context started: finalize_if_drained treats them alike.
RunState == {"NEW", "QUEUED", "RUNNING", "PAUSED", "DRAINING", "DONE"}
EngineState == {"RUNNING", "DEAD", "EMERGENCY", "CLOSING", "CLOSED"}
Task == {"IDLE", "PREPARE", "SETTLE", "UNPIN", "TEARDOWN"}

Live(c, s) == phase[c][s] \in LivePhase
LiveSessions(c) == {s \in Step : Live(c, s)}
Undispatched_NotWaiting(c) ==
    {s \in LiveSessions(c) :
        phase[c][s] \notin {"DISPATCHED", "ABANDONED", "WAITING"}}

\* The steps _drain_non_dispatched_sessions drains.
Undispatched(c) ==
    {s \in LiveSessions(c) : phase[c][s] \notin {"DISPATCHED", "ABANDONED"}}
AllDone(c) == \A s \in Step : phase[c][s] = "DONE"

Enter(t, x) == task' = t /\ subject' = x
Leave == Enter("IDLE", None)
Idle == task = "IDLE"
InLoop(t, x) == task = t /\ subject = x
\* The coordinator handles messages, or the emergency path does its work.
Coordinated == engine = "RUNNING" /\ Idle
Collecting == engine \in {"RUNNING", "EMERGENCY"} /\ Idle

\* CachedResource.can_be_acquired, can_be_unloaded and can_be_closed.
Acquirable(k) ==
    \/ state[k] = "READY"
    \/ state[k] = "IN_USE" /\ k \in ParallelSafe
Unloadable_Pinned(k) == state[k] = "READY" /\ userCount[k] = 0
Unloadable(k) == state[k] = "READY" /\ pinCount[k] = 0 /\ userCount[k] = 0

\* The sessions whose _resource_keys contain k, the ones registered as its
\* loader, and one token for each pin some context owns on it.
Holders(k) ==
    {h \in Context \X Operator : Live(h[1], h[2]) /\ k \in KeysOf(h[2])}
Loaders(k) ==
    {l \in Context \X Field : Live(l[1], l[2]) /\ KeyOf[l[2]] = k}
PinTokens(k) == UNION {{c} \X (1 .. ownedPins[c][k]) : c \in Context}
-----------------------------------------------------------------------------
\* The steps of one iteration: the groups of `missing` operators, whose input
\* artifact is None, are skipped before anything is looked up.
FreshPhases(c, missing) ==
    [s \in Step |->
        IF GroupOf(s) \notin Graph[c] \ missing THEN "DONE"
        ELSE IF s \in Operator /\ FieldsOf(s) = {} THEN "READY"
        ELSE "BLOCKED"]

\* A resource step is done; its operator is ready once the whole group is.
CompleteStep(phases, f) ==
    LET o == OperatorOf[f]
    IN  [phases EXCEPT
            ![f] = "DONE",
            ![o] = IF \A g \in FieldsOf(o) \ {f} : phases[g] = "DONE"
                   THEN "READY" ELSE @]

Init ==
    /\ state = [k \in Key |-> "ABSENT"]
    /\ pinCount = [k \in Key |-> 0]
    /\ userCount = [k \in Key |-> 0]
    /\ ownedPins = [c \in Context |-> [k \in Key |-> 0]]
    /\ phase = [c \in Context |-> [s \in Step |-> "BLOCKED"]]
    /\ run = [c \in Context |-> "NEW"]
    /\ iteration = [c \in Context |-> 0]
    /\ engine = "RUNNING"
    /\ task = "IDLE"
    /\ subject = None
    /\ unclosed = {}

\* ContextManager.register: a new execution context resets its steps and
\* prepares the ones without dependencies.
Register(c) ==
    /\ Coordinated
    /\ run[c] = "NEW"
    /\ run' = [run EXCEPT ![c] = "QUEUED"]
    /\ iteration' = [iteration EXCEPT ![c] = 1]
    /\ \E missing \in SUBSET Graph[c] :
           phase' = [phase EXCEPT ![c] = FreshPhases(c, missing)]
    /\ Enter("PREPARE", c)
    /\ UNCHANGED <<cacheVars, ownedPins, engine, unclosed>>

\* _pin_resource
Pin(c, k) ==
    /\ pinCount' = [pinCount EXCEPT ![k] = @ + 1]
    /\ ownedPins' = [ownedPins EXCEPT ![c][k] = @ + 1]

\* One turn of _initialize_ready_steps: a resource another context has loaded
\* is pinned at once, any other is left for dispatch.
PrepareResource(c, f) ==
    /\ InLoop("PREPARE", c)
    /\ phase[c][f] = "BLOCKED"
    /\ \/ /\ Acquirable(KeyOf[f])
          /\ Pin(c, KeyOf[f])
          /\ phase' = [phase EXCEPT ![c] = CompleteStep(@, f)]
       \/ /\ ~Acquirable(KeyOf[f])
          /\ phase' = [phase EXCEPT ![c][f] = "READY"]
          /\ UNCHANGED <<pinCount, ownedPins>>
    /\ UNCHANGED <<state, userCount, run, iteration, coordVars>>

Prepared(c) ==
    /\ InLoop("PREPARE", c)
    /\ \A f \in Field : phase[c][f] # "BLOCKED"
    /\ Leave
    /\ UNCHANGED <<cacheVars, ownedPins, phase, run, iteration, engine, unclosed>>

\* The lifecycle moves the coordinator applies to a context between handlers.
SetRun(c, from, to) ==
    /\ Coordinated
    /\ run[c] \in from
    /\ run' = [run EXCEPT ![c] = to]
    /\ UNCHANGED <<cacheVars, ownedPins, phase, iteration, coordVars>>

Start(c) == SetRun(c, {"QUEUED"}, "RUNNING")
Pause(c) == SetRun(c, {"RUNNING"}, "PAUSED")
Resume(c) == SetRun(c, {"PAUSED"}, "RUNNING")
Abort(c) ==
    \/ SetRun(c, {"NEW"}, "DONE")
    \/ SetRun(c, {"QUEUED", "RUNNING", "PAUSED"}, "DRAINING")
-----------------------------------------------------------------------------
\* dispatch_next on a ready resource step that meanwhile became available.
SkipAvailable(c, f) ==
    /\ Coordinated
    /\ run[c] = "RUNNING"
    /\ phase[c][f] = "READY"
    /\ Acquirable(KeyOf[f])
    /\ Pin(c, KeyOf[f])
    /\ phase' = [phase EXCEPT ![c] = CompleteStep(@, f)]
    /\ UNCHANGED <<state, userCount, run, iteration, coordVars>>

\* dispatch_next on an absent resource: the session registers the key and
\* becomes its loader.  A key that is LOADING or busy keeps the step waiting.
DispatchSetup(c, f) ==
    /\ Coordinated
    /\ run[c] = "RUNNING"
    /\ phase[c][f] = "READY"
    /\ state[KeyOf[f]] = "ABSENT"
    /\ state' = [state EXCEPT ![KeyOf[f]] = "LOADING"]
    /\ phase' = [phase EXCEPT ![c][f] = "DISPATCHED"]
    /\ UNCHANGED <<pinCount, userCount, ownedPins, run, iteration, coordVars>>

\* dispatch_next on a ready operator: it acquires each of its keys once, all
\* of them or none.
DispatchOperator(c, o) ==
    /\ Coordinated
    /\ run[c] = "RUNNING"
    /\ phase[c][o] = "READY"
    /\ \A k \in KeysOf(o) : Acquirable(k)
    /\ userCount' = [k \in Key |-> IF k \in KeysOf(o) THEN userCount[k] + 1
                                                     ELSE userCount[k]]
    /\ state' = [k \in Key |-> IF k \in KeysOf(o) THEN "IN_USE" ELSE state[k]]
    /\ phase' = [phase EXCEPT ![c][o] = "DISPATCHED"]
    /\ UNCHANGED <<pinCount, ownedPins, run, iteration, coordVars>>

\* dispatch_next on a rescheduled session.
Redispatch(c, s) ==
    /\ Coordinated
    /\ run[c] = "RUNNING"
    /\ phase[c][s] = "RESCHEDULED"
    /\ phase' = [phase EXCEPT ![c][s] = "DISPATCHED"]
    /\ UNCHANGED <<cacheVars, ownedPins, run, iteration, coordVars>>

\* An executor stores the result in the session (ExecutionSession.collect); a
\* future cancelled while its context drains leaves the session as it was.
Report(c, s) ==
    /\ phase[c][s] = "DISPATCHED"
    /\ \E result \in {"FINISHED", "FAILED", "UNAVAILABLE"}
                     \cup (IF run[c] = "DRAINING" THEN {"ABANDONED"} ELSE {}) :
           phase' = [phase EXCEPT ![c][s] = result]
    /\ UNCHANGED <<cacheVars, ownedPins, run, iteration, coordVars>>

\* The end of a placement wait, granted or revoked.
ResolvePlacement(c, s) ==
    /\ Coordinated
    /\ run[c] \in {"RUNNING", "PAUSED"}
    /\ phase[c][s] = "WAITING"
    /\ phase' = [phase EXCEPT ![c][s] = "RESCHEDULED"]
    /\ UNCHANGED <<cacheVars, ownedPins, run, iteration, coordVars>>
-----------------------------------------------------------------------------
\* _release_session_resources: each key of the session loses one user and one
\* pin, and so does the context's own count.
ReleaseResources(c, o) ==
    /\ userCount' = [k \in Key |-> IF k \in KeysOf(o) THEN userCount[k] - 1
                                                     ELSE userCount[k]]
    /\ pinCount' = [k \in Key |-> IF k \in KeysOf(o) THEN pinCount[k] - 1
                                                    ELSE pinCount[k]]
    /\ state' = [k \in Key |-> IF k \in KeysOf(o) /\ userCount[k] = 1
                               THEN "READY" ELSE state[k]]
    /\ ownedPins' = [ownedPins EXCEPT ![c] =
           [k \in Key |-> IF k \in KeysOf(o) THEN @[k] - 1 ELSE @[k]]]

\* _cancel_session_registration
CancelRegistration(f) ==
    /\ state' = [state EXCEPT ![KeyOf[f]] = "ABSENT"]
    /\ UNCHANGED <<pinCount, userCount, ownedPins>>

LoadResource_NotOwned(c, f) ==
    /\ state' = [state EXCEPT ![KeyOf[f]] = "READY"]
    /\ pinCount' = [pinCount EXCEPT ![KeyOf[f]] = 1]
    /\ UNCHANGED <<userCount, ownedPins>>

\* _load_resource: mark_loaded starts the count at the loader's own pin.
LoadResource(c, f) ==
    /\ state' = [state EXCEPT ![KeyOf[f]] = "READY"]
    /\ pinCount' = [pinCount EXCEPT ![KeyOf[f]] = 1]
    /\ ownedPins' = [ownedPins EXCEPT ![c][KeyOf[f]] = @ + 1]
    /\ UNCHANGED userCount

GiveBack_SetupOnly(c, s) ==
    \/ s \in Operator /\ UNCHANGED <<state, pinCount, userCount, ownedPins>>
    \/ s \in Field /\ CancelRegistration(s)

\* What a session that ends without a result gives back.
GiveBack(c, s) ==
    \/ s \in Operator /\ ReleaseResources(c, s)
    \/ s \in Field /\ CancelRegistration(s)

DrainSession_Discard(c, s) ==
    GiveBack(c, s) /\ phase' = [phase EXCEPT ![c][s] = "DROPPED"]

\* _drain_session: a setup that finished before it was collected is adopted,
\* so that its teardown keeps an owner.
DrainSession(c, s) ==
    /\ \/ s \in Field /\ phase[c][s] = "FINISHED" /\ LoadResource(c, s)
       \/ ~(s \in Field /\ phase[c][s] = "FINISHED") /\ GiveBack(c, s)
    /\ phase' = [phase EXCEPT ![c][s] = "DROPPED"]

Alive(c) == run[c] \in {"RUNNING", "PAUSED"}
Reported(c, s) ==
    phase[c][s] \in {"FINISHED", "FAILED", "UNAVAILABLE", "ABANDONED"}

\* collect on a session of a draining context.
CollectDraining(c, s) ==
    /\ Collecting
    /\ run[c] = "DRAINING"
    /\ Reported(c, s)
    /\ DrainSession(c, s)
    /\ Enter("SETTLE", c)
    /\ UNCHANGED <<run, iteration, engine, unclosed>>

\* _collect_placement_waiting
CollectWaiting(c, s) ==
    /\ Collecting
    /\ Alive(c)
    /\ phase[c][s] = "UNAVAILABLE"
    /\ phase' = [phase EXCEPT ![c][s] = "WAITING"]
    /\ UNCHANGED <<cacheVars, ownedPins, run, iteration, coordVars>>

\* _collect_finished, an operator that asked to be repeated and
\* _collect_failed, a failure the retry policy accepts: both keep the
\* session's resources and its registration.
CollectRepeat(c, s) ==
    /\ Collecting
    /\ Alive(c)
    /\ \/ s \in Operator /\ phase[c][s] = "FINISHED"
       \/ phase[c][s] = "FAILED"
    /\ phase' = [phase EXCEPT ![c][s] = "RESCHEDULED"]
    /\ UNCHANGED <<cacheVars, ownedPins, run, iteration, coordVars>>

\* _collect_finished on an operator, down to the test for the iteration's end.
CollectOperator(c, o) ==
    /\ Collecting
    /\ Alive(c)
    /\ phase[c][o] = "FINISHED"
    /\ ReleaseResources(c, o)
    /\ phase' = [phase EXCEPT ![c][o] = "DONE"]
    /\ Enter("SETTLE", c)
    /\ UNCHANGED <<run, iteration, engine, unclosed>>

\* _collect_finished on a setup.
CollectSetup(c, f) ==
    /\ Collecting
    /\ Alive(c)
    /\ phase[c][f] = "FINISHED"
    /\ LoadResource(c, f)
    /\ phase' = [phase EXCEPT ![c] = CompleteStep(@, f)]
    /\ UNCHANGED <<run, iteration, coordVars>>

\* _collect_failed, a failure that is not retried.
CollectFailed(c, s) ==
    /\ Collecting
    /\ Alive(c)
    /\ phase[c][s] = "FAILED"
    /\ GiveBack(c, s)
    /\ phase' = [phase EXCEPT ![c][s] = "DROPPED"]
    /\ run' = [run EXCEPT ![c] = "DRAINING"]
    /\ Enter("SETTLE", c)
    /\ UNCHANGED <<iteration, engine, unclosed>>

\* collect when storing an operator's result raises: its resources are
\* released, the context fails, and the exception ends the coordinator.
CollectBroken(c, o) ==
    /\ Collecting
    /\ Alive(c)
    /\ phase[c][o] = "FINISHED"
    /\ ReleaseResources(c, o)
    /\ phase' = [phase EXCEPT ![c][o] = "DROPPED"]
    /\ run' = [run EXCEPT ![c] = "DRAINING"]
    /\ engine' = "DEAD"
    /\ Enter("SETTLE", c)
    /\ UNCHANGED <<iteration, unclosed>>
-----------------------------------------------------------------------------
\* acquire visits every context; the visits that change nothing are left out.
Visit(c) ==
    /\ Collecting
    /\ \/ run[c] = "DRAINING" /\ (Undispatched(c) # {} \/ LiveSessions(c) = {})
       \/ run[c] = "RUNNING" /\ AllDone(c)
    /\ Enter("SETTLE", c)
    /\ UNCHANGED <<cacheVars, ownedPins, phase, run, iteration, engine, unclosed>>

\* One turn of _drain_non_dispatched_sessions.
DrainUndispatched(c, s) ==
    /\ InLoop("SETTLE", c)
    /\ run[c] = "DRAINING"
    /\ s \in Undispatched(c)
    /\ DrainSession(c, s)
    /\ UNCHANGED <<run, iteration, coordVars>>

\* finalize_if_drained once nothing is left to drain.
FinishDrain(c) ==
    /\ InLoop("SETTLE", c)
    /\ run[c] = "DRAINING"
    /\ Undispatched(c) = {}
    /\ IF LiveSessions(c) = {} THEN Enter("UNPIN", c) ELSE Leave
    /\ UNCHANGED <<cacheVars, ownedPins, phase, run, iteration, engine, unclosed>>

\* _finish_iteration: the registry lets the context repeat its graph, or it
\* does not (stop, max_iterations, a spent history budget).
FinishIteration(c) ==
    /\ InLoop("SETTLE", c)
    /\ run[c] = "RUNNING"
    /\ AllDone(c)
    /\ \/ /\ iteration[c] < MaxIteration
          /\ iteration' = [iteration EXCEPT ![c] = @ + 1]
          /\ \E missing \in SUBSET Graph[c] :
                 phase' = [phase EXCEPT ![c] = FreshPhases(c, missing)]
          /\ Enter("PREPARE", c)
       \/ /\ Enter("UNPIN", c)
          /\ UNCHANGED <<phase, iteration>>
    /\ UNCHANGED <<cacheVars, ownedPins, run, engine, unclosed>>

NothingToSettle(c) ==
    /\ InLoop("SETTLE", c)
    /\ run[c] # "DRAINING"
    /\ ~(run[c] = "RUNNING" /\ AllDone(c))
    /\ Leave
    /\ UNCHANGED <<cacheVars, ownedPins, phase, run, iteration, engine, unclosed>>

\* One turn of _release_pending_resource_pins.
Unpin(c, k) ==
    /\ InLoop("UNPIN", c)
    /\ ownedPins[c][k] > 0
    /\ pinCount' = [pinCount EXCEPT ![k] = @ - 1]
    /\ ownedPins' = [ownedPins EXCEPT ![c][k] = @ - 1]
    /\ UNCHANGED <<state, userCount, phase, run, iteration, coordVars>>

Finalize(c) ==
    /\ InLoop("UNPIN", c)
    /\ \A k \in Key : ownedPins[c][k] = 0
    /\ run' = [run EXCEPT ![c] = "DONE"]
    /\ Leave
    /\ UNCHANGED <<cacheVars, ownedPins, phase, iteration, engine, unclosed>>
-----------------------------------------------------------------------------
\* unload, for an eviction plan or in close: the teardown is awaited, and the
\* coordinator does nothing else meanwhile.
BeginUnload(k) ==
    /\ Unloadable(k)
    /\ state' = [state EXCEPT ![k] = "UNLOADING"]
    /\ Enter("TEARDOWN", k)
    /\ UNCHANGED <<pinCount, userCount, ownedPins, phase, run, iteration, engine>>

Evict(k) ==
    /\ Coordinated
    /\ BeginUnload(k)
    /\ UNCHANGED unclosed

TeardownDone(k) ==
    /\ InLoop("TEARDOWN", k)
    /\ state' = [state EXCEPT ![k] = "ABSENT"]
    /\ Leave
    /\ UNCHANGED <<pinCount, userCount, ownedPins, phase, run, iteration,
                   engine, unclosed>>

\* The exception of a failed (or cancelled) eviction leaves reconcile and
\* ends the coordinator; close only collects it.
TeardownFailed(k) ==
    /\ InLoop("TEARDOWN", k)
    /\ state' = [state EXCEPT ![k] = "READY"]
    /\ engine' = IF engine = "RUNNING" THEN "DEAD" ELSE engine
    /\ Leave
    /\ UNCHANGED <<pinCount, userCount, ownedPins, phase, run, iteration, unclosed>>

\* prepare_emergency_shutdown aborts what is left; executors are then drained
\* and their sessions collected outside the coordinator.
PrepareEmergency ==
    /\ engine = "DEAD"
    /\ Idle
    /\ engine' = "EMERGENCY"
    /\ run' = [c \in Context |-> IF run[c] \in {"NEW", "DONE"} THEN run[c]
                                 ELSE "DRAINING"]
    /\ UNCHANGED <<cacheVars, ownedPins, phase, iteration, task, subject, unclosed>>

\* ResourceManager.close, once every context is finalized.
BeginClose ==
    /\ Collecting
    /\ \A c \in Context : run[c] \in {"NEW", "DONE"}
    /\ engine' = "CLOSING"
    /\ unclosed' = {k \in Key : state[k] # "ABSENT"}
    /\ UNCHANGED <<cacheVars, ownedPins, phase, run, iteration, task, subject>>

Close(k) ==
    /\ engine = "CLOSING"
    /\ Idle
    /\ k \in unclosed
    /\ unclosed' = unclosed \ {k}
    /\ \/ BeginUnload(k)
       \/ /\ ~Unloadable(k)
          /\ state' = IF state[k] = "LOADING" THEN [state EXCEPT ![k] = "ABSENT"]
                      ELSE state
          /\ UNCHANGED <<pinCount, userCount, ownedPins, phase, run, iteration,
                         engine, task, subject>>

EndClose ==
    /\ engine = "CLOSING"
    /\ Idle
    /\ unclosed = {}
    /\ engine' = "CLOSED"
    /\ UNCHANGED <<cacheVars, ownedPins, phase, run, iteration, task, subject,
                   unclosed>>

Closed == engine = "CLOSED" /\ UNCHANGED vars
-----------------------------------------------------------------------------
SetupStep(c, f) ==
    \/ PrepareResource(c, f)
    \/ SkipAvailable(c, f)
    \/ DispatchSetup(c, f)
    \/ CollectSetup(c, f)

OperatorStep(c, o) ==
    \/ DispatchOperator(c, o)
    \/ CollectOperator(c, o)
    \/ CollectBroken(c, o)

SessionStep(c, s) ==
    \/ Redispatch(c, s)
    \/ Report(c, s)
    \/ ResolvePlacement(c, s)
    \/ CollectDraining(c, s)
    \/ CollectWaiting(c, s)
    \/ CollectRepeat(c, s)
    \/ CollectFailed(c, s)
    \/ DrainUndispatched(c, s)

ContextStep(c) ==
    \/ Register(c)
    \/ Prepared(c)
    \/ Start(c)
    \/ Pause(c)
    \/ Resume(c)
    \/ Abort(c)
    \/ Visit(c)
    \/ FinishDrain(c)
    \/ FinishIteration(c)
    \/ NothingToSettle(c)
    \/ Finalize(c)

KeyStep(k) ==
    \/ Evict(k)
    \/ TeardownDone(k)
    \/ TeardownFailed(k)
    \/ Close(k)

Next ==
    \/ \E c \in Context :
           \/ ContextStep(c)
           \/ \E f \in Field : SetupStep(c, f)
           \/ \E o \in Operator : OperatorStep(c, o)
           \/ \E s \in Step : SessionStep(c, s)
           \/ \E k \in Key : Unpin(c, k)
    \/ \E k \in Key : KeyStep(k)
    \/ PrepareEmergency
    \/ BeginClose
    \/ EndClose
    \/ Closed

Spec == Init /\ [][Next]_vars
-----------------------------------------------------------------------------
TypeOK ==
    /\ state \in [Key -> ResourceState]
    /\ pinCount \in [Key -> Nat]
    /\ userCount \in [Key -> Nat]
    /\ ownedPins \in [Context -> [Key -> Nat]]
    /\ phase \in [Context -> [Step -> Phase]]
    /\ run \in [Context -> RunState]
    /\ iteration \in [Context -> 0 .. MaxIteration]
    /\ engine \in EngineState
    /\ task \in Task
    /\ subject \in Context \cup Key \cup {None}
    /\ unclosed \subseteq Key

\* The pin count of a resource is the number of pins the contexts believe
\* they own on it, through loading, skipping, releases, aborts, adoption and
\* finalization: a lost pin lets a resource be torn down under a context, an
\* extra one keeps it loaded for ever.
PinsAccounted == \A k \in Key : pinCount[k] = Cardinality(PinTokens(k))

\* The user count is the number of live sessions that acquired the resource,
\* and the resource is IN_USE exactly while there is one.
UsersAccounted ==
    \A k \in Key :
        /\ userCount[k] = Cardinality(Holders(k))
        /\ state[k] = "IN_USE" <=> Holders(k) # {}

\* A resource some context has pinned is loaded: it is neither being torn
\* down nor gone, so neither acquire nor unpin can raise.
PinnedIsLoaded ==
    \A k \in Key : PinTokens(k) # {} => state[k] \in {"READY", "IN_USE"}

\* The operators of c that have been promised k: a resource step of their
\* group is done, or they hold k.
Claims(c, k) ==
    {o \in Operator :
        \/ Live(c, o) /\ k \in KeysOf(o)
        \/ /\ phase[c][o] \in {"BLOCKED", "READY"}
           /\ \E f \in FieldsOf(o) : KeyOf[f] = k /\ phase[c][f] = "DONE"}

\* Until it is finalized, a context owns a pin of its own for every operator
\* that was promised the resource, so that the release of one of them never
\* takes the pin another one relies on ("does not own a resource pin").
ClaimsPinned ==
    \A c \in Context, k \in Key :
        run[c] # "DONE" /\ ~InLoop("UNPIN", c)
            => Cardinality(Claims(c, k)) <= ownedPins[c][k]

\* A resource that is not parallel safe has at most one user, whichever
\* contexts share it.
ExclusiveUse ==
    \A k \in Key \ ParallelSafe : \A g, h \in Holders(k) : g = h

\* A LOADING entry has exactly one registered session, and a registered
\* session has its LOADING entry: nobody sets a resource up twice, and no
\* entry is left LOADING for ever by a session that is gone.
SingleLoader ==
    \A k \in Key :
        /\ state[k] = "LOADING" <=> Loaders(k) # {}
        /\ \A l, m \in Loaders(k) : l = m

\* When the resource manager closes, no entry is active: it never reports
\* "cannot close active resource", whatever was aborted or failed before.
ClosedClean ==
    engine \in {"CLOSING", "CLOSED"} =>
        \A k \in Key : /\ state[k] \in {"ABSENT", "READY", "UNLOADING"}
                       /\ pinCount[k] = 0

\* Data returned by a setup is never dropped: when the session of a finished
\* setup is collected or drained, the cache holds the data for its teardown.
SetupNeverLost ==
    [][\A c \in Context, f \in Field :
          phase[c][f] = "FINISHED" /\ phase'[c][f] # "FINISHED"
              => state'[KeyOf[f]] = "READY"]_vars

\* The cache keeps the promises of ResourceLifecycle: a context keeps what it
\* owns a pin on, and a user is a live session that acquired the key.
Lifecycle == INSTANCE ResourceLifecycle WITH
    User <- Context \X Operator,
    OwnerOf <- [u \in Context \X Operator |-> u[1]],
    stage <- [k \in Key |-> IF state[k] \in {"READY", "IN_USE"} THEN "LOADED"
                            ELSE state[k]],
    keepers <- [k \in Key |-> {c \in Context : ownedPins[c][k] > 0}],
    users <- [k \in Key |-> Holders(k)]

ImplementsLifecycle == Lifecycle!Spec
-----------------------------------------------------------------------------
\* The coordinator ends the loop it is in: user teardowns return.
LoopStep ==
    \/ \E c \in Context :
           \/ Prepared(c) \/ FinishDrain(c) \/ FinishIteration(c)
           \/ NothingToSettle(c) \/ Finalize(c)
           \/ \E f \in Field : PrepareResource(c, f)
           \/ \E s \in Step : DrainUndispatched(c, s)
           \/ \E k \in Key : Unpin(c, k)
    \/ \E k \in Key : TeardownDone(k) \/ TeardownFailed(k)

\* User code returns (Report), the message queue is first in first out, so
\* every reported session is collected (CollectDraining), and each batch of
\* messages is followed by a pass over all contexts (Visit).
Fairness ==
    /\ WF_vars(LoopStep)
    /\ WF_vars(PrepareEmergency)
    /\ \A c \in Context :
           /\ SF_vars(Visit(c))
           /\ WF_vars(\E s \in Step : Report(c, s))
           /\ SF_vars(\E s \in Step : CollectDraining(c, s))
    /\ WF_vars(EndClose \/ \E k \in Key : Close(k))

FairSpec == Spec /\ Fairness

\* A context that was aborted or has failed is finalized, whatever its
\* sessions were doing and even if the coordinator dies meanwhile.
DrainEnds == \A c \in Context : run[c] = "DRAINING" ~> run[c] = "DONE"

\* Closing ends, with or without failing teardowns.
CloseEnds == engine = "CLOSING" ~> engine = "CLOSED"

\* Whatever was begun to be taken down ends: a context and the engine.
TakedownEnds == DrainEnds /\ CloseEnds
=============================================================================
