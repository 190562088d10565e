---------------------------- MODULE EngineService ----------------------------
(***************************************************************************)
(* The engine as its callers meet it: threads that start it, submit         *)
(* contexts, wait for them, control them and shut it down, steps of         *)
(* supervising contexts that do the same from inside, the runtime loop with *)
(* its coordinator, and the cleanup that whoever began it carries out.      *)
(* Three locks are held across several steps: the supervisor's state and    *)
(* lifecycle locks and the registry's lifecycle lock.  What a context does  *)
(* while it runs is the subject of ContextLifecycle; here it runs and ends. *)
(***************************************************************************)
EXTENDS Authority, Naturals, Sequences

CONSTANTS
    Caller,      \* threads: outside the engine, or the step of a context
    Nobody,      \* owner of a free lock, or of no cleanup
    Instances    \* what the threads call and how the contexts are, by instance

VARIABLES
    plan,        \* the instance: callers, contexts, failFast, grace, faults
    engine,      \* EngineSupervisor: state, activity, failed, cleaning, events
    lock,        \* owners of state, lifecycle and registry
    loop,        \* the runtime loop
    coordinator, \* the coordinator's task
    calls,       \* what other threads have the loop call, in order
    queue,       \* RuntimeMessageQueue: ordinary registrations come last
    turn,        \* what the coordinator is in the middle of
    gateway,     \* EngineGateway: shutdown_ready, failure_revision
    registry,    \* RuntimeRegistry: contexts, shutdown_requested, closed
    context,     \* ContextInstance
    auth,        \* RuntimeMessenger
    runs,        \* the runs handed out, by context and capability
    caller,      \* what each thread has still to call, and where it is
    waiter,      \* the waiter each thread has registered
    cleanup,     \* _execute_shutdown: by whom, and how far
    failer,      \* the thread that shuts down after a failure
    faults       \* how much may still go wrong

vars == <<plan, engine, lock, loop, coordinator, calls, queue, turn, gateway, registry, context,
          auth, runs, caller, waiter, cleanup, failer, faults>>

Failer == "FAILER"
Terminal == {"FINISHED", "FAILED", "ABORTED", "REJECTED"}
Waiting == {"VALIDATED", "QUEUED"}

\* The states a thread may wait for; with NONE it waits for the end only.
Awaitable == Waiting \cup {"NONE", "RUNNING", "ABORTING"}

-----------------------------------------------------------------------------
(* Instances                                                                 *)

Enters == {"SUBMIT", "SUBMIT_INSIDE"}

\* What a thread may call, and with which arguments.
Operation ==
    {o \in [op : Enters \cup {"START", "WAIT", "LIST", "CONTROL", "REQUEST", "SERVE", "SHUTDOWN"},
            of : Context \cup {NoContext}, for : Awaitable, bounded : BOOLEAN, forced : BOOLEAN,
            type : ContextMessages \cup {"NONE"}] :
        /\ o.op \in Enters \cup {"WAIT", "CONTROL"} => o.of \in Context
        /\ o.op = "CONTROL" => o.type \in ContextMessages}

Definition == [controller : BOOLEAN, graphs : SUBSET Graph, graph : Graph,
               fails : {"NEVER", "STEP", "VALIDATION"}]

Setting == [contexts : [Context -> Definition], failFast : BOOLEAN, slow : BOOLEAN, faults : Nat,
            callers : [Caller -> [capability : Context \cup {Engine}, calls : Seq(Operation)]]]

\* Every submission makes a context of its own.
SubmitsOnce(todo) ==
    \A u, v \in Caller : \A i \in DOMAIN todo[u], j \in DOMAIN todo[v] :
        /\ todo[u][i].op \in Enters /\ todo[v][j].op \in Enters
        /\ todo[u][i].of = todo[v][j].of
        => u = v /\ i = j

ASSUME ServiceAssumption ==
    /\ {NoContext, Engine, Modules} \cap Context = {}
    /\ Failer \notin Caller /\ Nobody \notin Caller \cup {Failer}
    /\ \A s \in Instances : s \in Setting /\ SubmitsOnce([u \in Caller |-> s.callers[u].calls])

-----------------------------------------------------------------------------
(* The initial state                                                         *)

NoTurn == [at |-> "NONE", of |-> NoContext]
NoWaiter == [of |-> NoContext, for |-> "NONE", event |-> FALSE]
NoCleanup == [by |-> Nobody, at |-> "NONE", forced |-> FALSE, bounded |-> FALSE, revision |-> 0]

Supervising(c) == plan.contexts[c].graphs # {}
About(c) == plan.contexts[c]
Unfinalized == {c \in registry.contexts : ~context[c].finalized}

Free(l) == lock[l] = Nobody
LoopAvailable == loop = "RUNNING"
CoordinatorAvailable == LoopAvailable /\ coordinator \in {"RUNNING", "STOPPING", "STOPPED"}

Init ==
    /\ plan \in Instances
    /\ engine = [state |-> "CREATED", activity |-> "IDLE", failed |-> FALSE, cleaning |-> FALSE,
                 runtime |-> FALSE, startup |-> TRUE, complete |-> TRUE]
    /\ lock = [state |-> Nobody, lifecycle |-> Nobody, registry |-> Nobody]
    /\ loop = "NONE" /\ coordinator = "NONE"
    /\ calls = << >> /\ queue = [active |-> << >>, submissions |-> << >>] /\ turn = NoTurn
    /\ gateway = [ready |-> FALSE, revision |-> 0]
    /\ registry = [contexts |-> {}, requested |-> FALSE, forced |-> FALSE, closed |-> FALSE]
    /\ context = [c \in Context |-> [state |-> "NEW", finalized |-> FALSE,
                                     stopped |-> FALSE, ended |-> FALSE]]
    /\ auth = Unissued
    /\ runs = [c \in Context |-> [k \in Capability |-> "NONE"]]
    /\ caller = [u \in Caller |-> [todo |-> plan.callers[u].calls, at |-> "IDLE"]]
    /\ waiter = [u \in Caller |-> NoWaiter]
    /\ cleanup = NoCleanup
    /\ failer = "NONE"
    /\ faults = plan.faults

-----------------------------------------------------------------------------
(* Threads                                                                   *)

Capable(u) == plan.callers[u].capability
InStep(u) == Capable(u) # Engine

\* A step begins nothing more once its context drains.
Calls(u, op) ==
    /\ caller[u].at = "IDLE" /\ caller[u].todo # << >> /\ Head(caller[u].todo).op = op
    /\ InStep(u) => context[Capable(u)].state = "RUNNING"
Wants(u) == Head(caller[u].todo)

To(u, at) == caller' = [caller EXCEPT ![u].at = at]
Return(u) == caller' = [caller EXCEPT ![u] = [todo |-> Tail(@.todo), at |-> "IDLE"]]

Hold(l, u) == lock' = [lock EXCEPT ![l] = u]
Release(l) == Hold(l, Nobody)

\* A message from another thread is put when the loop comes to it.
Later(m) == calls' = Append(calls, m)

-----------------------------------------------------------------------------
(* Failures                                                                  *)

StartsCleanup(e) == e.state = "RUNNING" /\ ~e.cleaning

\* EngineSupervisor.report_failure: the first to report has the engine cleaned up.
Reported(e) ==
    LET failed == [e EXCEPT !.failed = TRUE]
    IN IF e.state = "STOPPED" THEN [failed EXCEPT !.state = "FAILED", !.complete = TRUE]
       ELSE IF StartsCleanup(e)
       THEN [failed EXCEPT !.cleaning = TRUE, !.complete = FALSE, !.state = "STOPPING"]
       ELSE failed

ReportFailure ==
    /\ engine' = Reported(engine)
    /\ failer' = IF StartsCleanup(engine) THEN "STARTING" ELSE failer

NotifyFailed == gateway' = [gateway EXCEPT !.revision = @ + 1] /\ ReportFailure

\* Variant: nobody is told that no cleanup was started.
FailedStart_Incomplete(e) == [e EXCEPT !.failed = TRUE, !.state = "FAILED", !.cleaning = FALSE]

FailedStart(e) == [e EXCEPT !.failed = TRUE, !.state = "FAILED", !.cleaning = FALSE, !.complete = TRUE]

\* The thread could not be started: a later shutdown() has to clean up.
FailerNotStarted ==
    /\ failer = "STARTING" /\ faults > 0 /\ Free("state")
    /\ faults' = faults - 1
    /\ engine' = FailedStart(engine)
    /\ failer' = "NONE"
    /\ UNCHANGED <<plan, lock, loop, coordinator, calls, queue, turn, gateway, registry, context,
                   auth, runs, caller, waiter, cleanup>>

BeginCleanup(by, at, forced, bounded) ==
    /\ cleanup' = [by |-> by, at |-> at, forced |-> forced, bounded |-> bounded, revision |-> 0]
    /\ Hold("lifecycle", by)

FailerStarts ==
    /\ failer = "STARTING" /\ Free("lifecycle")
    /\ BeginCleanup(Failer, "COORDINATE", TRUE, FALSE)
    /\ failer' = "RUNNING"
    /\ UNCHANGED <<plan, engine, loop, coordinator, calls, queue, turn, gateway, registry, context,
                   auth, runs, caller, waiter, faults>>

-----------------------------------------------------------------------------
(* Starting                                                                  *)

Start(u) ==
    /\ Calls(u, "START") /\ Free("lifecycle") /\ Free("state")
    /\ IF engine.state = "CREATED"
       THEN /\ Hold("lifecycle", u) /\ To(u, "BUILD")
            /\ engine' = [engine EXCEPT !.state = "STARTING", !.startup = FALSE]
       ELSE Return(u) /\ UNCHANGED <<lock, engine>>
    /\ UNCHANGED <<plan, loop, coordinator, calls, queue, turn, gateway, registry, context, auth,
                   runs, waiter, cleanup, failer, faults>>

\* The runtime issues its capabilities, initializes its modules and starts the loop.
Build(u) ==
    /\ caller[u].at = "BUILD"
    /\ engine' = [engine EXCEPT !.runtime = TRUE]
    /\ auth' = Bootstrapped
    /\ loop' = "RUNNING" /\ coordinator' = "RUNNING"
    /\ To(u, "BUILT")
    /\ UNCHANGED <<plan, lock, calls, queue, turn, gateway, registry, context, runs, waiter,
                   cleanup, failer, faults>>

\* The thread of the loop or an adopted loop does not start the coordinator.
BuildFails(u) ==
    /\ caller[u].at = "BUILD" /\ faults > 0 /\ Free("state")
    /\ faults' = faults - 1
    /\ engine' = [engine EXCEPT !.runtime = TRUE, !.failed = TRUE]
    /\ auth' = Bootstrapped
    /\ To(u, "BUILT")
    /\ UNCHANGED <<plan, lock, loop, coordinator, calls, queue, turn, gateway, registry, context,
                   runs, waiter, cleanup, failer>>

Started(u) ==
    /\ caller[u].at = "BUILT" /\ Free("state")
    /\ IF engine.failed
       THEN /\ engine' = [engine EXCEPT !.state = "STOPPING", !.cleaning = TRUE, !.complete = FALSE]
            /\ BeginCleanup(u, "PREPARE", TRUE, FALSE)
            /\ To(u, "CLEANS")
       ELSE /\ engine' = [engine EXCEPT !.state = "RUNNING", !.activity = "IDLE", !.startup = TRUE]
            /\ Release("lifecycle") /\ Return(u) /\ UNCHANGED cleanup
    /\ UNCHANGED <<plan, loop, coordinator, calls, queue, turn, gateway, registry, context, auth,
                   runs, waiter, failer, faults>>

-----------------------------------------------------------------------------
(* Waiting for a context                                                     *)

\* Variant: a context ends before its report is there.
Matches_Unfinalized(record, for) == record.state \in Terminal \/ record.state = for

\* Its end counts when the report is there, whatever was waited for.
Matches(record, for) == IF record.state \in Terminal THEN record.finalized ELSE record.state = for

Notified(contexts) ==
    [u \in Caller |-> IF waiter[u].of \in Context /\ Matches(contexts[waiter[u].of], waiter[u].for)
                      THEN [waiter[u] EXCEPT !.event = TRUE] ELSE waiter[u]]

Become(contexts) == context' = contexts /\ waiter' = Notified(contexts)

Wait(u) ==
    /\ Calls(u, "WAIT")
    /\ LET c == Wants(u).of
       IN IF runs[c][Capable(u)] = "NONE" \/ Matches(context[c], Wants(u).for)
          THEN Return(u) /\ UNCHANGED waiter
          ELSE /\ waiter' = [waiter EXCEPT ![u] = [of |-> c, for |-> Wants(u).for, event |-> FALSE]]
               /\ To(u, "WAITS")
    /\ UNCHANGED <<plan, engine, lock, loop, coordinator, calls, queue, turn, gateway, registry,
                   context, auth, runs, cleanup, failer, faults>>

Wake(u) ==
    /\ caller[u].at = "WAITS" /\ (waiter[u].event \/ Wants(u).bounded)
    /\ waiter' = [waiter EXCEPT ![u] = NoWaiter]
    /\ Return(u)
    /\ UNCHANGED <<plan, engine, lock, loop, coordinator, calls, queue, turn, gateway, registry,
                   context, auth, runs, cleanup, failer, faults>>

-----------------------------------------------------------------------------
(* Submitting                                                                *)

Submit(u) ==
    /\ Calls(u, "SUBMIT") /\ Free("state")
    /\ IF engine.state = "RUNNING" THEN Hold("state", u) /\ To(u, "REGISTER")
       ELSE Return(u) /\ UNCHANGED lock
    /\ UNCHANGED <<plan, engine, loop, coordinator, calls, queue, turn, gateway, registry, context,
                   auth, runs, waiter, cleanup, failer, faults>>

\* No context is registered once the shutdown has reached the registry.
Accepting == ~registry.closed /\ ~registry.requested

Valid(c) == plan.contexts[c].fails # "VALIDATION"
Reachable(m) == LoopAvailable /\ Received(auth, m, coordinator)
Announced(c) == Message("Registered", c)

\* RuntimeRegistry._register for capability k; e is the supervisor as it then is.
Enrol(c, k, e) ==
    /\ Accepting /\ Valid(c) /\ Reachable(Announced(c))
    /\ registry' = [registry EXCEPT !.contexts = @ \cup {c}]
    /\ Become([context EXCEPT ![c].state = IF Supervising(c) THEN "VALIDATED" ELSE "QUEUED"])
    /\ auth' = RegisterContext(auth, c, About(c))
    /\ runs' = [runs EXCEPT ![c][k] = "ATTACHED"]
    /\ Later(Announced(c))
    /\ engine' = e
    /\ UNCHANGED <<gateway, failer>>

\* A rejected context is finalized at once; its run only tells how it ended.
Reject(c, k, e) ==
    /\ Accepting /\ ~Valid(c)
    /\ Become([context EXCEPT ![c].state = "REJECTED", ![c].finalized = TRUE])
    /\ runs' = [runs EXCEPT ![c][k] = "DETACHED"]
    /\ IF plan.failFast
       THEN /\ gateway' = [gateway EXCEPT !.revision = @ + 1]
            /\ engine' = Reported(e)
            /\ failer' = IF StartsCleanup(e) THEN "STARTING" ELSE failer
       ELSE engine' = e /\ UNCHANGED <<gateway, failer>>
    /\ UNCHANGED <<registry, auth, calls>>

\* Whatever is raised once the registry was entered ends the engine.
Refuse(c, k, e) ==
    /\ ~Accepting \/ (Valid(c) /\ ~Reachable(Announced(c)))
    /\ gateway' = IF k = Engine THEN gateway ELSE [gateway EXCEPT !.revision = @ + 1]
    /\ engine' = Reported(e)
    /\ failer' = IF StartsCleanup(e) THEN "STARTING" ELSE failer
    /\ UNCHANGED <<registry, context, waiter, auth, runs, calls>>

Register(u) ==
    /\ caller[u].at = "REGISTER" /\ Free("registry")
    /\ LET c == Wants(u).of
       IN Enrol(c, Engine, engine) \/ Reject(c, Engine, engine) \/ Refuse(c, Engine, engine)
    /\ To(u, "SUBMITTED")
    /\ UNCHANGED <<plan, lock, loop, coordinator, queue, turn, cleanup, faults>>

SetActivity(e, activity) == IF e.state = "RUNNING" THEN [e EXCEPT !.activity = activity] ELSE e

Submitted(u) ==
    /\ caller[u].at = "SUBMITTED"
    /\ engine' = SetActivity(engine, IF registry.contexts = {} THEN "IDLE" ELSE "ACTIVE")
    /\ Release("state") /\ Return(u)
    /\ UNCHANGED <<plan, loop, coordinator, calls, queue, turn, gateway, registry, context, auth,
                   runs, waiter, cleanup, failer, faults>>

\* From a step: the registry is locked first, and the supervisor told from within.
SubmitFromContext(u) ==
    /\ Calls(u, "SUBMIT_INSIDE") /\ Free("registry")
    /\ IF ~registry.requested /\ IsController(auth, Capable(u))
       THEN Hold("registry", u) /\ To(u, "NOTIFY")
       ELSE Return(u) /\ UNCHANGED lock
    /\ UNCHANGED <<plan, engine, loop, coordinator, calls, queue, turn, gateway, registry, context,
                   auth, runs, waiter, cleanup, failer, faults>>

RegisterFromContext(u) ==
    /\ caller[u].at = "NOTIFY" /\ Free("state")
    /\ LET c == Wants(u).of
           e == SetActivity(engine, "ACTIVE")
       IN Enrol(c, Capable(u), e) \/ Reject(c, Capable(u), e) \/ Refuse(c, Capable(u), e)
    /\ Release("registry") /\ Return(u)
    /\ UNCHANGED <<plan, loop, coordinator, queue, turn, cleanup, faults>>

-----------------------------------------------------------------------------
(* Runs and control                                                          *)

\* Engine.unfinished_contexts, and what a supervising step sees of it.
List(u) ==
    /\ Calls(u, "LIST") /\ (InStep(u) \/ Free("state"))
    /\ LET k == Capable(u)
           seen == IF Active(auth, k)
                   THEN {c \in Visible(auth, k, registry.contexts) : MayAccess(auth, k, c)} ELSE {}
       IN runs' = [c \in Context |-> IF c \in seen /\ runs[c][k] = "NONE"
                                     THEN [runs[c] EXCEPT ![k] = "ATTACHED"] ELSE runs[c]]
    /\ Return(u)
    /\ UNCHANGED <<plan, engine, lock, loop, coordinator, calls, queue, turn, gateway, registry,
                   context, auth, waiter, cleanup, failer, faults>>

\* Through a run only while it has control; a context reaches itself directly.
Controls(u, m) ==
    /\ m.of = Capable(u) \/ runs[m.of][Capable(u)] = "ATTACHED"
    /\ context[m.of].state \notin Terminal
    /\ Permitted(auth, Capable(u), m)

\* A command that cannot be delivered any more is dropped.
Control(u) ==
    /\ Calls(u, "CONTROL")
    /\ LET m == Message(Wants(u).type, Wants(u).of)
       IN IF Controls(u, m) /\ Reachable(m) THEN Later(m) ELSE UNCHANGED calls
    /\ Return(u)
    /\ UNCHANGED <<plan, engine, lock, loop, coordinator, queue, turn, gateway, registry, context,
                   auth, runs, waiter, cleanup, failer, faults>>

Requested(u) == Message("Shutdown", IF Wants(u).forced THEN "FORCED" ELSE "GRACEFUL")

\* RuntimeInterface.shutdown: past the supervisor, to the coordinator.
RequestShutdown(u) ==
    /\ Calls(u, "REQUEST")
    /\ IF Permitted(auth, Capable(u), Requested(u)) /\ Reachable(Requested(u))
       THEN Later(Requested(u)) ELSE UNCHANGED calls
    /\ Return(u)
    /\ UNCHANGED <<plan, engine, lock, loop, coordinator, queue, turn, gateway, registry, context,
                   auth, runs, waiter, cleanup, failer, faults>>

\* A service loop goes on while self.runtime.alive.
Serve(u) ==
    /\ Calls(u, "SERVE") /\ context[Capable(u)].stopped
    /\ Return(u)
    /\ UNCHANGED <<plan, engine, lock, loop, coordinator, calls, queue, turn, gateway, registry,
                   context, auth, runs, waiter, cleanup, failer, faults>>

\* The last session of a context ends, its own step with whatever it called.
EndWork(c) ==
    /\ context[c].state \in {"RUNNING", "ABORTING"} /\ ~context[c].ended
    /\ \A u \in Caller : Capable(u) = c =>
           caller[u].at = "IDLE" /\ (caller[u].todo = << >> \/ context[c].state = "ABORTING")
    /\ context' = [context EXCEPT ![c].ended = TRUE]
    /\ IF LoopAvailable THEN Later(Message("Terminated", c)) ELSE UNCHANGED calls
    /\ UNCHANGED <<plan, engine, lock, loop, coordinator, queue, turn, gateway, registry, auth,
                   runs, caller, waiter, cleanup, failer, faults>>

-----------------------------------------------------------------------------
(* The coordinator                                                           *)

Lane(m) == IF m.type = "Registered" /\ ~Supervising(m.of) THEN "submissions" ELSE "active"
Put(q, m) == [q EXCEPT ![Lane(m)] = Append(@, m)]
QueueEmpty == queue.active = << >> /\ queue.submissions = << >>
DueLane == IF queue.active # << >> THEN "active" ELSE "submissions"
Due == Head(queue[DueLane])
Taken == [queue EXCEPT ![DueLane] = Tail(@)]

Deliver ==
    /\ LoopAvailable /\ calls # << >>
    /\ queue' = Put(queue, Head(calls)) /\ calls' = Tail(calls)
    /\ UNCHANGED <<plan, engine, lock, loop, coordinator, turn, gateway, registry, context, auth,
                   runs, caller, waiter, cleanup, failer, faults>>

Coordinates == LoopAvailable /\ turn = NoTurn /\ coordinator \in {"RUNNING", "STOPPING"}
Accepts(m) == coordinator = "RUNNING" \/ m.type \in AcceptedDuringShutdown
Handles(type) == Coordinates /\ ~QueueEmpty /\ Due.type = type /\ Accepts(Due)

Then(at, c) == turn' = [at |-> at, of |-> c]

\* A context is registered with the manager unless it ended in the meantime.
HandleRegistered ==
    /\ Handles("Registered")
    /\ IF context[Due.of].state \in Waiting /\ Due.of \in registry.contexts
       THEN Become([context EXCEPT ![Due.of].state = "RUNNING"])
       ELSE UNCHANGED <<context, waiter>>
    /\ queue' = Taken
    /\ UNCHANGED <<plan, engine, lock, loop, coordinator, calls, turn, gateway, registry, auth,
                   runs, caller, cleanup, failer, faults>>

Outcome(c) ==
    IF context[c].state = "ABORTING" THEN "ABORTED"
    ELSE IF About(c).fails = "STEP" THEN "FAILED" ELSE "FINISHED"

HandleTerminated ==
    /\ Handles("Terminated")
    /\ Become([context EXCEPT ![Due.of].state = Outcome(Due.of)])
    /\ Then("FINALIZE", Due.of)
    /\ queue' = Taken
    /\ UNCHANGED <<plan, engine, lock, loop, coordinator, calls, gateway, registry, auth, runs,
                   caller, cleanup, failer, faults>>

HandleIdle ==
    /\ Handles("Idle") /\ Free("state")
    /\ engine' = SetActivity(engine, "IDLE")
    /\ queue' = Taken
    /\ UNCHANGED <<plan, lock, loop, coordinator, calls, turn, gateway, registry, context, auth,
                   runs, caller, waiter, cleanup, failer, faults>>

\* Stop lets a running context finish its iteration, abort does not.
Stopped(record) ==
    IF record.state \in Waiting THEN [record EXCEPT !.state = "FINISHED", !.stopped = TRUE]
    ELSE IF record.state = "RUNNING" THEN [record EXCEPT !.stopped = TRUE] ELSE record
Aborted(record) ==
    IF record.state \in Waiting THEN [record EXCEPT !.state = "ABORTED"]
    ELSE IF record.state = "RUNNING" THEN [record EXCEPT !.state = "ABORTING", !.stopped = TRUE]
    ELSE record

HandleControl ==
    /\ Handles("Abort") \/ Handles("Stop")
    /\ LET c == Due.of
           record == IF Due.type = "Abort" THEN Aborted(context[c]) ELSE Stopped(context[c])
       IN /\ Become([context EXCEPT ![c] = record])
          /\ IF record.state \in Terminal /\ ~record.finalized THEN Then("FINALIZE", c)
             ELSE UNCHANGED turn
    /\ queue' = Taken
    /\ UNCHANGED <<plan, engine, lock, loop, coordinator, calls, gateway, registry, auth, runs,
                   caller, cleanup, failer, faults>>

\* A record changes the history of its context; what came too late is dropped.
Discard ==
    /\ Coordinates /\ ~QueueEmpty /\ (Due.type = "Record" \/ ~Accepts(Due))
    /\ queue' = Taken
    /\ UNCHANGED <<plan, engine, lock, loop, coordinator, calls, turn, gateway, registry, context,
                   auth, runs, caller, waiter, cleanup, failer, faults>>

-----------------------------------------------------------------------------
(* Finalizing                                                                *)

Ordinary(contexts) == {c \in contexts : ~Supervising(c)}
Idle(contexts) == contexts = {} /\ CoordinatorAvailable
WithIdle(q, contexts) == IF Idle(contexts) THEN Put(q, Message("Idle", NoContext)) ELSE q

\* Variant: the runs handed to an ended context keep control.
Close_Issued(C) ==
    /\ auth' = UnregisterContexts(auth, C)
    /\ runs' = [c \in Context |-> [k \in Capability |->
                   IF runs[c][k] = "ATTACHED" /\ c \in C THEN "DETACHED" ELSE runs[c][k]]]

\* _finalize_context: the contexts of C leave the registry, their runs lose control.
Close(C) ==
    /\ auth' = UnregisterContexts(auth, C)
    /\ runs' = [c \in Context |-> [k \in Capability |->
                   IF runs[c][k] = "ATTACHED" /\ (c \in C \/ k \in C) THEN "DETACHED" ELSE runs[c][k]]]

Finalize ==
    /\ LoopAvailable /\ turn.at = "FINALIZE" /\ Free("registry")
    /\ LET c == turn.of
           left == registry.contexts \ {c}
       IN /\ Become([context EXCEPT ![c].finalized = TRUE])
          /\ registry' = [registry EXCEPT !.contexts = left]
          /\ Close({c})
          /\ queue' = WithIdle(queue, left)
          /\ IF context[c].state = "FAILED" /\ plan.failFast THEN Then("DECIDE", c) ELSE turn' = NoTurn
    /\ UNCHANGED <<plan, engine, lock, loop, coordinator, calls, gateway, caller, cleanup, failer, faults>>

Decide ==
    /\ LoopAvailable /\ turn.at = "DECIDE" /\ Free("state")
    /\ NotifyFailed
    /\ turn' = NoTurn
    /\ UNCHANGED <<plan, lock, loop, coordinator, calls, queue, registry, context, auth, runs, caller,
                   waiter, cleanup, faults>>

-----------------------------------------------------------------------------
(* Shutting the registry down                                                *)

\* What is waiting ends at once, what runs is stopped or aborted.
Ending(record, forced) ==
    LET after == IF forced THEN Aborted(record) ELSE Stopped(record)
    IN [after EXCEPT !.finalized = after.state \in Terminal]

Asked(C, forced) == [c \in Context |-> IF c \in C THEN Ending(context[c], forced) ELSE context[c]]

\* RuntimeRegistry.request_shutdown: authority is only stopped after all other work.
Draining(forced) ==
    LET C == registry.contexts
        first == Ordinary(C)
    IN IF forced \/ \A c \in first : context[c].state \in Waiting THEN C ELSE first

ShutDown(forced) ==
    LET new == Asked(Draining(forced), forced)
        gone == {c \in registry.contexts : new[c].finalized}
    IN /\ Become(new)
       /\ registry' = [registry EXCEPT !.contexts = @ \ gone, !.requested = TRUE, !.forced = @ \/ forced]
       /\ Close(gone)

HandleShutdown ==
    /\ Handles("Shutdown") /\ Free("registry")
    /\ coordinator' = "STOPPING"
    /\ ShutDown(Due.of = "FORCED")
    /\ queue' = WithIdle(Taken, registry'.contexts)
    /\ UNCHANGED <<plan, engine, lock, loop, calls, turn, gateway, caller, cleanup, failer, faults>>

\* Between two batches: supervising contexts serve until the other work is done.
StopAuthority ==
    /\ Coordinates /\ coordinator = "STOPPING" /\ ~registry.forced /\ Free("registry")
    /\ Ordinary(registry.contexts) = {}
    /\ \E c \in registry.contexts : ~context[c].stopped
    /\ ShutDown(FALSE)
    /\ queue' = WithIdle(queue, registry'.contexts)
    /\ UNCHANGED <<plan, engine, lock, loop, coordinator, calls, turn, gateway, caller, cleanup,
                   failer, faults>>

Complete ==
    /\ Coordinates /\ coordinator = "STOPPING"
    /\ registry.contexts = {} /\ QueueEmpty
    /\ coordinator' = "STOPPED"
    /\ UNCHANGED <<plan, engine, lock, loop, calls, queue, turn, gateway, registry, context, auth,
                   runs, caller, waiter, cleanup, failer, faults>>

FinishRun ==
    /\ LoopAvailable /\ coordinator = "STOPPED"
    /\ coordinator' = "DONE"
    /\ gateway' = [gateway EXCEPT !.ready = TRUE]
    /\ UNCHANGED <<plan, engine, lock, loop, calls, queue, turn, registry, context, auth, runs,
                   caller, waiter, cleanup, failer, faults>>

\* A handler raises: the task of the coordinator ends, and its callback reports it.
Lose ==
    /\ Coordinates /\ ~QueueEmpty /\ faults > 0
    /\ faults' = faults - 1
    /\ coordinator' = "LOST"
    /\ queue' = Taken
    /\ Then("REPORT", NoContext)
    /\ UNCHANGED <<plan, engine, lock, loop, calls, gateway, registry, context, auth, runs, caller,
                   waiter, cleanup, failer>>

ReportLoss ==
    /\ LoopAvailable /\ turn.at = "REPORT" /\ Free("state")
    /\ NotifyFailed
    /\ turn' = NoTurn
    /\ UNCHANGED <<plan, lock, loop, coordinator, calls, queue, registry, context, auth, runs, caller,
                   waiter, cleanup, faults>>

-----------------------------------------------------------------------------
(* Shutting down                                                             *)

\* EngineSupervisor.shutdown: one caller owns the cleanup, the others join it.
Shutdown(u) ==
    /\ Calls(u, "SHUTDOWN") /\ Free("state")
    /\ LET over == engine.state = "STOPPED" \/ (engine.state = "FAILED" /\ (~engine.runtime \/ engine.cleaning))
       IN CASE engine.state = "STARTING" -> To(u, "AWAITS_START") /\ UNCHANGED engine
            [] engine.state = "CREATED" -> Return(u) /\ engine' = [engine EXCEPT !.state = "STOPPED"]
            [] over -> Return(u) /\ UNCHANGED engine
            [] ~over /\ engine.cleaning -> To(u, "JOINS") /\ UNCHANGED engine
            [] OTHER -> /\ To(u, "OWNS")
                        /\ engine' = [engine EXCEPT !.cleaning = TRUE, !.complete = FALSE, !.state = "STOPPING"]
    /\ UNCHANGED <<plan, lock, loop, coordinator, calls, queue, turn, gateway, registry, context, auth,
                   runs, waiter, cleanup, failer, faults>>

StartAwaited(u) ==
    /\ caller[u].at = "AWAITS_START" /\ engine.startup
    /\ To(u, "IDLE")
    /\ UNCHANGED <<plan, engine, lock, loop, coordinator, calls, queue, turn, gateway, registry,
                   context, auth, runs, waiter, cleanup, failer, faults>>

Joined(u) ==
    /\ caller[u].at = "JOINS" /\ (engine.complete \/ Wants(u).bounded)
    /\ Return(u)
    /\ UNCHANGED <<plan, engine, lock, loop, coordinator, calls, queue, turn, gateway, registry,
                   context, auth, runs, waiter, cleanup, failer, faults>>

Own(u) ==
    /\ caller[u].at = "OWNS" /\ Free("lifecycle")
    /\ BeginCleanup(u, "COORDINATE", Wants(u).forced, Wants(u).bounded)
    /\ To(u, "CLEANS")
    /\ UNCHANGED <<plan, engine, loop, coordinator, calls, queue, turn, gateway, registry, context,
                   auth, runs, waiter, failer, faults>>

-----------------------------------------------------------------------------
(* The cleanup                                                               *)

Goes(at) == cleanup' = [cleanup EXCEPT !.at = at]
CleanupFails == engine' = [engine EXCEPT !.failed = TRUE]
Command(forced) == Message("Shutdown", IF forced THEN "FORCED" ELSE "GRACEFUL")

\* The command is refused by a coordinator that has stopped on its own.
Ask(forced) ==
    IF Reachable(Command(forced))
    THEN /\ Later(Command(forced))
         /\ cleanup' = [cleanup EXCEPT !.at = "AWAIT", !.forced = forced, !.revision = gateway.revision]
         /\ UNCHANGED engine
    ELSE CleanupFails /\ Goes("PREPARE") /\ UNCHANGED calls

Coordinate ==
    /\ cleanup.at = "COORDINATE" /\ Free("state")
    /\ IF CoordinatorAvailable
       THEN Ask(cleanup.forced \/ engine.failed) /\ gateway' = [gateway EXCEPT !.ready = FALSE]
       ELSE Goes("PREPARE") /\ UNCHANGED <<engine, calls, gateway>>
    /\ UNCHANGED <<plan, lock, loop, coordinator, queue, turn, registry, context, auth, runs, caller,
                   waiter, failer, faults>>

Coordinated ==
    /\ cleanup.at = "AWAIT" /\ gateway.ready
    /\ Goes("CLOSE")
    /\ UNCHANGED <<plan, engine, lock, loop, coordinator, calls, queue, turn, gateway, registry,
                   context, auth, runs, caller, waiter, failer, faults>>

\* wait_until_shutdown_ready gave up: a failure was reported, or the time is over.
Unanswered == /\ cleanup.at = "AWAIT" /\ ~gateway.ready
              /\ gateway.revision > cleanup.revision \/ cleanup.forced \/ cleanup.bounded

Escalate ==
    /\ Unanswered /\ ~cleanup.forced /\ CoordinatorAvailable /\ Free("state")
    /\ Ask(TRUE)
    /\ UNCHANGED <<plan, lock, loop, coordinator, queue, turn, gateway, registry, context, auth, runs,
                   caller, waiter, failer, faults>>

GiveUp ==
    /\ Unanswered /\ (cleanup.forced \/ ~CoordinatorAvailable)
    /\ Goes("PREPARE")
    /\ UNCHANGED <<plan, engine, lock, loop, coordinator, calls, queue, turn, gateway, registry,
                   context, auth, runs, caller, waiter, failer, faults>>

\* Coroutines of the cleanup run between two turns of the loop, or in a thread.
BetweenTurns == LoopAvailable => turn = NoTurn /\ coordinator # "STOPPED"

Prepare ==
    /\ cleanup.at = "PREPARE" /\ BetweenTurns /\ Free("registry")
    /\ coordinator' = IF CoordinatorAvailable THEN "CANCELLED" ELSE coordinator
    /\ ShutDown(TRUE)
    /\ Goes("DRAIN")
    /\ UNCHANGED <<plan, engine, lock, loop, calls, queue, turn, gateway, caller, failer, faults>>

\* The sessions end, and the contexts are terminated without the coordinator.
Drain ==
    /\ cleanup.at = "DRAIN" /\ Free("registry")
    /\ \A c \in registry.contexts : context[c].ended
    /\ Become([c \in Context |-> IF c \in registry.contexts
                                 THEN [context[c] EXCEPT !.state = Outcome(c), !.finalized = TRUE]
                                 ELSE context[c]])
    /\ registry' = [registry EXCEPT !.contexts = {}]
    /\ Close(registry.contexts)
    /\ Goes("CLOSE")
    /\ UNCHANGED <<plan, engine, lock, loop, coordinator, calls, queue, turn, gateway, caller, failer,
                   faults>>

\* A session that does not end in time: its context stays as it is.
DrainTimesOut ==
    /\ cleanup.at = "DRAIN" /\ plan.slow /\ Free("state")
    /\ \E c \in registry.contexts : ~context[c].ended
    /\ CleanupFails /\ Goes("CLOSE")
    /\ UNCHANGED <<plan, lock, loop, coordinator, calls, queue, turn, gateway, registry, context, auth,
                   runs, caller, waiter, failer, faults>>

\* EngineRuntime.close; the registry refuses while a context is unfinalized.
CloseModules ==
    /\ cleanup.at = "CLOSE" /\ BetweenTurns /\ Free("state")
    /\ IF registry.contexts = {}
       THEN /\ registry' = [registry EXCEPT !.closed = TRUE]
            /\ runs' = [c \in Context |-> [k \in Capability |->
                          IF runs[c][k] = "NONE" THEN "NONE" ELSE "DETACHED"]]
            /\ UNCHANGED engine
       ELSE CleanupFails /\ UNCHANGED <<registry, runs>>
    /\ auth' = ClosedMessenger
    /\ Goes("LOOP")
    /\ UNCHANGED <<plan, lock, loop, coordinator, calls, queue, turn, gateway, context, caller, waiter,
                   failer, faults>>

CloseLoop ==
    /\ cleanup.at = "LOOP" /\ Free("state")
    /\ loop' = IF loop = "RUNNING" THEN "CLOSED" ELSE loop
    /\ calls' = << >>
    /\ engine' = [engine EXCEPT !.runtime = FALSE]
    /\ Goes("FINISH")
    /\ UNCHANGED <<plan, lock, coordinator, queue, turn, gateway, registry, context, auth, runs, caller,
                   waiter, failer, faults>>

FinishCleanup ==
    /\ cleanup.at = "FINISH" /\ Free("state")
    /\ engine' = [engine EXCEPT !.state = IF engine.failed THEN "FAILED" ELSE "STOPPED",
                                !.activity = "IDLE", !.complete = TRUE, !.startup = TRUE]
    /\ Release("lifecycle")
    /\ cleanup' = NoCleanup
    /\ IF cleanup.by = Failer THEN failer' = "DONE" /\ UNCHANGED caller
       ELSE Return(cleanup.by) /\ UNCHANGED failer
    /\ UNCHANGED <<plan, loop, coordinator, calls, queue, turn, gateway, registry, context, auth, runs,
                   waiter, faults>>

-----------------------------------------------------------------------------
(* Specification                                                             *)

Begin(u) == \/ Start(u) \/ Submit(u) \/ SubmitFromContext(u) \/ Wait(u) \/ List(u) \/ Control(u)
            \/ RequestShutdown(u) \/ Serve(u) \/ Shutdown(u)

Continue(u) == \/ Build(u) \/ Started(u) \/ Wake(u) \/ Register(u) \/ Submitted(u)
               \/ RegisterFromContext(u) \/ StartAwaited(u) \/ Joined(u) \/ Own(u)

Coordinator == \/ HandleRegistered \/ HandleTerminated \/ HandleIdle \/ HandleControl \/ Discard
               \/ HandleShutdown \/ Finalize \/ Decide \/ StopAuthority \/ Complete \/ FinishRun
               \/ ReportLoss

Cleanup == \/ Coordinate \/ Coordinated \/ Escalate \/ GiveUp \/ Prepare \/ Drain \/ DrainTimesOut
           \/ CloseModules \/ CloseLoop \/ FinishCleanup

Next == \/ \E u \in Caller : Begin(u) \/ Continue(u) \/ BuildFails(u)
        \/ \E c \in Context : EndWork(c)
        \/ Deliver \/ Coordinator \/ Lose
        \/ FailerStarts \/ FailerNotStarted \/ Cleanup

\* Threads get on, the loop runs what is ready, and steps of a context end.
Fairness ==
    /\ \A u \in Caller : WF_vars(Begin(u) \/ Continue(u))
    /\ \A c \in Context : WF_vars(EndWork(c))
    /\ WF_vars(Deliver) /\ WF_vars(Coordinator)
    /\ WF_vars(FailerStarts \/ FailerNotStarted) /\ WF_vars(Cleanup)

Spec == Init /\ [][Next]_vars /\ Fairness

-----------------------------------------------------------------------------
(* Properties                                                                *)

\* What the registry, the messenger and the runs handed out say about a context.
AccessAgrees ==
    ~auth.closed =>
        /\ DOMAIN auth.scopes = registry.contexts
        /\ \A c \in Context, k \in Capability :
               runs[c][k] = "ATTACHED" => c \in registry.contexts /\ Active(auth, k)

\* When the coordinator says that it is done, nothing is left and nothing comes.
BarrierHolds == coordinator \in {"STOPPED", "DONE"} => registry.contexts = {} /\ registry.requested

\* One cleanup at a time, by the one that marked the engine, under its lock.
OneCleanup ==
    /\ cleanup.by # Nobody => lock.lifecycle = cleanup.by /\ engine.cleaning /\ ~engine.complete
    /\ Cardinality({u \in Caller : caller[u].at \in {"OWNS", "CLEANS"}})
           + (IF failer \in {"STARTING", "RUNNING"} THEN 1 ELSE 0) <= 1

\* Nothing of the runtime outlives its cleanup, and an engine that says STOPPED
\* has finalized every context and taken back every run.
CleanedUp ==
    engine.state \in {"STOPPED", "FAILED"} /\ ~engine.runtime /\ engine.complete =>
        /\ loop # "RUNNING" /\ lock.lifecycle = Nobody
        /\ \A k \in Capability : ~Active(auth, k)
        /\ engine.state = "STOPPED" =>
               /\ registry.contexts = {}
               /\ \A c \in Context : context[c].state \in {"NEW"} \cup Terminal
                                    /\ \A k \in Capability : runs[c][k] # "ATTACHED"

\* An engine with no context and nothing on its way is not left active.
Quiet == /\ engine.state = "RUNNING" /\ coordinator = "RUNNING" /\ Free("state") /\ Free("registry")
         /\ turn = NoTurn /\ calls = << >> /\ QueueEmpty /\ registry.contexts = {}
SettlesIdle == Quiet => engine.activity = "IDLE"

\* EngineAgrees: supervisor, registry, messenger, coordinator and the runs that
\* callers hold agree after every step of any of them, also across a failed
\* start, a lost coordinator and concurrent shutdowns.
EngineAgrees == AccessAgrees /\ BarrierHolds /\ OneCleanup /\ CleanedUp /\ SettlesIdle

\* What a context has not left behind while the awaited state is still to come.
Before(for) ==
    {"NEW"} \cup (IF for \in Waiting THEN {} ELSE Waiting) \cup (IF for = "ABORTING" THEN {"RUNNING"} ELSE {})

\* WaitsTrue: a thread that waits for a context is told as soon as what it waits
\* for is the case; never that a context ended whose report is not there, and
\* never that a state was reached that is still to come
\* (ContextInstance._resolve_waiters, _matches_wait).
WaitsTrue ==
    \A u \in Caller : caller[u].at = "WAITS" =>
        LET record == context[waiter[u].of]
        IN /\ Matches(record, waiter[u].for) => waiter[u].event
           /\ waiter[u].event => record.finalized
                  \/ (waiter[u].for # "NONE" /\ record.state \notin Before(waiter[u].for))

\* CallsReturn: whoever calls the engine gets an answer: every thread outside
\* finishes all it had to call, and a step is never held inside a call.
CallsReturn ==
    \A u \in Caller :
        /\ <>(InStep(u) \/ caller[u].todo = << >>)
        /\ caller[u].at # "IDLE" ~> caller[u].at = "IDLE"

\* SubmissionReturns: "Submission returns a ContextRun immediately"
\* (docs/start/first-graph.md): no submission waits for a lock whose owner is a
\* submission that waits for the lock it holds itself.
SubmissionReturns ==
    \A u, k \in Caller :
        ~ /\ caller[u].at = "REGISTER" /\ lock.registry = k
          /\ caller[k].at = "NOTIFY" /\ lock.state = u
=============================================================================
