-------------------------- MODULE ContextLifecycle --------------------------
(***************************************************************************)
(* The life of contexts in one engine: registry/runtime_registry.py and    *)
(* registry/context_instance.py, scheduler/context.py,                     *)
(* context/context_manager.py, coordinator/coordinator.py with its message *)
(* queue, execution/executor_manager.py, and the shutdown paths of         *)
(* supervisor.py and runtime.py.                                           *)
(*                                                                         *)
(* The coordinator is one coroutine: it takes a batch of messages, handles *)
(* them in order, reconciles placements, acquires sessions from every      *)
(* execution context and starts again.  Users, executors and timers only   *)
(* put messages in its queue.  A handler is one step here, and so is the   *)
(* reconciliation; between two of them anything may be queued.             *)
(*                                                                         *)
(* An execution context has one session at a time here: the steps of a     *)
(* graph, their resources and their concurrent sessions are the module     *)
(* ResourceCache.  An exception that escapes a handler ends the            *)
(* coordinator; the supervisor then drains the engine without it.          *)
(*                                                                         *)
(* A definition named Op_X next to Op is Op with a plausible programming   *)
(* mistake X; no action uses it, and each breaks a property.               *)
(***************************************************************************)
EXTENDS Integers, Sequences, FiniteSets, SequencesExt, Queues

CONSTANTS
    Context,            \* context ids
    Authority,          \* the contexts with supervision or control authority
    Instances,          \* the scenarios that are checked, a set of records
    Capacity,           \* executor capacity for ordinary contexts
    AuthorityCapacity,  \* executor capacity for authority contexts
    ActiveBurst         \* RuntimeMessageQueue._active_burst

ControlCommand == {"Abort", "Pause", "Resume", "Stop", "TransferOut", "TransferIn"}

ASSUME ConstantsAssumption ==
    /\ IsFiniteSet(Context)
    /\ Authority \subseteq Context
    /\ Capacity \in Nat \ {0} /\ AuthorityCapacity \in Nat \ {0}
    /\ ActiveBurst \in Nat \ {0}
    /\ \A p \in Instances :
        /\ p.contexts \subseteq Context /\ p.controlled \in BOOLEAN
        /\ p.commands \subseteq ControlCommand /\ p.shutdowns \subseteq {"GRACEFUL", "FORCED"}
        /\ p.pressures \subseteq BOOLEAN /\ p.pressures # {}
        /\ p.maxIteration \in Nat \ {0} /\ p.maxCommands \in Nat
        /\ p.maxQueue \in Nat

VARIABLES
    plan,         \* the scenario: its contexts and settings, what its users do
    context,      \* each ContextInstance: state, stop_requested, is_local, iteration_count
    unfinalized,  \* terminal contexts whose finalization raised
    pending,      \* contexts with a request in RuntimeRegistry._placement_requests
    queued,       \* ContextScheduler._queued_contexts, in its order
    admitted,     \* ContextScheduler._admitted_contexts
    scheduled,    \* ContextScheduler._reconciliation_scheduled
    timer,        \* whether the loop holds a delayed ReconcileContextsCommand
    executing,    \* ContextManager._contexts
    terminating,  \* ContextManager._termination_pending: those with an outcome
    session,      \* the live session of each execution context
    done,         \* execution contexts whose tracker has no step left
    active,       \* RuntimeMessageQueue._active
    submissions,  \* RuntimeMessageQueue._submissions
    burst,        \* RuntimeMessageQueue._active_count, up to ActiveBurst
    coordinator,  \* the coordinator's state, and the supervisor's steps without it
    batch,        \* whether it has handled a message since it last reconciled
    shutdown,     \* what Supervisor.shutdown has asked for
    commands      \* how many commands and snapshots there have been

registryVars == <<context, unfinalized, pending>>
schedulerVars == <<queued, admitted, scheduled, timer>>
managerVars == <<executing, terminating, session, done>>
queueVars == <<active, submissions, burst>>
engineVars == <<plan, coordinator, shutdown, commands>>
vars == <<registryVars, schedulerVars, managerVars, queueVars, engineVars, batch>>

ControlledRouting == plan.controlled  \* EngineSettings.routing_mode is CONTROLLED
Pressure == plan.pressures            \* what the memory pressure monitor may answer
MaxIteration == plan.maxIteration     \* ContextSettings.max_iterations

Waiting == {"VALIDATED", "ROUTING", "QUEUED"}
Running == {"RUNNING", "PLACEMENT_WAITING"}
Draining == {"ABORTING", "FAILING"}
Terminal == {"REJECTED", "FINISHED", "FAILED", "ABORTED"}
ContextState == Waiting \cup Running \cup {"PAUSED"} \cup Draining \cup Terminal

\* ContextInstance._allowed_transitions; any other transition raises.
Allowed == [from \in ContextState |->
    CASE from = "VALIDATED" -> {"ROUTING", "QUEUED", "RUNNING", "FINISHED", "ABORTED"}
      [] from = "ROUTING" -> {"QUEUED", "FINISHED", "ABORTED"}
      [] from = "QUEUED" -> {"RUNNING", "FINISHED", "ABORTED"}
      [] from = "RUNNING" -> {"PLACEMENT_WAITING", "PAUSED", "ABORTING", "FAILING", "FINISHED"}
      [] from = "PLACEMENT_WAITING" -> {"RUNNING", "PAUSED", "ABORTING", "FAILING", "FINISHED"}
      [] from = "PAUSED" -> {"RUNNING", "PLACEMENT_WAITING", "ABORTING", "FAILING"}
      [] from = "ABORTING" -> {"ABORTED"}
      [] from = "FAILING" -> {"FAILED"}
      [] OTHER -> {}]

ContextRecord ==
    [state : ContextState \cup {"NEW"}, stop : BOOLEAN, local : BOOLEAN, stale : BOOLEAN,
     iteration : Nat]

SessionState == {"NONE", "RESCHEDULED", "DISPATCHED", "REPORTED", "WAITING"}

\* A context in the registry: finalization, which follows every terminal
\* transition in the same handler, removes it.
Registered(c) == context[c].state \notin Terminal \cup {"NEW"}
Local(c) == Registered(c) /\ context[c].local

Pool(c) == IF c \in Authority THEN Authority ELSE Context \ Authority
PoolCapacity(c) == IF c \in Authority THEN AuthorityCapacity ELSE Capacity

\* Messages are pairs of a type and what it is about.
ReconcileMessage == <<"Reconcile", "ALL">>

\* ExecutorManager._completed_sessions: each has its RetrieveSessionCommand.
Completed == {c \in Context : Contains(active, <<"Retrieve", c>>)}

\* executor.free less the completed sessions of the same pool.
Free(c) ==
    PoolCapacity(c) - Cardinality({d \in Pool(c) : session[d] = "DISPATCHED"})
                    - Cardinality(Pool(c) \cap Completed)

Init ==
    /\ plan \in Instances
    /\ context = [c \in Context |->
                    [state |-> "NEW", stop |-> FALSE, local |-> TRUE, stale |-> FALSE,
                     iteration |-> 0]]
    /\ unfinalized = {} /\ pending = {}
    /\ queued = << >> /\ admitted = {}
    /\ scheduled = FALSE /\ timer = FALSE
    /\ executing = {} /\ terminating = {}
    /\ session = [c \in Context |-> "NONE"] /\ done = {}
    /\ active = << >> /\ submissions = << >> /\ burst = 0
    /\ coordinator = "RUNNING" /\ batch = FALSE
    /\ shutdown = "NO" /\ commands = 0

(***************************************************************************)
(* The message queue.  Registrations of ordinary contexts wait in their    *)
(* own queue; the active queue goes first, but at most ActiveBurst times   *)
(* in a row while a registration waits.                                    *)
(***************************************************************************)
FromActive == active # << >> /\ (burst < ActiveBurst \/ submissions = << >>)
NextMessage == IF FromActive THEN Head(active) ELSE Head(submissions)

\* The message in hand is gone and the handler's own messages are queued.
Consume(sent, registered) ==
    /\ active' = (IF FromActive THEN Tail(active) ELSE active) \o sent
    /\ submissions' = (IF FromActive THEN submissions ELSE Tail(submissions)) \o registered
    /\ burst' = IF ~FromActive THEN 0
                ELSE IF burst < ActiveBurst THEN burst + 1 ELSE burst

AcceptedDuringShutdown ==
    {"Registered", "Admitted", "Start", "Retrieve", "Terminated", "Snapshot", "Shutdown"}

Coordinating == coordinator \in {"RUNNING", "STOPPING"}
HasMessage == active # << >> \/ submissions # << >>

\* Coordinator.accepts: past the shutdown boundary other messages are dropped.
Receive(message) ==
    /\ Coordinating /\ HasMessage
    /\ NextMessage = message
    /\ coordinator = "STOPPING" => message[1] \in AcceptedDuringShutdown
    /\ batch' = TRUE

Drop ==
    /\ coordinator = "STOPPING" /\ HasMessage
    /\ NextMessage[1] \notin AcceptedDuringShutdown
    /\ batch' = TRUE
    /\ Consume(<< >>, << >>)
    /\ UNCHANGED <<registryVars, schedulerVars, managerVars, engineVars>>

\* A message about a context that has left the registry or this engine.
Ignore ==
    /\ Consume(<< >>, << >>)
    /\ UNCHANGED <<registryVars, schedulerVars, managerVars, engineVars>>

\* The coordinator's task is over; its state stays what it was.
Lose == coordinator' = IF coordinator = "STOPPING" THEN "LOST_STOPPING" ELSE "LOST"

\* An exception escapes the handler: the coordinator's task ends, and
\* Supervisor.report_failure shuts the engine down.
Fail ==
    /\ Lose
    /\ shutdown' = "FORCED"
    /\ timer' = FALSE
    /\ Consume(<< >>, << >>)
    /\ UNCHANGED <<registryVars, queued, admitted, scheduled, managerVars, plan, commands>>

(***************************************************************************)
(* The scheduler.  Every context runs the same graph here, on one device:  *)
(* a pending request, which the graph's placement history then holds too,  *)
(* keeps every queued context back.                                        *)
(***************************************************************************)
Slots(adm, contexts) ==
    LET busy == {c \in adm : contexts[c].state \notin {"PAUSED", "PLACEMENT_WAITING"}}
        slots == Capacity - Cardinality(busy)
    IN  IF slots > 0 THEN slots ELSE 0

Admission_KeepsQueue(q, adm, contexts, requests, pressured) ==
    LET slots == Slots(adm, contexts)
        n == IF pressured \/ requests # {} THEN 0
             ELSE IF slots < Len(q) THEN slots ELSE Len(q)
    IN  [queued |-> q,
         admitted |-> adm \cup {q[i] : i \in 1..n},
         sent |-> [i \in 1..n |-> <<"Admitted", q[i]>>],
         watch |-> n < Len(q)]

\* _admit_queued_contexts on the queue q: what it admits, and whether the
\* rest needs a reconciliation.
Admission(q, adm, contexts, requests, pressured) ==
    LET slots == Slots(adm, contexts)
        n == IF pressured \/ requests # {} THEN 0
             ELSE IF slots < Len(q) THEN slots ELSE Len(q)
    IN  [queued |-> SubSeq(q, n + 1, Len(q)),
         admitted |-> adm \cup {q[i] : i \in 1..n},
         sent |-> [i \in 1..n |-> <<"Admitted", q[i]>>],
         watch |-> n < Len(q)]

\* RuntimeLoop.submit_after refuses once a shutdown has been asked for.
TimersAccepted == coordinator = "RUNNING" /\ shutdown = "NO"

Watch_NoTimer(needed) ==
    IF needed /\ ~scheduled /\ TimersAccepted
    THEN scheduled' = TRUE /\ UNCHANGED timer
    ELSE UNCHANGED <<scheduled, timer>>

\* _schedule_reconciliation.
Watch(needed) ==
    IF needed /\ ~scheduled /\ TimersAccepted
    THEN scheduled' = TRUE /\ timer' = TRUE
    ELSE UNCHANGED <<scheduled, timer>>

\* The handler has changed the registry; the scheduler admits what it can
\* from q.
Admit(q, adm, registered) ==
    \E pressured \in Pressure :
        LET outcome == Admission(q, adm, context', pending', pressured)
        IN  /\ queued' = outcome.queued
            /\ admitted' = outcome.admitted
            /\ Watch(outcome.watch)
            /\ Consume(outcome.sent, registered)

\* release_context for the contexts of C: others may be admitted in their
\* place, until the engine stops.
Release(C, registered) ==
    LET q == Without(queued, C) IN
    IF coordinator = "RUNNING" /\ q # << >>
    THEN Admit(q, admitted \ C, registered)
    ELSE /\ queued' = q /\ admitted' = admitted \ C
         /\ UNCHANGED <<scheduled, timer>>
         /\ Consume(<< >>, registered)

\* The handler changes only the record of c.
SetContext(c, record) ==
    /\ context' = [context EXCEPT ![c] = record]
    /\ UNCHANGED unfinalized

SetState(c, state) == SetContext(c, [context[c] EXCEPT !.state = state])

\* The context reaches a terminal state and _finalize_context follows.
Conclude(c, record) ==
    /\ SetContext(c, record)
    /\ pending' = pending \ {c}
    /\ Release({c}, << >>)

ConcludeAs(c, state) == Conclude(c, [context[c] EXCEPT !.state = state])

\* The execution contexts of C are gone, with their sessions; a session an
\* executor still has is not.
Leave(C) ==
    /\ executing' = executing \ C
    /\ terminating' = terminating \ C
    /\ done' = done \ C
    /\ session' = [c \in Context |-> IF c \in C /\ session[c] # "DISPATCHED"
                                     THEN "NONE" ELSE session[c]]

(***************************************************************************)
(* What users, remote engines, timers and executors do.                    *)
(***************************************************************************)
\* RuntimeRegistry.register, in the thread of the user who submits.
Submit(c) ==
    /\ coordinator = "RUNNING" /\ shutdown = "NO"
    /\ c \in plan.contexts /\ context[c].state = "NEW"
    /\ UNCHANGED <<pending, schedulerVars, managerVars, burst, engineVars, batch>>
    /\ \/ /\ c \in Authority
          /\ SetState(c, "VALIDATED")
          /\ active' = Append(active, <<"Registered", c>>)
          /\ UNCHANGED submissions
       \/ /\ c \notin Authority /\ ControlledRouting
          /\ SetState(c, "ROUTING")
          /\ UNCHANGED <<active, submissions>>
       \/ /\ c \notin Authority /\ ~ControlledRouting
          /\ SetState(c, "QUEUED")
          /\ submissions' = Append(submissions, <<"Registered", c>>)
          /\ UNCHANGED active

\* A thread puts a message in the active queue, and changes nothing else but
\* what the action says.
Enqueue(message) ==
    /\ active' = Append(active, message)
    /\ UNCHANGED <<registryVars, queued, admitted, scheduled, submissions, burst,
                   coordinator, batch>>

\* One more command; the bound is on the model, not on the engine.
Give(message) ==
    /\ commands < plan.maxCommands /\ Len(active) < plan.maxQueue
    /\ commands' = commands + 1
    /\ Enqueue(message)
    /\ UNCHANGED <<timer, managerVars, plan, shutdown>>

\* ContextRun and the runtime interface queue a command for the coordinator.
GiveCommand(type, c) ==
    /\ coordinator = "RUNNING"
    /\ Registered(c)
    /\ Give(<<type, c>>)

\* Engine.apply of a snapshot the owner of a context elsewhere has published.
ReceiveSnapshot(c) ==
    /\ Coordinating
    /\ Registered(c) /\ ~context[c].local
    /\ Give(<<"Snapshot", c>>)

\* Supervisor._coordinate_shutdown: the timers are cancelled, then the command
\* is queued; a timeout escalates a graceful shutdown once.
RequestShutdown(kind) ==
    /\ Coordinating
    /\ shutdown = "NO" \/ (shutdown = "GRACEFUL" /\ kind = "FORCED")
    /\ shutdown' = kind /\ UNCHANGED plan
    /\ timer' = FALSE
    /\ Enqueue(<<"Shutdown", kind>>)
    /\ UNCHANGED <<managerVars, commands>>

\* The delayed ReconcileContextsCommand is due.
ReconcileTimer ==
    /\ timer /\ Coordinating
    /\ timer' = FALSE
    /\ Enqueue(ReconcileMessage)
    /\ UNCHANGED <<managerVars, plan, shutdown, commands>>

\* ResourceManager._request_reconciliation: something that a pending request
\* may wait for has been released.
NotifyRelease ==
    /\ coordinator = "RUNNING" /\ pending # {}
    /\ ~Contains(active, ReconcileMessage)
    /\ Enqueue(ReconcileMessage)
    /\ UNCHANGED <<timer, managerVars, plan, shutdown, commands>>

\* An executor finishes a session: _queue_completed_session.
Report(c) ==
    /\ session[c] = "DISPATCHED"
    /\ session' = [session EXCEPT ![c] = "REPORTED"]
    /\ IF Coordinating THEN Enqueue(<<"Retrieve", c>>)
       ELSE UNCHANGED <<registryVars, queued, admitted, scheduled, queueVars,
                        coordinator, batch>>
    /\ UNCHANGED <<timer, executing, terminating, done, plan, shutdown, commands>>

(***************************************************************************)
(* Registration, admission and start.                                      *)
(***************************************************************************)
\* ContextManager.register: a second registration is an error.
Register(c) ==
    IF c \in executing THEN Fail
    ELSE /\ executing' = executing \cup {c}
         /\ Consume(<< <<"Start", c>> >>, << >>)
         /\ UNCHANGED <<registryVars, schedulerVars, terminating, session, done, engineVars>>

\* ContextScheduler.admit_context: only a queued context can be admitted.
AdmitContext(c) ==
    IF context[c].state # "QUEUED" THEN Fail
    ELSE /\ UNCHANGED <<registryVars, managerVars, engineVars>>
         /\ Admit(IF Contains(queued, c) THEN queued ELSE Append(queued, c), admitted, << >>)

HandleRegistered(c) ==
    /\ Receive(<<"Registered", c>>)
    /\ IF ~Local(c) THEN Ignore
       ELSE IF c \in Authority THEN Register(c) ELSE AdmitContext(c)

HandleAdmitted(c) ==
    /\ Receive(<<"Admitted", c>>)
    /\ IF Local(c) THEN Register(c) ELSE Ignore

\* start_context.
HandleStart(c) ==
    /\ Receive(<<"Start", c>>)
    /\ IF ~Local(c) THEN Ignore
       ELSE IF context[c].stop
       THEN /\ ConcludeAs(c, "FINISHED")
            /\ UNCHANGED <<managerVars, engineVars>>
       ELSE IF "RUNNING" \notin Allowed[context[c].state] THEN Fail
       ELSE /\ SetContext(c, [context[c] EXCEPT !.state = "RUNNING", !.iteration = @ + 1])
            /\ Consume(<< >>, << >>)
            /\ UNCHANGED <<pending, schedulerVars, managerVars, engineVars>>

\* ContextScheduler.reconcile.
HandleReconcile ==
    /\ Receive(ReconcileMessage)
    /\ UNCHANGED <<registryVars, managerVars, engineVars>>
    /\ \E pressured \in Pressure :
         LET outcome == Admission(queued, admitted, context, pending, pressured)
         IN  /\ queued' = outcome.queued
             /\ admitted' = outcome.admitted
             /\ scheduled' = (outcome.watch /\ TimersAccepted)
             /\ timer' = (timer \/ scheduled')
             /\ Consume(outcome.sent, << >>)

(***************************************************************************)
(* The commands.  For a context that another engine owns they publish a    *)
(* request and change nothing here.                                        *)
(***************************************************************************)
\* The command changes only the record of c.
Update(c, record) ==
    /\ SetContext(c, record)
    /\ Consume(<< >>, << >>)
    /\ UNCHANGED <<pending, schedulerVars, managerVars, engineVars>>

HandleAbort(c) ==
    /\ Receive(<<"Abort", c>>)
    /\ IF ~Local(c) \/ context[c].state \in Draining THEN Ignore
       ELSE /\ UNCHANGED <<managerVars, engineVars>>
            /\ IF context[c].state \in Waiting
               THEN ConcludeAs(c, "ABORTED")
               ELSE /\ SetState(c, "ABORTING")
                    /\ pending' = pending \ {c}
                    /\ Consume(<< >>, << >>)
                    /\ UNCHANGED schedulerVars

HandlePause(c) ==
    /\ Receive(<<"Pause", c>>)
    /\ IF ~Local(c) \/ context[c].state \notin Running THEN Ignore
       ELSE Update(c, [context[c] EXCEPT !.state = "PAUSED"])

Resumed_Running(c, requests) == "RUNNING"

\* The state a paused context resumes to while the placement requests are pending.
Resumed(c, requests) == IF c \in requests THEN "PLACEMENT_WAITING" ELSE "RUNNING"

HandleResume(c) ==
    /\ Receive(<<"Resume", c>>)
    /\ IF ~Local(c) \/ context[c].state # "PAUSED" THEN Ignore
       ELSE Update(c, [context[c] EXCEPT !.state = Resumed(c, pending)])

Stopped_StillPaused(c, record, requests) ==
    [record EXCEPT !.stop = TRUE,
                   !.state = IF @ \in Waiting THEN "FINISHED" ELSE @]

\* _request_stop, and the resumption of a paused context.
Stopped(c, record, requests) ==
    [record EXCEPT !.stop = TRUE,
                   !.state = IF @ \in Waiting THEN "FINISHED"
                             ELSE IF @ = "PAUSED" THEN Resumed(c, requests) ELSE @]

HandleStop(c) ==
    /\ Receive(<<"Stop", c>>)
    /\ IF ~Local(c) \/ context[c].state \in Draining \/ context[c].stop THEN Ignore
       ELSE IF context[c].state \in Waiting
       THEN /\ Conclude(c, Stopped(c, context[c], pending))
            /\ UNCHANGED <<managerVars, engineVars>>
       ELSE Update(c, Stopped(c, context[c], pending))

Transferable(c) ==
    /\ Registered(c) /\ c \notin Authority
    /\ ~context[c].stop /\ context[c].state \notin Draining

\* _change_engine: the context returns to its last completed iteration.
Count(queue, message) == Cardinality({i \in 1..Len(queue) : queue[i] = message})

\* Where the engine remembers that c is still to be started.
StartTokens(c) ==
    Count(submissions, <<"Registered", c>>) + Count(active, <<"Registered", c>>)
        + Count(queued, c) + Count(active, <<"Admitted", c>>) + Count(active, <<"Start", c>>)

\* A context that is taken back while a message of its earlier stay still waits
\* is registered a second time.  The engine does not notice: the mark stale is
\* for the properties.
Overtakes(c) == ~context[c].local /\ StartTokens(c) # 0

Reassigned(c, record, here) ==
    [record EXCEPT !.state = "QUEUED", !.local = here, !.stale = @ \/ (here /\ Overtakes(c))]


HandleTransferOut_AnyState(c) ==
    /\ Receive(<<"TransferOut", c>>)
    /\ IF ~Transferable(c) THEN Ignore
       ELSE /\ SetContext(c, Reassigned(c, context[c], FALSE))
            /\ pending' = pending \ {c}
            /\ Leave({c})
            /\ Release({c}, << >>)
            /\ UNCHANGED engineVars

\* _transfer_context to another engine: nothing of the context stays with
\* this engine's placements, scheduler or context manager.
HandleTransferOut(c) ==
    /\ Receive(<<"TransferOut", c>>)
    /\ IF ~Transferable(c) \/ (context[c].local /\ context[c].state \notin {"ROUTING", "QUEUED"})
       THEN Ignore
       ELSE /\ SetContext(c, Reassigned(c, context[c], FALSE))
            /\ pending' = pending \ {c}
            /\ Leave({c})
            /\ Release({c}, << >>)
            /\ UNCHANGED engineVars

\* _transfer_context to this engine: routing, or taking a context back, for
\* which the scheduler releases it too.
HandleTransferIn(c) ==
    /\ Receive(<<"TransferIn", c>>)
    /\ IF ~Transferable(c) \/ (context[c].local /\ context[c].state # "ROUTING")
       THEN Ignore
       ELSE /\ SetContext(c, Reassigned(c, context[c], TRUE))
            /\ UNCHANGED <<managerVars, engineVars>>
            /\ IF context[c].local
               THEN /\ Consume(<< >>, << <<"Registered", c>> >>)
                    /\ UNCHANGED <<pending, schedulerVars>>
               ELSE /\ pending' = pending \ {c}
                    /\ Release({c}, << <<"Registered", c>> >>)

\* _apply_snapshot of what the owner of a context elsewhere has committed:
\* progress, draining, the end, or an assignment to this engine.  RUNNING stands
\* for all that goes on, ABORTING and FINISHED for what drains and has ended.
HandleSnapshot(c) ==
    /\ Receive(<<"Snapshot", c>>)
    /\ IF ~Registered(c) \/ context[c].local THEN Ignore
       ELSE \E stop \in {s \in BOOLEAN : context[c].stop => s} :
         LET owner == [context[c] EXCEPT !.stop = stop] IN
         \/ \E state \in {"RUNNING", "ABORTING"} :
              /\ context[c].state \in Draining => state \in Draining
              /\ Update(c, [owner EXCEPT !.state = state])
         \/ /\ Conclude(c, [owner EXCEPT !.state = "FINISHED"])
            /\ UNCHANGED <<managerVars, engineVars>>
         \/ /\ context[c].state \notin Draining
            /\ SetContext(c, Reassigned(c, owner, TRUE))
            /\ Consume(<< >>, << <<"Registered", c>> >>)
            /\ UNCHANGED <<pending, schedulerVars, managerVars, engineVars>>

(***************************************************************************)
(* Collecting sessions.                                                    *)
(***************************************************************************)
CanReiterate_Stopped(record) ==
    /\ record.state = "RUNNING"
    /\ record.iteration < MaxIteration

\* complete_iteration starts the next iteration or ends the execution.
CanReiterate(record) ==
    /\ ~record.stop
    /\ record.state = "RUNNING"
    /\ record.iteration < MaxIteration

NextIteration(record) == [record EXCEPT !.iteration = @ + 1]

\* _close_context: an execution that has ended is reported once.
End(C) ==
    /\ terminating' = terminating \cup C
    /\ Consume(SetToSeq({<<"Terminated", c>> : c \in C \ terminating}), << >>)

\* The session is over and the execution goes on.
CollectStep(c) ==
    /\ session' = [session EXCEPT ![c] = "NONE"]
    /\ Consume(<< >>, << >>)
    /\ UNCHANGED <<registryVars, schedulerVars, executing, terminating, done>>

\* A retry or a repetition.
CollectRetry(c) ==
    /\ session' = [session EXCEPT ![c] = "RESCHEDULED"]
    /\ Consume(<< >>, << >>)
    /\ UNCHANGED <<registryVars, schedulerVars, executing, terminating, done>>

\* The step failed for good, or a draining context collects its last session.
CollectLast(c, state) ==
    /\ SetState(c, state)
    /\ session' = [session EXCEPT ![c] = "NONE"]
    /\ End({c})
    /\ UNCHANGED <<pending, schedulerVars, executing, done>>

\* The session made a placement request that has to wait.
CollectWaiting(c) ==
    /\ session' = [session EXCEPT ![c] = "WAITING"]
    /\ pending' = pending \cup {c}
    /\ SetState(c, IF context[c].state = "RUNNING" THEN "PLACEMENT_WAITING"
                   ELSE context[c].state)
    /\ UNCHANGED <<executing, terminating, done>>
    /\ IF queued # << >> THEN Admit(queued, admitted, << >>)
       ELSE /\ Consume(<< >>, << >>)
            /\ UNCHANGED schedulerVars

\* The last step of the iteration: only a running context can finish it now.
CollectIteration(c) ==
    /\ session' = [session EXCEPT ![c] = "NONE"]
    /\ UNCHANGED <<pending, schedulerVars, executing>>
    /\ \/ /\ CanReiterate(context[c])
          /\ SetContext(c, NextIteration(context[c]))
          /\ Consume(<< >>, << >>)
          /\ UNCHANGED <<terminating, done>>
       \/ /\ context[c].state = "RUNNING" /\ ~CanReiterate(context[c])
          /\ done' = done \cup {c}
          /\ End({c})
          /\ UNCHANGED <<context, unfinalized>>
       \/ /\ context[c].state # "RUNNING"
          /\ done' = done \cup {c}
          /\ Consume(<< >>, << >>)
          /\ UNCHANGED <<context, unfinalized, terminating>>

\* A session that was drained meanwhile is ignored; one whose execution
\* context is gone is an error.
HandleRetrieve(c) ==
    /\ Receive(<<"Retrieve", c>>)
    /\ IF session[c] # "REPORTED" THEN Ignore
       ELSE IF c \notin executing THEN Fail
       ELSE /\ UNCHANGED engineVars
            /\ IF context[c].state \in Draining
               THEN CollectLast(c, context[c].state)
               ELSE \/ CollectLast(c, "FAILING")
                    \/ CollectRetry(c)
                    \/ CollectWaiting(c)
                    \/ CollectStep(c)
                    \/ CollectIteration(c)

\* The terminal state of a context whose execution has ended.
Outcome(c) == CASE context[c].state = "ABORTING" -> "ABORTED"
                [] context[c].state = "FAILING" -> "FAILED"
                [] OTHER -> "FINISHED"

\* terminate_context and acknowledge_termination.
HandleTerminated(c) ==
    /\ Receive(<<"Terminated", c>>)
    /\ IF Registered(c) /\ Outcome(c) \notin Allowed[context[c].state] THEN Fail
       ELSE /\ Leave({c})
            /\ UNCHANGED engineVars
            /\ IF Registered(c) THEN ConcludeAs(c, Outcome(c))
               ELSE /\ Consume(<< >>, << >>)
                    /\ UNCHANGED <<registryVars, schedulerVars>>

(***************************************************************************)
(* Shutdown through the coordinator.  Ordinary contexts go first; an       *)
(* authority context keeps its time until the last of them is finalized.   *)
(***************************************************************************)
\* _request_context_shutdown while the requests are pending; it takes contexts of
\* other engines back only to abort them.
Shut(c, record, forced, requests) ==
    IF \/ record.state \in Terminal \cup {"NEW"}
       \/ IF record.local THEN record.state \in Draining ELSE ~forced
    THEN record
    ELSE IF ~forced THEN Stopped(c, record, requests)
    ELSE [record EXCEPT !.local = TRUE,
            !.state = IF record.local /\ @ \notin Waiting THEN "ABORTING" ELSE "ABORTED"]

Over(records, C) == \A c \in C : records[c].state \in Terminal \cup {"NEW"}

WithAuthority_LocalOnly(records, requests) ==
    [c \in Context |->
        IF c \in Authority /\ Over(records, {d \in Context \ Authority : records[d].local})
        THEN Shut(c, records[c], FALSE, requests) ELSE records[c]]

\* finish_authority_shutdown_if_ready, after `records`.
WithAuthority(records, requests) ==
    [c \in Context |-> IF c \in Authority /\ Over(records, Context \ Authority)
                       THEN Shut(c, records[c], FALSE, requests) ELSE records[c]]

\* The registry becomes `records` and `requests`.  The engine stops, so that
\* nothing is admitted in place of what is finalized.
Apply(records, requests) ==
    LET finals == {c \in Context : Registered(c) /\ records[c].state \in Terminal}
        aborting == {c \in Context : records[c].state = "ABORTING"}
    IN  /\ context' = records
        /\ pending' = requests \ (finals \cup aborting)
        /\ queued' = Without(queued, finals)
        /\ admitted' = admitted \ finals
        /\ UNCHANGED <<unfinalized, scheduled, timer>>

HandleShutdown ==
    /\ Receive(<<"Shutdown", "GRACEFUL">>)
    /\ coordinator' = "STOPPING"
    /\ LET told == [c \in Context |-> IF c \in Authority THEN context[c]
                                      ELSE Shut(c, context[c], FALSE, pending)]
       IN  Apply(WithAuthority(told, pending), pending)
    /\ Consume(<< >>, << >>)
    /\ UNCHANGED <<managerVars, plan, shutdown, commands>>

\* Contexts elsewhere are taken back first, which registers them again.
HandleForcedShutdown ==
    LET away == {c \in Context : Registered(c) /\ ~context[c].local} IN
    /\ Receive(<<"Shutdown", "FORCED">>)
    /\ coordinator' = "STOPPING"
    /\ Apply([c \in Context |-> Shut(c, context[c], TRUE, pending)], pending)
    /\ Consume(<< >>, SetToSeq({<<"Registered", c>> : c \in away}))
    /\ UNCHANGED <<managerVars, plan, shutdown, commands>>

(***************************************************************************)
(* Reconciliation, after a batch of messages: requests are granted or      *)
(* revoked, sessions acquired and assigned.  While the engine stops, an    *)
(* empty queue is polled, and the end of the shutdown looked for.          *)
(***************************************************************************)
\* The requests that can be settled: a draining context's are refused.
Settleable == {c \in pending : context[c].state \notin Draining}

\* A granted session goes on and a revoked one starts over.
SettledContexts(P) ==
    [c \in Context |-> IF c \in P /\ context[c].state = "PLACEMENT_WAITING"
                       THEN [context[c] EXCEPT !.state = "RUNNING"] ELSE context[c]]

SettledSessions(P) ==
    [c \in Context |-> IF c \in P /\ session[c] = "WAITING" THEN "RESCHEDULED" ELSE session[c]]

\* finalize_if_drained, of executions without an outcome: what a draining
\* execution no longer waits for, and an iteration that could not be finished
\* when its last step was collected.
Drained(records, sessions) ==
    {c \in executing \ terminating :
        records[c].state \in Draining \cup Terminal /\ sessions[c] # "DISPATCHED"}

Finishing(records, sessions) ==
    {c \in (executing \ terminating) \cap done :
        records[c].state = "RUNNING" /\ sessions[c] = "NONE"}

\* The sets of contexts that dispatch_next may take a session from: as many
\* as the executors have room for.
Dispatches(ready) ==
    LET fits(D) == \A c \in D : Cardinality(D \cap Pool(c)) <= Free(c) IN
    {D \in SUBSET ready : fits(D) /\ \A c \in ready \ D : ~fits(D \cup {c})}

\* ContextManager.acquire and ExecutorManager.assign, for the contexts of P
\* settled, and _complete_shutdown_if_ready.
Reconcile(P) ==
    LET records == SettledContexts(P)
        sessions == SettledSessions(P)
        finishing == Finishing(records, sessions)
        again == {c \in finishing : CanReiterate(records[c])}
        over == (finishing \ again) \cup Drained(records, sessions)
        started == [c \in Context |-> IF c \in again THEN NextIteration(records[c])
                                      ELSE records[c]]
        ready == {c \in executing \ (terminating \cup over) :
                    /\ records[c].local /\ records[c].state \in Running
                    /\ \/ sessions[c] = "RESCHEDULED"
                       \/ sessions[c] = "NONE" /\ c \notin done \ again}
    IN
    /\ Coordinating
    /\ batch \/ (coordinator = "STOPPING" /\ ~HasMessage)
    /\ batch' = FALSE
    /\ \E D \in Dispatches(ready) :
         session' = [c \in Context |-> IF c \in D THEN "DISPATCHED"
                                       ELSE IF c \in over THEN "NONE" ELSE sessions[c]]
    /\ done' = done \ again
    /\ terminating' = terminating \cup over
    /\ active' = active \o SetToSeq({<<"Terminated", c>> : c \in over})
    /\ IF coordinator = "RUNNING"
       THEN /\ context' = started /\ pending' = pending \ P
            /\ UNCHANGED <<unfinalized, schedulerVars, coordinator>>
       ELSE /\ Apply(WithAuthority(started, pending \ P), pending \ P)
            /\ coordinator' = IF /\ Over(context', Context)
                                 /\ executing = {} /\ pending' = {}
                                 /\ \A c \in Context : session'[c] # "DISPATCHED"
                                 /\ active' = << >> /\ submissions = << >>
                              THEN "STOPPED" ELSE "STOPPING"
    /\ UNCHANGED <<executing, submissions, burst, plan, shutdown, commands>>

(***************************************************************************)
(* Shutdown without the coordinator, when it failed or a forced shutdown   *)
(* timed out: EngineRuntime.prepare_emergency_shutdown and close.          *)
(***************************************************************************)
ForcedTimeout ==
    /\ shutdown = "FORCED" /\ Coordinating
    /\ Lose
    /\ UNCHANGED <<registryVars, schedulerVars, managerVars, queueVars, plan, shutdown,
                   commands, batch>>

Lost == coordinator \in {"LOST", "LOST_STOPPING"}

\* The registry aborts its contexts one after the other; those of other engines
\* even if they drain there.
ToAbort == {c \in Context : Registered(c) /\ (context[c].local => context[c].state \notin Draining)}

EmergencyAbort(c) ==
    /\ Lost /\ c \in ToAbort
    /\ context[c].local /\ context[c].state \notin Waiting
    /\ SetState(c, "ABORTING")
    /\ pending' = pending \ {c}
    /\ UNCHANGED <<schedulerVars, managerVars, queueVars, engineVars, batch>>

\* release_context, which admits others in place of c unless the engine was
\* stopping already.  The first of them has nobody to tell: this raises.
EmergencyRelease(c, raises) ==
    \E pressured \in Pressure :
        LET q == Without(queued, {c})
            outcome == Admission(q, admitted \ {c}, context', pending', pressured)
        IN  /\ raises = (coordinator = "LOST" /\ outcome.sent # << >>)
            /\ queued' = IF raises THEN Tail(q) ELSE q
            /\ admitted' = (admitted \ {c}) \cup (IF raises THEN {Head(q)} ELSE {})

\* A context that has not started ends at once; the exception ends the loop over
\* the contexts.
EmergencyConclude(c) ==
    /\ Lost /\ c \in ToAbort
    /\ context[c].local /\ context[c].state \in Waiting
    /\ context' = [context EXCEPT ![c].state = "ABORTED"]
    /\ pending' = pending \ {c}
    /\ \E raises \in BOOLEAN :
         /\ EmergencyRelease(c, raises)
         /\ unfinalized' = unfinalized \cup (IF raises THEN {c} ELSE {})
         /\ coordinator' = IF raises THEN "EMERGENCY" ELSE coordinator
    /\ UNCHANGED <<scheduled, timer, managerVars, queueVars, plan, shutdown, commands, batch>>

\* Taking a context back registers it again, which raises here as well, at the
\* latest when it has become a context of this engine.
EmergencyReclaim(c) ==
    /\ Lost /\ c \in ToAbort
    /\ ~context[c].local
    /\ pending' = pending \ {c}
    /\ \E raises \in BOOLEAN :
         /\ SetContext(c, IF raises THEN context[c] ELSE Reassigned(c, context[c], TRUE))
         /\ EmergencyRelease(c, raises)
    /\ coordinator' = "EMERGENCY"
    /\ UNCHANGED <<scheduled, timer, managerVars, queueVars, plan, shutdown, commands, batch>>

EmergencyReady ==
    /\ Lost /\ ToAbort = {}
    /\ coordinator' = "EMERGENCY"
    /\ UNCHANGED <<registryVars, schedulerVars, managerVars, queueVars, plan, shutdown, commands, batch>>

\* The executors have drained: completed sessions are collected and ended
\* executions finalized, then the modules close.
Recover ==
    LET recovered == {c \in executing : context[c].state \in Draining \cup Terminal} IN
    /\ coordinator = "EMERGENCY"
    /\ \A c \in Context : session[c] # "DISPATCHED"
    /\ coordinator' = "CLOSED"
    /\ context' = [c \in Context |-> IF c \in recovered /\ Registered(c)
                                     THEN [context[c] EXCEPT !.state = Outcome(c)]
                                     ELSE context[c]]
    /\ unfinalized' = unfinalized \ recovered
    /\ pending' = pending \ recovered
    /\ Leave(recovered)
    /\ queued' = << >> /\ admitted' = {} /\ scheduled' = FALSE
    /\ UNCHANGED <<timer, queueVars, plan, shutdown, commands, batch>>

Closed ==
    /\ coordinator \in {"STOPPED", "CLOSED"}
    /\ UNCHANGED vars

(***************************************************************************)
(* The engine.                                                             *)
(***************************************************************************)
HandleOf(c) ==
    \/ HandleRegistered(c) \/ HandleAdmitted(c) \/ HandleStart(c)
    \/ HandleAbort(c) \/ HandlePause(c) \/ HandleResume(c) \/ HandleStop(c)
    \/ HandleTransferOut(c) \/ HandleTransferIn(c) \/ HandleSnapshot(c)
    \/ HandleRetrieve(c) \/ HandleTerminated(c)

Handle ==
    \/ \E c \in Context : HandleOf(c)
    \/ HandleReconcile \/ HandleShutdown \/ HandleForcedShutdown \/ Drop

ReconcileSome == \E P \in SUBSET Settleable : Reconcile(P)

Emergency ==
    \/ \E c \in Context : EmergencyAbort(c) \/ EmergencyConclude(c) \/ EmergencyReclaim(c)
    \/ EmergencyReady \/ Recover

User ==
    \/ \E c \in Context : Submit(c) \/ ReceiveSnapshot(c)
    \/ \E c \in Context, type \in plan.commands : GiveCommand(type, c)
    \/ \E kind \in plan.shutdowns : RequestShutdown(kind)

Next ==
    \/ User \/ Handle \/ ReconcileSome \/ Emergency
    \/ ForcedTimeout \/ ReconcileTimer \/ NotifyRelease
    \/ \E c \in Context : Report(c)
    \/ Closed

Spec == Init /\ [][Next]_vars

(***************************************************************************)
(* Fairness.  The coordinator handles what is queued and reconciles after  *)
(* every batch, whose length is bounded.  The loop fires its timers.  An   *)
(* operator returns.  A waiting request is settled in the end, when the    *)
(* resources it waits for are released or its wait cycle is broken; and a  *)
(* graph has finitely many steps, each with bounded retries.               *)
(***************************************************************************)
EndsIteration(c) ==
    \/ c \in done' \/ c \in terminating'
    \/ context'[c].iteration # context[c].iteration

Fairness ==
    /\ WF_vars(Handle) /\ WF_vars(ReconcileSome) /\ WF_vars(Emergency)
    /\ WF_vars(ReconcileTimer) /\ WF_vars(NotifyRelease)
    /\ \A c \in Context :
        /\ WF_vars(Report(c))
        /\ SF_vars(\E P \in SUBSET Settleable : c \in P /\ Reconcile(P))
        /\ SF_vars(HandleRetrieve(c) /\ EndsIteration(c))

FairSpec == Spec /\ Fairness

(***************************************************************************)
(* Properties.                                                             *)
(***************************************************************************)
MessageType == ControlCommand \cup AcceptedDuringShutdown \cup {"Reconcile"}
Message == MessageType \X (Context \cup {"ALL", "GRACEFUL", "FORCED"})

\* The type invariant: every variable holds what the class it stands for may
\* hold, and what ContextManager keeps about ended executions is about its
\* execution contexts.
TypeOK ==
    /\ context \in [Context -> ContextRecord]
    /\ unfinalized \subseteq Context /\ pending \subseteq Context
    /\ queued \in Seq(Context) /\ admitted \subseteq Context
    /\ scheduled \in BOOLEAN /\ timer \in BOOLEAN
    /\ executing \subseteq Context
    /\ terminating \subseteq executing /\ done \subseteq executing
    /\ session \in [Context -> SessionState]
    /\ active \in Seq(Message) /\ submissions \in Seq(Message)
    /\ burst \in 0..ActiveBurst
    /\ coordinator \in {"RUNNING", "STOPPING", "STOPPED", "LOST", "LOST_STOPPING",
                        "EMERGENCY", "CLOSED"}
    /\ batch \in BOOLEAN
    /\ shutdown \in {"NO", "GRACEFUL", "FORCED"}
    /\ commands \in Nat

\* The registry, the context and the execution context agree about a pending
\* placement request: it is there exactly while a session waits for it, and the
\* state says so unless the context is paused.
PlacementAgrees(c) ==
    /\ c \in pending => /\ c \in executing /\ session[c] = "WAITING"
                        /\ context[c].state \in {"PLACEMENT_WAITING", "PAUSED"}
    /\ context[c].state = "PLACEMENT_WAITING" => c \in pending \/ ~context[c].local
    /\ session[c] = "WAITING" => c \in pending \/ context[c].state \in Draining \cup Terminal

\* A context that waits for its start is in one place on its way through
\* registration, the scheduler and the context manager, and a started one in
\* none: it is not lost, and it is not started twice.
WaitsOnce ==
    Coordinating =>
        \A c \in Context : Local(c) /\ ~context[c].stale =>
            StartTokens(c) = IF context[c].state \in {"VALIDATED", "QUEUED"} THEN 1 ELSE 0

\* An execution that has an outcome has told the coordinator so once, and
\* dispatches nothing any more, until the coordinator has heard it.
OutcomeIsFinal ==
    Coordinating =>
        \A c \in Context :
            /\ Count(active, <<"Terminated", c>>) = IF c \in terminating THEN 1 ELSE 0
            /\ c \in terminating => session[c] = "NONE"

\* Once a stop is accepted no further iteration starts.
StopFinal ==
    [][\A c \in Context :
         context[c].stop => context'[c].stop /\ context'[c].iteration = context[c].iteration]_vars

\* A session that exists belongs to an execution context of this engine that
\* has been started: an executor's report always finds its owner.
SessionOwned ==
    \A c \in Context :
        session[c] # "NONE" => /\ c \in executing /\ context[c].local
                               /\ context[c].state \notin Waiting \cup {"NEW"}

\* A context that has ended or that another engine owns keeps nothing of this
\* engine's scheduler and placements: no slot is lost for the others.
NothingKept(c) ==
    Coordinating /\ ~Local(c) => c \notin pending \cup admitted /\ ~Contains(queued, c)

\* What this engine runs is its own, and the end of every execution is heard of
\* once.
ExecutionsAgree == TypeOK /\ SessionOwned /\ OutcomeIsFinal

\* The registry, the scheduler, the context and its execution context agree about
\* who waits for a placement or for a slot, whatever pauses, stops, aborts and
\* grants come between.  (Otherwise a granted session would never be resumed, or
\* _reconcile would raise.)
PlacementsAgree ==
    \A c \in Context : ~context[c].stale => PlacementAgrees(c) /\ NothingKept(c)

\* In a graceful shutdown no authority context is told to stop while an
\* ordinary context, here or elsewhere, is still to be finalized.
AuthorityLast ==
    [][coordinator' = "STOPPING" /\ shutdown' = "GRACEFUL"
         /\ ~Over(context', Context \ Authority) =>
            \A c \in Authority : context'[c].stop => context[c].stop]_vars

\* Every shutdown ends, whatever was running, waiting or paused.
ShutdownEnds == shutdown # "NO" ~> coordinator \in {"STOPPED", "CLOSED"}

\* A context that aborts or fails here is finalized in the end, and one that waits in
\* a queue is not forgotten there: unless the coordinator is lost, it is started
\* or ends.
ContextsMoveOn ==
    \A c \in Context :
        /\ Local(c) /\ context[c].state \in Draining ~> context[c].state \in Terminal
        /\ context[c].state = "QUEUED" ~> (context[c].state # "QUEUED" \/ ~Coordinating)

(***************************************************************************)
(* What the documentation and the comments say, and the code does not do.  *)
(***************************************************************************)
\* A control request is handled: none of them ends the coordinator.
HandlersSucceed == ~Lost

=============================================================================
