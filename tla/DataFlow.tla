------------------------------ MODULE DataFlow ------------------------------
(***************************************************************************)
(* A compiled graph under execution: the steps of an ExecutionContext and   *)
(* the values its ExecutionArtifactStore keeps for them (engine/context,    *)
(* engine/artifact/store.py).  Operators run concurrently; an operator reads *)
(* its inputs when it is dispatched, its outputs are stored and its inputs   *)
(* dropped when it is collected, and what waited for it becomes ready.  An   *)
(* operator with an input that is None is skipped.                           *)
(*                                                                          *)
(* A value is the step that produced it and the iteration it did so in; the  *)
(* iteration 0 is the application's.  Another engine goes on from the values *)
(* that the last complete iteration left (engine/registry).  Resources,      *)
(* placement, retries and executors are left to ResourceCache,               *)
(* DevicePlacement and ContextLifecycle.                                     *)
(***************************************************************************)
EXTENDS GraphDefinition, Relation

CONSTANTS
    EventLoop,     \* operators whose execute() is a coroutine function
    MayBeAbsent,   \* entries whose value may be None
    MayGiveNone,   \* operators that may return None
    MayFail,       \* operators that may fail
    Repeating,     \* operators that may ask to be repeated
    MaxRepeats,    \* repeats of a step in an iteration
    MaxIterations, \* ContextSettings.max_iterations
    MaxTransfers   \* bound: how often another engine takes the context

VARIABLES
    run,       \* "IDLE", "RUNNING", "DRAINING", "FINISHED", "FAILED"
    iteration, \* ExecutionArtifactStore._iteration
    pending,   \* _pending_dependencies
    ready,     \* _ready_steps
    live,      \* [dispatched or rescheduled steps -> the inputs they have read]
    again,     \* _rescheduled_sessions
    repeats,   \* repeat_count of the live sessions
    made,      \* [steps that are done -> the artifacts they gave a value]
    store,     \* _artifact_data
    entry,     \* _entry_data, the checkpoint
    given,     \* what the iteration started with
    checkpoint \* _checkpoint_data and _completed_iterations of the instance

runVars == <<run, iteration, pending, ready, live, again, repeats, made, store, entry, given, checkpoint>>
vars == <<definitionVars, runVars>>

Nothing == <<>>
None(a) == store[a] = Nothing
Step == DOMAIN plan.steps
StepIn(s) == In(plan.steps[s])
StepOut(s) == Out(plan.steps[s])
After(s) == {t \in Step : s \in plan.before[t]}
Mode(s) == plan.steps[s] \in EventLoop

\* Entries that are exits too carry a value into the next iteration.
Feedback == Entries \cap exits
LastIteration(s) == s.iteration >= MaxIterations

(***************************************************************************)
(* A change of the store: s holds the store and the checkpoint.             *)
(***************************************************************************)
\* ExecutionArtifactStore.update by an operator.
Put(s, a, value) ==
    IF s.store[a] = Nothing /\ value = Nothing THEN s
    ELSE [s EXCEPT !.store[a] = value,
                   !.entry = IF a \in Feedback THEN (a :> value) @@ @ ELSE @]

\* Variant: what an operator regenerates is dropped with its inputs.
Released_Regenerated(s, consumed, produced) ==
    [s EXCEPT !.store = [a \in DOMAIN @ |-> IF a \in consumed THEN Nothing ELSE @[a]],
              !.entry = IF LastIteration(s) THEN Restrict(@, DOMAIN @ \ consumed) ELSE @]

\* release_consumed.
Released(s, consumed, produced) ==
    LET gone == consumed \ produced
    IN  [s EXCEPT !.store = [a \in DOMAIN @ |-> IF a \in gone THEN Nothing ELSE @[a]],
                  !.entry = IF LastIteration(s) THEN Restrict(@, DOMAIN @ \ gone) ELSE @]

\* _store_operator_result: the outputs in `values' get one, the others None.
Stored(s, step, values) ==
    FoldLeft(LAMBDA acc, a : Put(acc, a, IF a \in values THEN <<s.iteration, step>> ELSE Nothing),
             s, SetToSeq(StepOut(step)))

(***************************************************************************)
(* Unlocking: s also holds the counts, the ready steps and what is done.    *)
(***************************************************************************)
Missing(s, step) == \E a \in StepIn(step) : s.store[a] = Nothing

\* _prepare_step of an operator: it is ready, or skipped for good.
Prepared(s, step) ==
    IF Missing(s, step)
    THEN [Released(s, StepIn(step), {}) EXCEPT !.made = (step :> {}) @@ @, !.cascade = Append(@, step)]
    ELSE [s EXCEPT !.ready = Append(@, step)]

\* One completed step releases those that waited for it alone.
Released1(s, step) ==
    FoldLeft(LAMBDA acc, t :
                 LET counted == [acc EXCEPT !.pending[t] = @ - 1]
                 IN  IF counted.pending[t] = 0 THEN Prepared(counted, t) ELSE counted,
             s, SetToSortSeq(After(step), <))

\* _unlock_successors: skipped steps complete in turn.
RECURSIVE Unlocked(_)
Unlocked(s) ==
    IF s.cascade = <<>> THEN s
    ELSE Unlocked(Released1([s EXCEPT !.cascade = Tail(@)], Head(s.cascade)))

Current == [store |-> store, entry |-> entry, pending |-> pending, ready |-> ready,
            made |-> made, iteration |-> iteration, cascade |-> <<>>]

Become(s) ==
    /\ store' = s.store /\ entry' = s.entry /\ pending' = s.pending
    /\ ready' = s.ready /\ made' = s.made /\ iteration' = s.iteration

\* _reset_iteration_state and _initialize_ready_steps.
Fresh(s) ==
    LET counts == [t \in Step |-> Cardinality(plan.before[t])]
        reset == [s EXCEPT !.pending = counts, !.ready = <<>>, !.made = <<>>, !.cascade = <<>>]
        roots == SelectSeq([t \in Step |-> t], LAMBDA t : counts[t] = 0)
    IN  Unlocked(FoldLeft(LAMBDA acc, t : Prepared(acc, t), reset, roots))

AllDone(s) == DOMAIN s.made = Step

(***************************************************************************)
(* What an execution starts from: the checkpoint of the instance, which is  *)
(* the submission at first.                                                 *)
(***************************************************************************)
\* _normalize_artifacts: only artifacts of the graph, and every entry.
Resolved(offered) == offered \subseteq Known
Sufficient(offered) == Entries \subseteq offered

\* ExecutionArtifactStore._initialize: nothing but the entries is loaded.
Loaded(values, completed) ==
    LET first == Restrict(values, Entries)
    IN  [Current EXCEPT !.store = first @@ [a \in Known |-> Nothing], !.entry = first,
                        !.iteration = completed + 1]
Execution(values, completed) == Become(Fresh(Loaded(values, completed))) /\ given' = Restrict(values, Entries)

\* Submission: every entry has a value, which may be None.  What is offered for
\* other artifacts is not kept here, as nothing reads it.
Submit ==
    /\ phase = "COMPILED" /\ run = "IDLE"
    /\ \E offered \in SUBSET Artifact, absent \in SUBSET (MayBeAbsent \cap Entries) :
        LET values == [a \in Entries |-> IF a \in absent THEN Nothing ELSE <<0, 0>>]
        IN  /\ Resolved(offered) /\ Sufficient(offered)
            /\ Execution(values, 0)
            /\ checkpoint' = [completed |-> 0, values |-> values, transfers |-> 0]
    /\ run' = "RUNNING"
    /\ UNCHANGED <<definitionVars, live, again, repeats>>

\* _complete_iteration: what the next iteration would start with.
Checkpointed(s) == checkpoint' = [checkpoint EXCEPT !.completed = s.iteration, !.values = s.entry]

\* The context is taken from its engine, lost or not, and another one goes on
\* with what it decodes from the snapshot; one that lacks an entry is refused.
Resume ==
    /\ run = "RUNNING" /\ checkpoint.transfers < MaxTransfers
    /\ Sufficient(DOMAIN checkpoint.values)
    /\ Execution(checkpoint.values, checkpoint.completed)
    /\ checkpoint' = [checkpoint EXCEPT !.transfers = @ + 1]
    /\ live' = <<>> /\ again' = <<>> /\ repeats' = <<>>
    /\ UNCHANGED <<definitionVars, run>>

\* The first ready step of an execution mode, as dispatch_next finds it; what is
\* rescheduled goes first.
FirstOf(steps, mode) ==
    LET i == SelectInSeq(steps, LAMBDA s : Mode(s) = mode) IN IF i = 0 THEN 0 ELSE steps[i]
WithoutStep(steps, s) == SelectSeq(steps, LAMBDA t : t # s)

\* _create_operator_session reads the inputs.
Dispatch(mode) ==
    /\ run = "RUNNING"
    /\ FirstOf(again, mode) = 0
    /\ LET s == FirstOf(ready, mode)
       IN  /\ s # 0
           /\ ready' = WithoutStep(ready, s)
           /\ live' = (s :> [a \in StepIn(s) |-> store[a]]) @@ live
           /\ repeats' = (s :> 0) @@ repeats
    /\ UNCHANGED <<definitionVars, run, iteration, pending, again, made, store, entry, given, checkpoint>>

Redispatch(mode) ==
    /\ run = "RUNNING" /\ FirstOf(again, mode) # 0
    /\ again' = WithoutStep(again, FirstOf(again, mode))
    /\ UNCHANGED <<definitionVars, run, iteration, pending, ready, live, repeats, made, store, entry, given, checkpoint>>

Executing(s) == s \in DOMAIN live /\ ~Contains(again, s)
Outputs(s) == IF plan.steps[s] \in MayGiveNone THEN SUBSET StepOut(s) ELSE {StepOut(s)}

(***************************************************************************)
(* The end of an iteration, and of the execution.                           *)
(***************************************************************************)
\* ExecutionArtifactStore.repeat.
Restored(s) ==
    [s EXCEPT !.store = [a \in Known |-> IF a \in DOMAIN s.entry THEN s.entry[a] ELSE Nothing]]

\* finalize: only exits are retained, and only of a context that is not draining.
Retained(s, whole) ==
    [s EXCEPT !.store = [a \in Known |-> IF whole /\ a \in exits THEN s.store[a] ELSE Nothing],
              !.entry = <<>>]

FinishIteration(s) ==
    /\ Checkpointed(s)
    /\ \/ /\ ~LastIteration(s)
          /\ Become(Fresh([Restored(s) EXCEPT !.iteration = @ + 1]))
          /\ given' = s.entry
          /\ UNCHANGED run
       \/ \* the last iteration, or a stop was requested
          /\ Become(Retained(s, TRUE))
          /\ run' = "FINISHED"
          /\ UNCHANGED given

\* _collect_finished.
Finish(s) ==
    /\ run = "RUNNING" /\ Executing(s)
    /\ live' = Restrict(live, DOMAIN live \ {s})
    /\ repeats' = Restrict(repeats, DOMAIN repeats \ {s})
    /\ \E values \in Outputs(s) :
        LET kept == Released(Stored(Current, s, values), StepIn(s), StepOut(s))
            after == Unlocked([kept EXCEPT !.made = (s :> values) @@ @, !.cascade = <<s>>])
        IN  IF AllDone(after) THEN FinishIteration(after)
            ELSE Become(after) /\ UNCHANGED <<run, given, checkpoint>>
    /\ UNCHANGED <<definitionVars, again>>

\* finalize_if_drained, when every step was skipped.
FinishSkipped ==
    /\ run = "RUNNING" /\ AllDone(Current) /\ DOMAIN live = {}
    /\ FinishIteration(Current)
    /\ UNCHANGED <<definitionVars, live, again, repeats>>

\* _store_repeated_result: the outputs are stored, the inputs are read again.
Repeat(s) ==
    /\ run = "RUNNING" /\ Executing(s)
    /\ plan.steps[s] \in Repeating /\ repeats[s] < MaxRepeats
    /\ \E values \in Outputs(s) :
        LET after == Stored(Current, s, values)
        IN  /\ Become(after)
            /\ live' = [live EXCEPT ![s] = [a \in StepIn(s) |-> after.store[a]]]
    /\ repeats' = [repeats EXCEPT ![s] = @ + 1]
    /\ again' = Append(again, s)
    /\ UNCHANGED <<definitionVars, run, given, checkpoint>>

Drained == Become(Retained(Current, FALSE)) /\ run' = "FAILED"

\* _collect_failed: the context drains; what was not dispatched is dropped.
Fail(s) ==
    /\ run = "RUNNING" /\ Executing(s) /\ plan.steps[s] \in MayFail
    /\ LET left == {t \in DOMAIN live : Executing(t)} \ {s}
       IN  /\ live' = Restrict(live, left)
           /\ repeats' = Restrict(repeats, left)
           /\ again' = <<>>
           /\ IF left = {} THEN Drained
              ELSE run' = "DRAINING" /\ UNCHANGED <<iteration, pending, ready, made, store, entry>>
    /\ UNCHANGED <<definitionVars, given, checkpoint>>

\* _drain_session: a result that comes now is dropped.
Drain(s) ==
    /\ run = "DRAINING" /\ Executing(s)
    /\ live' = Restrict(live, DOMAIN live \ {s})
    /\ repeats' = Restrict(repeats, DOMAIN repeats \ {s})
    /\ IF DOMAIN live = {s} THEN Drained
       ELSE UNCHANGED <<run, iteration, pending, ready, made, store, entry>>
    /\ UNCHANGED <<definitionVars, again, given, checkpoint>>

RunInit ==
    /\ run = "IDLE" /\ iteration = 0 /\ pending = <<>> /\ ready = <<>> /\ live = <<>>
    /\ again = <<>> /\ repeats = <<>> /\ made = <<>> /\ store = <<>> /\ entry = <<>>
    /\ given = <<>> /\ checkpoint = <<>>

Init == DefinitionInit /\ RunInit

Define == DefinitionNext /\ UNCHANGED runVars
Execute ==
    \/ Submit \/ Resume \/ FinishSkipped
    \/ \E mode \in BOOLEAN : Dispatch(mode) \/ Redispatch(mode)
    \/ \E s \in DOMAIN live : Finish(s) \/ Repeat(s) \/ Fail(s) \/ Drain(s)

\* A program may be refused, or leave its graph unconfirmed.
Terminating == (phase \in {"REFUSED", "CREATED"} \/ run \in {"FINISHED", "FAILED"}) /\ UNCHANGED vars
Next == Define \/ Execute \/ Terminating
Spec == Init /\ [][Next]_vars

(***************************************************************************)
(* Properties.                                                             *)
(***************************************************************************)
Value == {Nothing} \cup ((0..MaxIterations) \X Nat)

\* The type invariant.
TypeOK ==
    /\ phase \in {"DECLARED", "LAYING", "CHECKING", "CREATED", "REFUSED", "COMPILED"}
    /\ state \in {"CREATED", "RESOURCES_BOUND", "CONFIRMED"}
    /\ run \in {"IDLE", "RUNNING", "DRAINING", "FINISHED", "FAILED"}
    /\ iteration \in 0..MaxIterations
    /\ \A a \in DOMAIN store : store[a] \in Value
    /\ \A a \in DOMAIN entry : a \in Entries /\ entry[a] \in Value
    /\ Range(ready) \cap (DOMAIN live \cup DOMAIN made) = {}
    /\ DOMAIN live \cap DOMAIN made = {} /\ DOMAIN live = DOMAIN repeats
    /\ Range(again) \subseteq DOMAIN live
    /\ \A s \in DOMAIN pending : pending[s] \in 0..Len(plan.steps)

\* What the layout gives a step for an input.
Laid(s, a) ==
    LET edge == CHOOSE e \in report.edges : e.to = s /\ e.artifact = a
    IN  CASE edge.from = 0 -> given[a]
          [] edge.from > 0 /\ edge.from \in DOMAIN made /\ a \in made[edge.from]
                -> <<iteration, edge.from>>
          [] OTHER -> Nothing

ReadsAsLaidOut ==
    \A s \in DOMAIN live : \A a \in StepIn(s) :
        live[s][a] = Laid(s, a) \/ (repeats[s] > 0 /\ live[s][a] = <<iteration, s>>)
SkipsAsLaidOut ==
    \A s \in DOMAIN made : made[s] = {} /\ StepOut(s) # {} =>
        \/ plan.steps[s] \in MayGiveNone
        \/ \E a \in StepIn(s) : Laid(s, a) = Nothing
Final(a) == <<iteration, report.producer[a]>>
GivesAsLaidOut ==
    run = "FINISHED" =>
        \A a \in exits : store[a] = IF a \in made[report.producer[a]] THEN Final(a) ELSE Nothing
CarriesAsLaidOut ==
    iteration > 1 /\ Declaring \cap MayGiveNone = {} /\ run = "RUNNING" =>
        \A a \in Feedback : given[a] \in {<<iteration - 1, report.producer[a]>>, Nothing}

\* An artifact flow orders the consumers of its artifact: whatever the
\* interleaving, an operator reads the value the layout gives it, is skipped
\* only if that value is None, and results and the next iteration's entries
\* are those of their last producers.
FlowOrdered ==
    run \in {"RUNNING", "FINISHED"} =>
        ReadsAsLaidOut /\ SkipsAsLaidOut /\ GivesAsLaidOut /\ CarriesAsLaidOut

Before == TransitiveClosure([s, t \in Step |-> s \in plan.before[t]], Step)
\* Whoever regenerates an artifact depends on all who consumed it before.
Regenerated ==
    \A s, t \in Step : s < t /\ StepIn(s) \cap StepOut(t) # {} => Before[s, t]

\* No interleaving of skips, repeats and failures leaves a running context with
\* nothing to dispatch, nothing dispatched and steps that wait: every step is
\* done, ready or held back by one that is neither, and a context whose steps
\* are all done has ended its iteration or is about to.  (Each step of a run
\* uses up a step, a repeat or an iteration, so the run ends.)
NoStepForgotten ==
    run = "RUNNING" =>
        /\ Range(ready) \cup DOMAIN live = {} => AllDone(Current)
        /\ \A s \in Step \ (Range(ready) \cup DOMAIN live \cup DOMAIN made) :
               pending[s] = Cardinality(plan.before[s] \ DOMAIN made) /\ pending[s] > 0

\* As long as a context runs, what its last complete iteration left is enough for
\* another engine to go on (runtime_registry.py: "snapshot is missing a safe entry
\* checkpoint").
Resumable ==
    run = "RUNNING" => Sufficient(DOMAIN checkpoint.values) /\ checkpoint.completed = iteration - 1

\* Every step of a compiled graph gets its turn, and gets the values the layout
\* gives it, in a state that is typed, and the run can go on elsewhere.  The order is
\* promised to the graphs whose regenerating operators depend on the earlier
\* consumers: the compiler does not see to that.
FlowsAsLaidOut == TypeOK /\ NoStepForgotten /\ Resumable /\ (FlowOrdered \/ ~Regenerated)
=============================================================================
