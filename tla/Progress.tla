------------------------------ MODULE Progress ------------------------------
(***************************************************************************)
(* What an engine says of the progress of its contexts, and what it learns *)
(* from them: the reports and progress updates of an ExecutionContext      *)
(* (engine/context, engine/recorders/context), the _ProgressTracker of the *)
(* instance that shows them (engine/progress.py, engine/registry) and the  *)
(* profiles that ProgressHistory keeps of each timing key                  *)
(* (engine/progress_history.py).                                           *)
(*                                                                         *)
(* Updates come from the loop and from executor threads; an iteration, an  *)
(* abort, a transfer and the commit of a profile all rewrite the tracker   *)
(* they go to.  Durations and the estimates computed from them are left    *)
(* out: of a profile only how many completions of a step it has counted,   *)
(* and every step has the same weight in the fraction that is done.        *)
(* What is kept for the database is in HistoryLane, pauses are in          *)
(* ContextLifecycle and other engines in Ownership.                        *)
(***************************************************************************)
EXTENDS Integers, FiniteSets, SequencesExt

CONSTANTS
    Context,
    Graph,         \* [timing key -> [step -> the steps it waits for]]
    MaxProfiles,   \* ProgressHistory._max_profiles
    MaxSteps,      \* _max_step_profiles
    Instances      \* what is checked: the key of each context, its iterations
                   \* (0: unbounded), and the bounds of the environment

VARIABLES
    instance,
    context,       \* the contexts, with what the execution and the tracker keep
    profiles,      \* ProgressHistory._profiles
    recency,       \* _recency, the oldest first
    retained       \* _retained_steps

vars == <<instance, context, profiles, recency, retained>>

Key == DOMAIN Graph
KeyOf(c) == instance.key[c]
Steps(c) == DOMAIN Graph[KeyOf(c)]
Before(c, s) == Graph[KeyOf(c)][s]
Bounded(c) == instance.iterations[c] > 0
Forward == instance.iterationBound     \* bound: iterations of an unbounded context

Draining == {"FAILING", "ABORTING"}
Terminal == {"FINISHED", "FAILED", "ABORTED"}
Over == Terminal \cup {"BROKEN"}       \* BROKEN: an internal check raised
InHand == {"DISPATCHED", "RUNNING"}
Parked == {"AGAIN", "PLACEMENT_WAITING"}
Done == {"COMPLETED", "SKIPPED"}

Total(f) == FoldFunctionOnSet(+, 0, f, DOMAIN f)
Zero(c) == [s \in Steps(c) |-> 0]

(***************************************************************************)
(* The tracker of a context.                                               *)
(***************************************************************************)
NewTracker(c) ==
    [iteration |-> 0, source |-> 0, revision |-> 0,
     shown |-> [s \in Steps(c) |-> "PENDING"], local |-> Zero(c)]

ChangeContext(t, iteration) ==
    [t EXCEPT
       !.revision = @ + 1, !.iteration = iteration,
       !.shown = IF iteration = t.iteration \/ (t.iteration = 0 /\ iteration = 1) THEN @
                 ELSE [s \in DOMAIN @ |-> "PENDING"]]

\* An update that is late, or of an earlier iteration, changes nothing.
Apply(t, revision, iteration, s, state) ==
    IF revision <= t.source \/ iteration < t.iteration THEN t
    ELSE [t EXCEPT
            !.source = revision, !.revision = @ + 1, !.shown[s] = state,
            !.local[s] = IF state = "COMPLETED" /\ t.shown[s] # "COMPLETED" THEN @ + 1 ELSE @]

\* Variant: the completions counted here stay, though the profile has them too.
ReplaceProfile_KeepsLocal(x, profile) ==
    [x EXCEPT !.known = profile, !.tracker.revision = @ + 1]
ReplaceProfile(x, profile) ==
    [x EXCEPT !.known = profile, !.tracker.revision = @ + 1,
              !.tracker.local = [s \in DOMAIN @ |-> 0]]

ShownRevision(x) == IF x.remote > 0 THEN x.remote ELSE x.tracker.revision
ResetTracker(c, x) ==
    LET t == ChangeContext(NewTracker(c), x.completed)
    IN  [t EXCEPT !.revision = Max({@, ShownRevision(x)}) + 1]

Samples(x) == Total(x.known) + Total(x.tracker.local)

\* The estimated fraction of a bounded context, in steps of all its iterations.
Weight(t, s) == IF t.shown[s] \in Done THEN 1 ELSE 0
IterationFraction(t) == FoldFunction(+, 0, [s \in DOMAIN t.shown |-> Weight(t, s)])
Fraction(c, x) ==
    LET t == x.tracker
        width == Cardinality(Steps(c))
    IN  IF x.state \in Terminal THEN instance.iterations[c] * width
        ELSE IF t.iteration = 0 THEN 0
        ELSE (t.iteration - 1) * width + IterationFraction(t)

(***************************************************************************)
(* Reports of the execution context, and the updates they come with.       *)
(***************************************************************************)
Broken(x) == [x EXCEPT !.state = "BROKEN"]

\* An update that is ahead of the tracker raises.
Tell(x, s, state) ==
    LET y == [x EXCEPT !.sent = @ + 1]
    IN  IF x.state \in Over THEN y
        ELSE IF y.sent > x.tracker.source /\ x.iteration > x.tracker.iteration THEN Broken(y)
        ELSE [y EXCEPT !.tracker = Apply(@, y.sent, x.iteration, s, state)]

\* Work prepared before the first RUNNING is recorded as of iteration one.
RecordingIteration(x) == Max({x.iteration, 1})

Become(x, s, state) == Tell([x EXCEPT !.step[s] = state], s, state)
Record(x, s, state) ==
    Become([x EXCEPT !.recent =
              Append(@, [iteration |-> RecordingIteration(x), step |-> s, outcome |-> state])],
           s, state)

FinishedSteps(x) == {s \in DOMAIN x.step : x.step[s] \in Done}
Live(x) == {s \in DOMAIN x.step : x.step[s] \in InHand \cup Parked}
AllDone(x) == FinishedSteps(x) = DOMAIN x.step

\* The steps that have nothing to wait for when those of `skipped` need not run.
Unlocked(c, x, skipped) ==
    {s \in Steps(c) : x.step[s] = "WAITING" /\ Before(c, s) \subseteq FinishedSteps(x) \cup skipped}

Skip(x, s) == Record(x, s, "SKIPPED")

\* Steps are skipped that have no input or whose resource is there already.
Prepare(c, x, skipped) ==
    LET ready == Unlocked(c, x, skipped) \ skipped
        y == FoldLeft(Skip, x, SetToSortSeq(skipped, <))
    IN  [y EXCEPT !.step = [s \in DOMAIN @ |-> IF s \in ready THEN "READY" ELSE @[s]]]
MaySkip(c, x) == {K \in SUBSET Steps(c) : K \subseteq Unlocked(c, x, K)}

ResetIteration(c, x) == [x EXCEPT !.step = [s \in Steps(c) |-> "WAITING"], !.tries = 0]

(***************************************************************************)
(* The history of profiles: h is [profiles, recency, retained].            *)
(***************************************************************************)
History == [profiles |-> profiles, recency |-> recency, retained |-> retained]
Width(k) == Cardinality(DOMAIN Graph[k])
ProfileOf(h, k) ==
    IF k \in DOMAIN h.profiles THEN h.profiles[k] ELSE [s \in DOMAIN Graph[k] |-> 0]

Touch(h, k) ==
    IF k \in Range(h.recency) THEN [h EXCEPT !.recency = Append(Remove(@, k), k)] ELSE h
Remember(h, k, profile) ==
    LET other == IF k \in Range(h.recency) THEN Width(k) ELSE 0
    IN  [profiles |-> [j \in DOMAIN h.profiles \cup {k} |->
                          IF j = k THEN profile ELSE h.profiles[j]],
         recency |-> Append(Remove(h.recency, k), k),
         retained |-> h.retained - other + Width(k)]

Excess(h) == Len(h.recency) > MaxProfiles \/ h.retained > MaxSteps
Forget(h) ==
    [profiles |-> [j \in DOMAIN h.profiles \ {Head(h.recency)} |-> h.profiles[j]],
     recency |-> Tail(h.recency),
     retained |-> h.retained - Width(Head(h.recency))]
Trim(h) == FoldLeft(LAMBDA g, k : IF Excess(g) THEN Forget(g) ELSE g, h, h.recency)

Observed(k, reports) ==
    [s \in DOMAIN Graph[k] |->
        Len(SelectSeq(reports, LAMBDA r : r.step = s /\ r.outcome = "COMPLETED"))]
Repeated(reports) ==
    \E i, j \in DOMAIN reports :
        i < j /\ reports[i].iteration = reports[j].iteration /\ reports[i].step = reports[j].step

Learned(h, k, reports) ==
    LET seen == Observed(k, reports)
    IN  [s \in DOMAIN Graph[k] |-> ProfileOf(h, k)[s] + seen[s]]

\* A graph too wide to be kept is learned from for the context alone.
Commit(h, k, reports) ==
    IF Width(k) > MaxSteps THEN h ELSE Trim(Remember(h, k, Learned(h, k, reports)))

Keep(h) == profiles' = h.profiles /\ recency' = h.recency /\ retained' = h.retained
Put(c, x) == context' = [context EXCEPT ![c] = x]

(***************************************************************************)
(* The end of a context or, when it is unbounded, of one iteration: what   *)
(* was reported becomes part of the profile, unless the context has run    *)
(* elsewhere.  Reports that are no iteration's raise.                      *)
(***************************************************************************)
Learns(c, x, reports) ==
    IF Repeated(reports) THEN Put(c, Broken(x)) /\ Keep(History)
    ELSE IF ~x.local THEN Put(c, x) /\ Keep(History)
    ELSE /\ Put(c, ReplaceProfile(x, Learned(History, KeyOf(c), reports)))
         /\ Keep(Commit(History, KeyOf(c), reports))

Transition(x, state) ==
    [x EXCEPT !.state = state, !.tracker = ChangeContext(@, x.iteration)]

\* A context that never ran has nothing to teach.
Finalize(c, x) ==
    IF Bounded(c) /\ x.iteration > 0 THEN Learns(c, x, x.reports)
    ELSE Put(c, x) /\ Keep(History)

CanReiterate(c, x) ==
    /\ x.state = "RUNNING" /\ ~x.stopped
    /\ x.iteration < IF Bounded(c) THEN instance.iterations[c] ELSE Forward

Reiterate(x) ==
    [x EXCEPT !.iteration = @ + 1, !.tracker = ChangeContext(@, x.iteration + 1)]

\* An unbounded context goes on until it is stopped, here within the bound.
MayFinish(c, x) == Bounded(c) \/ x.stopped \/ x.iteration < Forward

CompleteIteration(x) ==
    [x EXCEPT !.completed = x.iteration, !.reports = @ \o x.recent, !.recent = <<>>]

FinishIteration(c, x) ==
    LET y == CompleteIteration(x)
        known == IF Bounded(c) \/ ~x.local THEN y
                 ELSE ReplaceProfile(y, Learned(History, KeyOf(c), x.recent))
        again == ResetIteration(c, Reiterate(known))
    IN  IF \E i \in DOMAIN x.recent : x.recent[i].iteration # x.iteration
        THEN Put(c, Broken(x)) /\ Keep(History)
        ELSE /\ Keep(IF Bounded(c) \/ ~x.local THEN History
                     ELSE Commit(History, KeyOf(c), x.recent))
             /\ IF CanReiterate(c, x)
                THEN \E skipped \in MaySkip(c, again) : Put(c, Prepare(c, again, skipped))
                ELSE Put(c, [known EXCEPT !.closed = TRUE])

(***************************************************************************)
(* Registration and the start of a context.                                *)
(***************************************************************************)
Untouched(c) ==
    [state |-> "NEW", iteration |-> 0, completed |-> 0, stopped |-> FALSE,
     local |-> TRUE,          \* _learning_scope: it has run nowhere else
     home |-> TRUE,           \* is_local
     remote |-> 0,            \* revision of _remote_progress, 0: None
     transfers |-> 0,
     step |-> <<>>,           \* the execution context, when there is one
     closed |-> FALSE,        \* it has an outcome
     tries |-> 0, sent |-> 0, recent |-> <<>>, reports |-> <<>>,
     tracker |-> NewTracker(c), known |-> Zero(c)]

Register(c) ==
    LET x == context[c]
    IN  /\ x.state = "NEW"
        /\ Put(c, Transition([x EXCEPT !.known = ProfileOf(History, KeyOf(c))], "QUEUED"))
        /\ Keep(Touch(History, KeyOf(c)))

\* What a fresh execution context finds done already, before it may start.
Initialize(c) ==
    LET x == ResetIteration(c, context[c])
    IN  /\ x.state = "QUEUED" /\ x.home /\ context[c].step = <<>>
        /\ \E skipped \in MaySkip(c, x) :
              /\ x.completed = 0 \/ instance.warm \/ skipped = {}
              /\ Put(c, Prepare(c, x, skipped))
        /\ Keep(History)

Start(c) ==
    LET x == context[c]
    IN  /\ x.state = "QUEUED" /\ x.home /\ x.step # <<>>
        /\ Put(c, Reiterate([x EXCEPT !.state = "RUNNING"]))
        /\ Keep(History)

(***************************************************************************)
(* A step on its way: it is dispatched by the loop, begins in its executor *)
(* and is collected by the loop.                                           *)
(***************************************************************************)
Runnable(x) == x.home /\ x.state = "RUNNING" /\ ~x.closed

Dispatch(c, s) ==
    LET x == context[c]
    IN  /\ Runnable(x) /\ x.step[s] \in {"READY", "AGAIN"}
        /\ Put(c, [x EXCEPT !.step[s] = "DISPATCHED"])
        /\ Keep(History)

\* A resource that another context has loaded meanwhile is skipped.
SkipLoaded(c, s) ==
    LET x == context[c]
        y == Skip(x, s)
    IN  /\ instance.faults /\ Runnable(x) /\ x.step[s] = "READY"
        /\ \E skipped \in MaySkip(c, y) : Put(c, Prepare(c, y, skipped))
        /\ Keep(History)

Begin(c, s) ==
    LET x == context[c]
    IN  /\ x.state \in {"RUNNING"} \cup Draining /\ x.step[s] = "DISPATCHED"
        /\ Put(c, Become(x, s, "RUNNING"))
        /\ Keep(History)

Collectable(x, s) == x.state = "RUNNING" /\ x.step[s] = "RUNNING"

\* It asks for a placement, is repeated or is tried again.
CollectParked(c, s) ==
    LET x == [context[c] EXCEPT !.tries = @ + 1]
    IN  /\ Collectable(x, s) /\ x.tries <= instance.tries
        /\ \/ Put(c, Tell([x EXCEPT !.step[s] = "AGAIN"], s, "PENDING"))
           \/ Put(c, Become(x, s, "PLACEMENT_WAITING"))
        /\ Keep(History)

\* The answer to the request: granted, or taken back.
Unpark(c, s) ==
    LET x == context[c]
    IN  /\ x.state = "RUNNING" /\ x.step[s] = "PLACEMENT_WAITING"
        /\ Put(c, Tell([x EXCEPT !.step[s] = "AGAIN"], s, "PENDING"))
        /\ Keep(History)

\* What waited for the step is prepared before the step itself is reported.
CollectFinished(c, s) ==
    LET x == context[c]
        y == [x EXCEPT !.step[s] = "COMPLETED"]
    IN  /\ Collectable(x, s)
        /\ \E skipped \in MaySkip(c, y) :
              LET z == Record(Prepare(c, y, skipped), s, "COMPLETED")
              IN  IF AllDone(z) THEN MayFinish(c, z) /\ FinishIteration(c, z)
                  ELSE Put(c, z) /\ Keep(History)

\* Every step of the iteration was skipped: the next visit finishes it.
FinishSkipped(c) ==
    LET x == context[c]
    IN  /\ Runnable(x) /\ AllDone(x)
        /\ MayFinish(c, x) /\ FinishIteration(c, x)

(***************************************************************************)
(* The end of an execution context before its work is done.                *)
(***************************************************************************)
Drained(x) ==
    LET parked == {s \in DOMAIN x.step : x.step[s] \in Parked}
        y == FoldLeft(LAMBDA z, s : Record(z, s, "CANCELLED"), x, SetToSortSeq(parked, <))
    IN  [y EXCEPT !.closed = Live(y) = {}]

CollectFailed(c, s) ==
    LET x == context[c]
    IN  /\ instance.faults /\ Collectable(x, s)
        /\ Put(c, Drained(Transition(Record(x, s, "FAILED"), "FAILING")))
        /\ Keep(History)

CollectDraining(c, s) ==
    LET x == context[c]
    IN  /\ x.state \in Draining /\ x.step[s] = "RUNNING"
        /\ Put(c, Drained(Record(x, s, "CANCELLED")))
        /\ Keep(History)

Visit(c) ==
    LET x == context[c]
    IN  /\ x.state \in Draining /\ Drained(x) # x
        /\ Put(c, Drained(x))
        /\ Keep(History)

Abort(c) ==
    LET x == context[c]
    IN  /\ instance.faults
        /\ \/ /\ x.state = "QUEUED" /\ x.home
              /\ Finalize(c, Transition(x, "ABORTED"))
           \/ /\ x.state = "RUNNING" /\ x.home
              /\ Put(c, Transition(x, "ABORTING"))
              /\ Keep(History)

Stop(c) ==
    LET x == [context[c] EXCEPT !.stopped = TRUE]
    IN  /\ ~context[c].stopped
        /\ instance.faults \/ ~Bounded(c)
        /\ \/ /\ x.state = "QUEUED" /\ x.home
              /\ Finalize(c, Transition(x, "FINISHED"))
           \/ /\ x.state = "RUNNING" /\ x.home
              /\ Put(c, x)
              /\ Keep(History)

\* The event with the outcome is handled.
Outcome(x) ==
    CASE x.state = "ABORTING" -> "ABORTED"
      [] x.state = "FAILING" -> "FAILED"
      [] OTHER -> "FINISHED"
Terminate(c) ==
    LET x == context[c]
    IN  /\ x.closed /\ x.state \in {"RUNNING"} \cup Draining
        /\ Finalize(c, Transition([x EXCEPT !.reports = @ \o x.recent, !.recent = <<>>], Outcome(x)))

(***************************************************************************)
(* The context is handed to another engine, is shown as that one reports   *)
(* it, and is taken back from its last complete iteration.                 *)
(***************************************************************************)
ChangeEngine(c, x, home) ==
    [x EXCEPT !.local = FALSE, !.home = home, !.remote = 0, !.transfers = @ + 1,
              !.state = "QUEUED", !.iteration = x.completed,
              !.step = <<>>, !.sent = 0, !.recent = <<>>,
              !.tracker = ResetTracker(c, x)]

Away(c) ==
    LET x == context[c]
    IN  /\ x.state = "QUEUED" /\ x.home /\ x.transfers < instance.transfers
        /\ Put(c, ChangeEngine(c, x, FALSE))
        /\ Keep(History)

\* The owner has done one more iteration, of which all steps finished.
Elsewhere(c) ==
    LET x == context[c]
        after == x.completed + 1
        done == [i \in 1 .. Cardinality(Steps(c)) |->
                    [iteration |-> after, step |-> SetToSortSeq(Steps(c), <)[i],
                     outcome |-> "COMPLETED"]]
    IN  /\ ~x.home
        /\ after < IF Bounded(c) THEN instance.iterations[c] ELSE Forward
        /\ Put(c, [x EXCEPT !.completed = after, !.iteration = after + 1, !.state = "RUNNING",
                            !.reports = @ \o done, !.remote = ShownRevision(x) + 1])
        /\ Keep(History)

Back(c) ==
    LET x == context[c]
    IN  /\ ~x.home
        /\ Put(c, ChangeEngine(c, x, TRUE))
        /\ Keep(History)

Init ==
    /\ instance \in Instances
    /\ context = [c \in Context |-> Untouched(c)]
    /\ profiles = <<>> /\ recency = <<>> /\ retained = 0

OfContext(c) ==
    \/ Register(c) \/ Initialize(c) \/ Start(c) \/ FinishSkipped(c) \/ Terminate(c)
    \/ Visit(c) \/ Abort(c) \/ Stop(c) \/ Away(c) \/ Elsewhere(c) \/ Back(c)
OfStep(c, s) ==
    \/ Dispatch(c, s) \/ SkipLoaded(c, s) \/ Begin(c, s) \/ CollectParked(c, s) \/ Unpark(c, s)
    \/ CollectFinished(c, s) \/ CollectFailed(c, s) \/ CollectDraining(c, s)

Next ==
    /\ UNCHANGED instance
    /\ \E c \in instance.contexts :
          OfContext(c) \/ \E s \in DOMAIN context[c].step : OfStep(c, s)

Spec == Init /\ [][Next]_vars

(***************************************************************************)
(* Properties.                                                             *)
(***************************************************************************)
\* What is shown of every step is what the step is doing, and every update that
\* was sent has arrived: none is dropped as late, whichever thread sent it.
Shows(state) ==
    IF state \in {"WAITING", "READY", "DISPATCHED", "AGAIN"} THEN "PENDING" ELSE state
ShownIsTrue(x) ==
    x.home /\ x.step # <<>> =>
        /\ \A s \in DOMAIN x.step : x.tracker.shown[s] = Shows(x.step[s])
        /\ x.tracker.source = x.sent /\ x.tracker.iteration = x.iteration

\* A completion is counted once among the samples of an estimate: in the profile
\* or, until that is replaced, by the tracker itself.
Completions(x) ==
    Len(SelectSeq(x.reports \o x.recent, LAMBDA r : r.outcome = "COMPLETED"))
AllCompletions(k) ==
    Total([c \in {d \in Context : KeyOf(d) = k} |-> Completions(context[c])])
CountedOnce(c) ==
    LET x == context[c]
    IN  /\ Samples(x) <= AllCompletions(KeyOf(c))
        /\ x.local /\ Bounded(c) => Samples(x) >= Completions(x)

\* The fraction shown of a running context is what has been reported as done, here
\* or where it ran before (progress.py, recorder.py).
FractionTrue(c) ==
    LET x == context[c]
    IN  Bounded(c) /\ x.home /\ x.state = "RUNNING" =>
            Fraction(c, x) = Len(SelectSeq(x.reports \o x.recent, LAMBDA r : r.outcome \in Done))

\* The profiles kept are those of the recency list, within both limits.
WithinLimits ==
    /\ DOMAIN profiles = Range(recency) /\ IsInjective(recency)
    /\ Len(recency) <= MaxProfiles /\ retained <= MaxSteps
    /\ retained = Total([k \in Range(recency) |-> Width(k)])
    /\ \A k \in DOMAIN profiles : Total(profiles[k]) <= AllCompletions(k)

\* No check of reports raises: an iteration's reports are all of that iteration, a
\* context has one of each step of an iteration (recorders/context/recorder.py,
\* progress_history.py).
ReportsConsistent == \A c \in Context : context[c].state # "BROKEN"

\* What is shown of a context never goes back, also when another engine takes it
\* over and when it returns.
NeverBack ==
    [][\A c \in Context : ShownRevision(context'[c]) >= ShownRevision(context[c])]_vars

(* The progress that is shown of a context is true, never goes back and counts *)
(* no completion twice, and what is learned from contexts stays within its     *)
(* limits (engine/progress.py, engine/progress_history.py).                    *)
ProgressTrue ==
    /\ [](ReportsConsistent /\ WithinLimits
          /\ \A c \in instance.contexts : ShownIsTrue(context[c]) /\ CountedOnce(c) /\ FractionTrue(c))
    /\ NeverBack
=============================================================================
