------------------------------ MODULE Ownership ------------------------------
(***************************************************************************)
(* Ownership of a context among engines, as RuntimeRegistry and            *)
(* ContextInstance keep it (engine/registry), with the snapshots that an   *)
(* application carries between them.  An engine tracks a context as its    *)
(* owner or as a shadow of another engine's; a transfer opens a new        *)
(* generation, every change raises the revision, and both fence what       *)
(* arrives late.                                                           *)
(*                                                                         *)
(* Every snapshot a handler leaves behind may be carried to any engine, at *)
(* any time, in any order, twice or never: `network` only grows.  A lost   *)
(* engine is one that takes no more steps, a restarted one is another      *)
(* member of Worker, since an engine id names one incarnation.  Transfers  *)
(* are issued at Home, where contexts are submitted: the application has   *)
(* one router.  Pause, placement and failure are in ContextLifecycle.      *)
(* A snapshot carries what an operator has recorded and the reports of the *)
(* iterations; artifact values are in DataFlow.                            *)
(***************************************************************************)
EXTENDS Integers, FiniteSets, Sequences, SequencesExt, Functions

CONSTANTS Home,           \* the engine contexts are submitted to
          Worker,         \* the other engine incarnations
          Context,        \* context ids
          RemoteLimit,    \* remote_context_id_limit of every engine
          MaxGeneration,  \* bound: transfers of one context
          Instances       \* the instances that are checked, see below

Engine == {Home} \cup Worker
Generation == 0 .. MaxGeneration

VARIABLES instance,       \* the routing_mode of Home and the bounds
          engine,         \* RUNNING, STOPPING, or why it stopped serving
          context,        \* _contexts, with the ContextInstance of each
          retired,        \* _retired_contexts: the generation that ended here
          slots,          \* _ownership_slots
          pending,        \* _ownership_pending: reservations per context
          inbox,          \* accepted Apply and Transfer commands
          held,           \* reservations of this batch not yet given back
          registrations,  \* ContextRegisteredEvents not yet handled
          network,        \* snapshots published so far
          starts,         \* how often a generation of a context was started
          commands        \* how many commands were given (bound)

vars == <<instance, engine, context, retired, slots, pending, inbox, held,
          registrations, network, starts, commands>>

Queued == {"ROUTING", "QUEUED"}
Terminal == {"FINISHED", "ABORTED"}
Larger(a, b) == IF a > b THEN a ELSE b

(***************************************************************************)
(* One context instance.  revision is _snapshot_revision, status is        *)
(* status.revision, accepted is _accepted_request_revision, and safe says  *)
(* that the checkpoint has a value for every entry.                        *)
(***************************************************************************)
Fresh == [generation |-> 0, revision |-> 0, status |-> 0, owner |-> Home,
          state |-> "SUBMITTED", iteration |-> 0, completed |-> 0, safe |-> TRUE,
          records |-> <<>>, reports |-> <<>>, accepted |-> -1, history |-> <<>>]
Untracked == [Fresh EXCEPT !.generation = -1, !.revision = -1, !.state = "UNTRACKED"]

Tracked(e, c) == context[e][c].state # "UNTRACKED"
StopEntries(h) == SelectSeq(h, LAMBDA n : n.kind = "STOP")
Stopped(x) == StopEntries(x.history) # <<>>

Log(x, kind, from, to, number) ==
    [x EXCEPT !.status = @ + 1,
              !.history = Append(@, [kind |-> kind, from |-> from, to |-> to,
                                     number |-> number, at |-> x.completed,
                                     revision |-> x.status + 1])]
Touch(x) == [x EXCEPT !.revision = Larger(@ + 1, x.status)]
Become(x, s) == [Log(x, "STATE", x.state, s, 0) EXCEPT !.state = s]
Move(x, s) == Touch(Become(x, s))
StartIteration(x) ==
    Touch([Log(x, "ITERATION", x.owner, x.owner, x.iteration + 1)
             EXCEPT !.iteration = @ + 1])

SnapshotOf(c, x, request, final) ==
    [context |-> c, generation |-> x.generation, revision |-> x.revision,
     owner |-> x.owner, state |-> x.state, iteration |-> x.iteration,
     completed |-> x.completed, safe |-> x.safe, records |-> x.records, reports |-> x.reports,
     history |-> x.history, request |-> request, final |-> final]

(***************************************************************************)
(* What a handler does to one context: the instance it leaves, what it     *)
(* publishes, whether the context ended and how the registrations for     *)
(* admission that wait change.                                             *)
(***************************************************************************)
Idle(x) == [entry |-> x, sent |-> {}, final |-> FALSE, registers |-> 0]
Commits(c, x) == [Idle(x) EXCEPT !.sent = {SnapshotOf(c, x, "NONE", FALSE)}]
Request(x, request) == Touch(Log(x, "REQUEST", x.owner, request, 0))
Requests(c, x, request) ==
    LET y == Request(x, request)
    IN [Idle(y) EXCEPT !.sent = {SnapshotOf(c, y, request, FALSE)}]
Ends(c, x, outcome) ==
    LET y == Touch(Move(x, outcome))
    IN [Idle(y) EXCEPT !.sent = {SnapshotOf(c, y, "NONE", TRUE)}, !.final = TRUE]

Stops(e, c, x) ==
    LET y == Touch(Log(x, "STOP", e, e, x.generation))
    IN IF x.state = "ABORTING" \/ Stopped(x) THEN Idle(x)
       ELSE IF x.owner # e THEN Requests(c, x, "STOP")
       ELSE IF x.state \in Queued
            THEN [Ends(c, y, "FINISHED") EXCEPT !.sent = @ \cup Commits(c, y).sent]
       ELSE Commits(c, y)

Aborts(e, c, x) ==
    IF x.state = "ABORTING" THEN Idle(x)
    ELSE IF x.owner # e THEN Requests(c, x, "ABORT")
    ELSE IF x.state \in Queued THEN Ends(c, x, "ABORTED")
    ELSE Commits(c, Move(x, "ABORTING"))

\* Variant: a context that waits for its route keeps that state.
ChangeEngine_KeepsState(x, to) ==
    LET y == [Log(x, "OWNER", x.owner, to, x.generation + 1)
                EXCEPT !.generation = @ + 1, !.owner = to, !.accepted = -1]
    IN Touch([y EXCEPT !.iteration = x.completed])
ChangeEngine(x, to) ==
    LET y == [Log(x, "OWNER", x.owner, to, x.generation + 1)
                EXCEPT !.generation = @ + 1, !.owner = to, !.accepted = -1]
        z == IF x.state = "QUEUED" THEN y ELSE Become(y, "QUEUED")
    IN Touch([z EXCEPT !.iteration = x.completed])

\* A drain or an accepted stop is left where it is, unless it is reclaimed.
Transfers(e, c, x, to, reclaim) ==
    LET y == ChangeEngine(x, to)
        q == Move(x, "QUEUED")
    IN IF ~reclaim /\ (x.state = "ABORTING" \/ Stopped(x)) THEN Idle(x)
       ELSE IF to = x.owner /\ x.owner = e /\ x.state = "ROUTING"
            THEN [Commits(c, q) EXCEPT !.registers = 1]
       ELSE IF to = x.owner \/ (x.owner = e /\ x.state \notin Queued) THEN Idle(x)
       ELSE [Commits(c, y) EXCEPT !.registers = IF to = e THEN 1 ELSE 0]

\* A request counts once and only for the generation it was made for.
Accepts(x, e, s) ==
    /\ s.generation = x.generation /\ s.owner = x.owner /\ x.owner = e
    /\ s.revision > x.accepted
AcceptRequest(x, s) ==
    LET y == Log([x EXCEPT !.accepted = s.revision, !.status = Larger(@, x.revision)],
                 "REQUEST", x.owner, s.request, 0)
    IN Touch([y EXCEPT !.revision = Larger(@, s.revision)])
AppliesRequest(e, c, x, s) ==
    LET y == AcceptRequest(x, s)
        r == IF s.request = "STOP" THEN Stops(e, c, y) ELSE Aborts(e, c, y)
    IN IF ~Accepts(x, e, s) THEN Idle(x)
       ELSE [r EXCEPT !.sent = @ \cup (IF r.entry = y THEN Commits(c, y).sent ELSE {})]

AppliesState(e, c, x, s) ==
    LET last == IF s.history = <<>> THEN 0 ELSE s.history[Len(s.history)].revision
        y == [generation |-> s.generation, revision |-> s.revision,
              status |-> Larger(s.revision, last), owner |-> s.owner,
              state |-> s.state, iteration |-> s.iteration,
              completed |-> s.completed, safe |-> s.safe, records |-> s.records,
              reports |-> s.reports, accepted |-> x.accepted, history |-> s.history]
    IN [entry |-> y, sent |-> {}, final |-> s.final,
        registers |-> IF s.owner = e /\ ~s.final THEN 1 ELSE 0]

(***************************************************************************)
(* What a receiver requires of the history in a snapshot                   *)
(* (_validate_snapshot_history): the entries replayed one by one.          *)
(***************************************************************************)
Successors(s) ==
    CASE s = "SUBMITTED"  -> {"VALIDATING"}
      [] s = "VALIDATING" -> {"VALIDATED"}
      [] s = "VALIDATED"  -> {"ROUTING", "QUEUED", "FINISHED", "ABORTED"}
      [] s = "ROUTING"    -> {"QUEUED", "FINISHED", "ABORTED"}
      [] s = "QUEUED"     -> {"RUNNING", "FINISHED", "ABORTED"}
      [] s = "RUNNING"    -> {"ABORTING", "FINISHED"}
      [] s = "ABORTING"   -> {"ABORTED"}
      [] OTHER            -> {}

Replayed == [ok |-> TRUE, state |-> "SUBMITTED", iteration |-> 0, generation |-> 0,
             owner |-> Home, stopped |-> FALSE, revision |-> 0, moving |-> FALSE]

Consistent(r, n) ==
    /\ n.revision > r.revision
    /\ r.moving => n.kind = "STATE"
    /\ CASE n.kind = "STATE" ->
              /\ n.from = r.state
              /\ IF r.moving THEN n.to = "QUEUED" ELSE n.to \in Successors(r.state)
              /\ (n.to = "FINISHED" /\ r.state \in Queued) => r.stopped
         [] n.kind = "ITERATION" ->
              ~r.stopped /\ r.state = "RUNNING" /\ n.number = r.iteration + 1
         [] n.kind = "STOP" -> ~r.stopped /\ r.state \in Queued \cup {"RUNNING"}
         [] n.kind = "REQUEST" -> r.state \notin Terminal
         [] n.kind = "OWNER" ->
              /\ r.state \notin Terminal /\ n.number = r.generation + 1
              /\ n.to # n.from /\ (r.generation > 0 => n.from = r.owner)
              /\ n.at <= r.iteration

Replay(s, r, n) ==
    LET t == [r EXCEPT !.ok = @ /\ Consistent(r, n), !.revision = n.revision]
    IN CASE n.kind = "STATE" -> [t EXCEPT !.state = n.to, !.moving = FALSE]
         [] n.kind = "ITERATION" -> [t EXCEPT !.iteration = n.number]
         [] n.kind = "STOP" -> [t EXCEPT !.stopped = TRUE]
         [] n.kind = "REQUEST" -> t
         [] n.kind = "OWNER" -> [t EXCEPT !.generation = n.number, !.owner = n.to,
                                   !.iteration = n.at,
                                   !.moving = (r.state # "QUEUED")]

ValidHistory(s) ==
    LET r == FoldLeft(LAMBDA t, n : Replay(s, t, n), Replayed, s.history)
    IN /\ r.ok /\ ~r.moving
       /\ r.revision <= s.revision
       /\ r.state = s.state /\ r.iteration = s.iteration
       /\ r.generation = s.generation
       /\ r.generation > 0 => r.owner = s.owner
       /\ s.request # "NONE" =>
            s.state \notin Terminal /\ Last(s.history).to = s.request

(***************************************************************************)
(* What it requires of the evidence: the reports are of the context, cover *)
(* every complete iteration and no iteration twice, no record is of a later*)
(* generation, and a context that may still be started brings its entries. *)
(***************************************************************************)
ReportsOnce(s) == \A i, j \in DOMAIN s.reports : s.reports[i].iteration = s.reports[j].iteration => i = j
ReportsCover(s) ==
    1..s.completed \subseteq {s.reports[i].iteration : i \in {j \in DOMAIN s.reports : s.reports[j].whole}}
ValidEvidence(s) ==
    /\ ReportsOnce(s) /\ ReportsCover(s)
    /\ \A i \in DOMAIN s.records : s.records[i] <= s.generation
Startable(s) == s.final \/ s.safe

\* _context_records_extend and _execution_reports_extend: nothing that is known
\* here is replaced; the reports of another generation may differ.
RecordsExtend(s, x) == IsPrefix(x.records, s.records)
ReportsExtend(s, x) == s.generation = x.generation => IsPrefix(x.reports, s.reports)

(***************************************************************************)
(* Reservation, validation and application at engine e.                    *)
(***************************************************************************)
\* Variant: the revision is compared only across generations.
Newer_AnyRevision(s, x) == s.generation >= x.generation
Newer(s, x) ==
    \/ s.generation > x.generation
    \/ s.generation = x.generation /\ s.revision > x.revision
\* Variant: reservations are not counted.
Occupied_Slots(e) == slots[e]
Occupied(e) == slots[e] \cup {c \in Context : pending[e][c] > 0}
HasRoom(e, c) == c \in Occupied(e) \/ Cardinality(Occupied(e)) < RemoteLimit

Owns(e, c) == Tracked(e, c) /\ context[e][c].owner = e
\* Variant: the generation that ended may come back.
Ended_Older(e, s) == retired[e][s.context] > s.generation
Ended(e, s) == retired[e][s.context] >= s.generation

\* An untracked original may have been finished by its owner, this engine.
OwnOriginal(e, s) ==
    /\ s.request = "NONE" /\ ~Tracked(e, s.context) /\ retired[e][s.context] = -1
    /\ s.generation = 0 /\ s.owner = e

Assignable(e, s) ==
    (s.owner = e /\ ~s.final /\ ~Owns(e, s.context)) => s.state = "QUEUED"
KeepsStop(x, s) ==
    \A i \in DOMAIN StopEntries(x.history) :
        Contains(s.history, StopEntries(x.history)[i])
Replaceable(e, s) ==
    (Tracked(e, s.context) /\ Newer(s, context[e][s.context])) =>
        LET x == context[e][s.context]
        IN ~Owns(e, s.context) /\ KeepsStop(x, s) /\ RecordsExtend(s, x) /\ ReportsExtend(s, x)

\* validate_snapshot, before a snapshot is queued and again when it is handled.
\* What is stale passes, and is ignored when applied.  That the history replays and
\* the evidence is valid is left out here: PublishedIsValid shows both of every
\* snapshot there is.
Validates(e, s) ==
    /\ ~OwnOriginal(e, s)
    /\ engine[e] = "STOPPING" =>
         s.request = "NONE" /\ (Tracked(e, s.context) \/ Ended(e, s))
    /\ s.request = "NONE" => Startable(s) /\ Assignable(e, s) /\ Replaceable(e, s)

Ignores(e, s) ==
    \/ ~Tracked(e, s.context) /\ (engine[e] = "STOPPING" \/ s.request # "NONE")
    \/ s.request = "NONE" /\ \/ OwnOriginal(e, s)
                             \/ Ended(e, s)
                             \/ /\ Tracked(e, s.context)
                                /\ ~Newer(s, context[e][s.context])

\* The ways in which apply_snapshot raises once a snapshot has been validated.
ApplyRaises(e, s) ==
    /\ s.request = "NONE" /\ ~Ignores(e, s)
    /\ \/ ~HasRoom(e, s.context)
       \/ ~Tracked(e, s.context) /\ s.owner = e /\ s.state # "QUEUED"
       \/ ~Replaceable(e, s)

\* reserve_ownership: a slot is needed for an id this engine has no fence for.
SnapshotNeedsSlot(e, s) ==
    /\ s.request = "NONE" /\ s.context \notin slots[e] /\ ~Ended(e, s)
    /\ Tracked(e, s.context) => Newer(s, context[e][s.context])
Movable(e, x, to, reclaim) ==
    /\ reclaim \/ (x.state # "ABORTING" /\ ~Stopped(x))
    /\ to # x.owner
    /\ x.owner = e => x.state \in Queued
TransferNeedsSlot(e, c, to) ==
    Tracked(e, c) /\ c \notin slots[e] /\ Movable(e, context[e][c], to, FALSE)

(***************************************************************************)
(* The result of handlers written back; fenced are the contexts that take  *)
(* an ownership slot.  A context that ends is forgotten, or remembered as  *)
(* retired when it ever was another engine's.                              *)
(***************************************************************************)
Fences(e, c, r, fenced) ==
    c \in fenced \/ (r.final /\ (r.entry.generation > 0 \/ c \in slots[e]))
RetiredBy(e, c, r, fenced) ==
    IF ~Fences(e, c, r, fenced) THEN retired[e][c]
    ELSE IF r.final THEN r.entry.generation ELSE -1
Leave(e, results, fenced) ==
    LET given == DOMAIN results
    IN /\ context' = [context EXCEPT ![e] = [c \in Context |->
             IF c \notin given THEN @[c]
             ELSE IF results[c].final THEN Untracked ELSE results[c].entry]]
       /\ retired' = [retired EXCEPT ![e] = [c \in Context |->
             IF c \in given THEN RetiredBy(e, c, results[c], fenced) ELSE @[c]]]
       /\ slots' = [slots EXCEPT ![e] =
             @ \cup {c \in given : Fences(e, c, results[c], fenced)}]
       /\ registrations' = [registrations EXCEPT ![e] = [c \in Context |->
             IF c \in given THEN @[c] + results[c].registers ELSE @[c]]]
       /\ network' = network \cup UNION {results[c].sent : c \in given}
LeaveOne(e, c, r, fenced) == Leave(e, [d \in {c} |-> r], fenced)
Unchanged == UNCHANGED <<context, retired, slots, registrations, network>>

Serving(e) == engine[e] \in {"RUNNING", "STOPPING"}

Init ==
    /\ instance \in Instances
    /\ engine = [e \in Engine |-> "RUNNING"]
    /\ context = [e \in Engine |-> [c \in Context |-> Untracked]]
    /\ retired = [e \in Engine |-> [c \in Context |-> -1]]
    /\ slots = [e \in Engine |-> {}]
    /\ pending = [e \in Engine |-> [c \in Context |-> 0]]
    /\ inbox = [e \in Engine |-> <<>>]
    /\ held = [e \in Engine |-> [c \in Context |-> 0]]
    /\ registrations = [e \in Engine |-> [c \in Context |-> 0]]
    /\ network = {}
    /\ starts = [c \in Context |-> [g \in Generation |-> 0]]
    /\ commands = 0

\* Context ids are never used again.
Submit(c) ==
    LET validated == Move(Move(Fresh, "VALIDATING"), "VALIDATED")
        x == Move(validated, IF instance.routing = "LOCAL" THEN "QUEUED" ELSE "ROUTING")
    IN /\ engine[Home] = "RUNNING"
       /\ ~\E s \in network : s.context = c
       /\ LeaveOne(Home, c, [Commits(c, x) EXCEPT !.registers = IF instance.routing = "LOCAL" THEN 1 ELSE 0], {})
       /\ UNCHANGED <<instance, engine, pending, inbox, held, starts, commands>>

Waiting == FoldFunction(LAMBDA q, n : Len(q) + n, 0, inbox)
Accept(e, message, c, needs) ==
    /\ Waiting < instance.waiting
    /\ needs => HasRoom(e, c)
    /\ inbox' = [inbox EXCEPT ![e] = Append(@, message)]
    /\ pending' = IF needs THEN [pending EXCEPT ![e][c] = @ + 1] ELSE pending
    /\ Unchanged
    /\ UNCHANGED <<instance, engine, held, starts, commands>>

\* Engine.apply: the application hands a snapshot to an engine.  Those that would
\* be ignored are left out: what is stale or refused now is so when it is handled,
\* and what is handled too early is delivered again.
Deliver(e, s) ==
    LET needs == SnapshotNeedsSlot(e, s)
    IN /\ Serving(e) /\ Validates(e, s) /\ ~Ignores(e, s)
       /\ s.request # "NONE" => Accepts(context[e][s.context], e, s)
       /\ Accept(e, [kind |-> "APPLY", snapshot |-> s, reserves |-> needs], s.context, needs)

\* ContextRun.transfer
RequestTransfer(c, to) ==
    LET needs == TransferNeedsSlot(Home, c, to)
        queued == SelectSeq(inbox[Home], LAMBDA m : m.kind = "TRANSFER")
        x == context[Home][c]
    IN /\ engine[Home] = "RUNNING" /\ Tracked(Home, c)
       /\ x.state \notin Terminal
       /\ x.owner = Home /\ to # Home => x.state \in Queued
       /\ context[Home][c].generation + Len(queued) < instance.transfers
       /\ Accept(Home, [kind |-> "TRANSFER", context |-> c, to |-> to, reserves |-> needs],
                 c, needs)

\* Variant: the first of several reservations gives all of them back.
Release_All(e, c, reserved, ends) ==
    LET done == IF reserved THEN [held[e] EXCEPT ![c] = @ + 1] ELSE held[e]
    IN IF ends
       THEN /\ pending' = [pending EXCEPT ![e] = [d \in Context |->
                                IF done[d] > 0 THEN 0 ELSE @[d]]]
            /\ held' = [held EXCEPT ![e] = [d \in Context |-> 0]]
       ELSE held' = [held EXCEPT ![e] = done] /\ UNCHANGED pending
\* Reservations are given back when the batch of the message ends.
Release(e, c, reserved, ends) ==
    LET done == IF reserved THEN [held[e] EXCEPT ![c] = @ + 1] ELSE held[e]
    IN IF ends
       THEN /\ pending' = [pending EXCEPT ![e] = [d \in Context |-> @[d] - done[d]]]
            /\ held' = [held EXCEPT ![e] = [d \in Context |-> 0]]
       ELSE held' = [held EXCEPT ![e] = done] /\ UNCHANGED pending
TakeNext(e, c, ends) ==
    /\ Serving(e) /\ inbox[e] # <<>>
    /\ ends \/ Len(inbox[e]) > 1
    /\ inbox' = [inbox EXCEPT ![e] = Tail(@)]
    /\ Release(e, c, Head(inbox[e]).reserves, ends)
    /\ UNCHANGED <<instance, starts, commands>>
Raise(e, why) == engine' = [engine EXCEPT ![e] = why]

HandleApply(e, ends) ==
    LET s == Head(inbox[e]).snapshot
        c == s.context
        x == IF Tracked(e, c) THEN context[e][c] ELSE Fresh
        r == IF s.request = "NONE" THEN AppliesState(e, c, x, s) ELSE AppliesRequest(e, c, x, s)
        applied == Validates(e, s) /\ ~Ignores(e, s)
        raises == applied /\ ApplyRaises(e, s)
    IN /\ inbox[e] # <<>> /\ Head(inbox[e]).kind = "APPLY"
       /\ TakeNext(e, c, ends)
       /\ IF applied /\ ~raises
          THEN LeaveOne(e, c, r, IF s.request = "NONE" THEN {c} ELSE {})
          ELSE Unchanged
       /\ IF raises THEN Raise(e, "FAILED") ELSE UNCHANGED engine

\* A transfer that was queued when the shutdown began is dropped.
HandleTransfer(ends) ==
    LET m == Head(inbox[Home])
        c == m.context
        x == context[Home][c]
        handled == Tracked(Home, c) /\ engine[Home] = "RUNNING"
        moves == handled /\ Movable(Home, x, m.to, FALSE)
        raises == moves /\ ~HasRoom(Home, c)
    IN /\ inbox[Home] # <<>> /\ m.kind = "TRANSFER"
       /\ TakeNext(Home, c, ends)
       /\ IF handled /\ ~raises
          THEN LeaveOne(Home, c, Transfers(Home, c, x, m.to, FALSE), IF moves THEN {c} ELSE {})
          ELSE Unchanged
       /\ IF raises THEN Raise(Home, "FAILED") ELSE UNCHANGED engine

\* ContextRun.stop and abort, at the owner or at a shadow.
Command(e, c, request) ==
    /\ engine[e] = "RUNNING" /\ Tracked(e, c) /\ commands < instance.commands
    /\ commands' = commands + 1
    /\ LeaveOne(e, c, IF request = "STOP" THEN Stops(e, c, context[e][c])
                      ELSE Aborts(e, c, context[e][c]), {})
    /\ UNCHANGED <<instance, engine, pending, inbox, held, starts>>

\* Admission and start of what was registered (ContextScheduler, ContextManager).
\* A second registration of a context that runs raises in its handler.
HandleRegistration(e, c) ==
    LET x == context[e][c]
        starting == Owns(e, c) /\ x.state = "QUEUED" /\ ~Stopped(x)
        r == CASE ~Owns(e, c) -> Idle(x)
               [] starting -> Commits(c, StartIteration(Move(x, "RUNNING")))
               [] OTHER -> Ends(c, x, "FINISHED")
    IN /\ Serving(e) /\ registrations[e][c] > 0
       /\ \/ /\ Owns(e, c) /\ x.state # "QUEUED"
             /\ Raise(e, "BROKEN") /\ Unchanged /\ UNCHANGED starts
          \/ /\ Owns(e, c) => x.state = "QUEUED"
             /\ LeaveOne(e, c, [r EXCEPT !.registers = -1], {})
             /\ starts' = IF starting THEN [starts EXCEPT ![c][x.generation] = @ + 1] ELSE starts
             /\ UNCHANGED engine
       /\ UNCHANGED <<instance, pending, inbox, held, commands>>

\* An operator keeps a value of its context.
StoreRecord(e, c) ==
    LET x == context[e][c]
    IN /\ Serving(e) /\ Owns(e, c) /\ x.state = "RUNNING" /\ x.completed < x.iteration
       /\ Len(x.records) < instance.records
       /\ LeaveOne(e, c, Commits(c, Touch([x EXCEPT !.records = Append(@, x.generation)])), {})
       /\ UNCHANGED <<instance, engine, pending, inbox, held, starts, commands>>

Report(x, whole) ==
    IF x.iteration = x.completed THEN x
    ELSE [x EXCEPT !.reports = Append(@, [iteration |-> x.iteration, generation |-> x.generation,
                                          whole |-> whole])]

\* The last iteration uses up the entries that its graph does not make again.
CanReiterate(x) == ~Stopped(x) /\ x.iteration < instance.iterations
CompleteIteration(e, c) ==
    LET x == context[e][c]
        y == Touch([Report(x, TRUE) EXCEPT !.completed = x.iteration,
                                           !.safe = x.iteration < instance.iterations \/ ~instance.consumes])
    IN /\ Serving(e) /\ Owns(e, c) /\ x.state = "RUNNING" /\ x.completed < x.iteration
       /\ LeaveOne(e, c, Commits(c, IF CanReiterate(y) THEN StartIteration(y) ELSE y), {})
       /\ UNCHANGED <<instance, engine, pending, inbox, held, starts, commands>>

\* The reports and, when it finished, the artifacts are loaded first.
Terminate(e, c) ==
    LET x == context[e][c]
    IN /\ Serving(e) /\ Owns(e, c)
       /\ \/ /\ x.state = "RUNNING" /\ x.completed = x.iteration
             /\ LeaveOne(e, c, Ends(c, Touch(Touch(x)), "FINISHED"), {})
          \/ /\ x.state = "ABORTING"
             /\ LeaveOne(e, c, Ends(c, Touch(Report(x, FALSE)), "ABORTED"), {})
       /\ UNCHANGED <<instance, engine, pending, inbox, held, starts, commands>>

\* Shadows are asked to stop, or taken back and aborted by a forced shutdown.
Reclaims(e, c, x) ==
    LET back == Transfers(e, c, x, e, TRUE)
        r == Aborts(e, c, back.entry)
    IN [r EXCEPT !.sent = @ \cup back.sent, !.registers = back.registers]
ShutDown(e, forced) ==
    LET tracked == {c \in Context : Tracked(e, c)}
        Result(c) == CASE ~forced -> Stops(e, c, context[e][c])
                       [] forced /\ Owns(e, c) -> Aborts(e, c, context[e][c])
                       [] OTHER -> Reclaims(e, c, context[e][c])
    IN /\ engine[e] = "RUNNING" \/ (forced /\ engine[e] = "STOPPING" /\ tracked # {})
       /\ \A c \in tracked : ~Owns(e, c) => context[e][c].generation < MaxGeneration
       /\ instance.shutdown
       /\ engine' = [engine EXCEPT ![e] = "STOPPING"]
       /\ Leave(e, [c \in tracked |-> Result(c)],
                IF forced THEN {c \in tracked : ~Owns(e, c)} ELSE {})
       /\ UNCHANGED <<instance, pending, inbox, held, starts, commands>>

Running == {Home} \cup instance.workers
Next ==
    \/ \E c \in instance.contexts :
          Submit(c) \/ \E to \in Running : RequestTransfer(c, to)
    \/ \E e \in Running, s \in network : Deliver(e, s)
    \/ \E ends \in BOOLEAN : HandleTransfer(ends) \/ \E e \in Engine : HandleApply(e, ends)
    \/ \E e \in Engine, c \in Context :
          \/ \E request \in {"STOP", "ABORT"} : Command(e, c, request)
          \/ HandleRegistration(e, c) \/ StoreRecord(e, c) \/ CompleteIteration(e, c) \/ Terminate(e, c)
    \/ ShutDown(Home, TRUE)
    \/ ShutDown(Home, FALSE)

Spec == Init /\ [][Next]_vars

(***************************************************************************)
(* Properties                                                              *)
(***************************************************************************)
\* The variables have their types: in particular nobody tracks a context whose
\* generation it has retired.
TypeOK ==
    /\ engine \in [Engine -> {"RUNNING", "STOPPING", "FAILED", "BROKEN"}]
    /\ commands \in 0 .. instance.commands
    /\ slots \in [Engine -> SUBSET Context]
    /\ pending \in [Engine -> [Context -> 0 .. instance.waiting]]
    /\ registrations \in [Engine -> [Context -> Nat]]
    /\ \A e \in Engine, c \in Context :
         /\ retired[e][c] \in Generation \cup {-1}
         /\ Tracked(e, c) => /\ context[e][c].generation \in Generation
                             /\ retired[e][c] = -1
                             /\ context[e][c].state \in Queued \cup {"RUNNING", "ABORTING"}

\* Whatever is delivered late, twice or out of order, one generation of a context
\* is started at most once among all engines (validate_snapshot, apply_snapshot).
EachGenerationRunsOnce ==
    \A c \in Context, g \in Generation : starts[c][g] <= 1

\* Two final snapshots of one generation are one outcome: they come from the same
\* owner and say the same, so waiters on different engines see the same end.
OutcomesAgree ==
    \A s, t \in network :
        (s.final /\ t.final /\ s.context = t.context /\ s.generation = t.generation)
            => s = t

\* A generation is run once and has one outcome.
RunsOnce == EachGenerationRunsOnce /\ OutcomesAgree

\* What an engine knows of a context never goes back, neither in generation nor in
\* revision, a context that ended comes back only in a newer generation, and an
\* accepted stop, a record and, within a generation, a report are never withdrawn
\* while the context is tracked (_validate_snapshot_against_context).
KnowledgeKept(e, c) ==
    LET x == context[e][c]
        y == context'[e][c]
        tracked == y.state # "UNTRACKED"
    IN /\ (Tracked(e, c) /\ tracked) =>
            /\ \/ x = y
               \/ y.generation > x.generation
               \/ y.generation = x.generation /\ y.revision > x.revision
            /\ Stopped(x) => Stopped(y)
            /\ IsPrefix(x.records, y.records)
            /\ y.generation = x.generation => IsPrefix(x.reports, y.reports)
       /\ (Tracked(e, c) /\ ~tracked /\ c \in slots[e]) => retired'[e][c] >= x.generation
       /\ retired[e][c] # -1 =>
            \/ ~tracked /\ retired'[e][c] >= retired[e][c]
            \/ tracked /\ y.generation > retired[e][c]
KnowledgeAdvances == [][\A e \in Engine, c \in Context : KnowledgeKept(e, c)]_vars

\* The ownership slots stay within their limit, those reserved for commands in
\* the queue included, a reservation is counted exactly as long as its command
\* is in the queue or in the batch, and every id that was ever another engine's is
\* fenced (reserve_ownership, release_ownership_reservation).
SlotsAccounted ==
    \A e \in Engine :
        /\ Cardinality(Occupied(e)) <= RemoteLimit
        /\ \A c \in Context :
             /\ pending[e][c] = held[e][c] + Len(SelectSeq(inbox[e], LAMBDA m :
                    m.reserves /\ c = IF m.kind = "APPLY" THEN m.snapshot.context ELSE m.context))
             /\ (Tracked(e, c) /\ (context[e][c].generation > 0 \/ ~Owns(e, c)))
                    => c \in slots[e]

\* The variables are typed and the slots of every engine add up.
OwnershipAccounted == TypeOK /\ SlotsAccounted

\* What passed the validation can be carried out: an exception while a snapshot is
\* applied or a context is transferred ends the engine (coordinator.py: "Apply
\* failures remain fatal").
ApplySucceeds == \A e \in Engine : engine[e] # "FAILED"

\* Whatever an engine publishes, another one accepts: the history a context keeps
\* satisfies the rules the receivers replay it by, and its evidence is complete.
\* (Only between the end of the last iteration and the end of the context may a
\* snapshot lack entries: it is refused, and the final one comes after it.)
PublishedIsValid ==
    [][\A s \in network' \ network :
           /\ ValidHistory(s)
           /\ s.request = "NONE" =>
                  ValidEvidence(s) /\ (Startable(s) \/ s.completed = instance.iterations)]_vars
=============================================================================
