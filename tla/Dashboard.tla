------------------------------ MODULE Dashboard ------------------------------
(***************************************************************************)
(* The dashboard's account of an engine (dashboard/_service.py,             *)
(* dashboard/_observation.py and the evidence of dashboard/_workspace.py;   *)
(* its detached work is in Workspace).                                      *)
(* One event loop runs two tasks: one consumes the observer of the          *)
(* dashboard's own context, the other samples the unfinished contexts and   *)
(* then reads a page of terminal summaries, again and again.  Both feed the *)
(* same bounded rows and details, and the outcome of a context is counted   *)
(* when the first evidence of its end arrives, from whichever source.       *)
(*                                                                          *)
(* The loop gives control away only between two events and between two      *)
(* passes; the engine's threads go on in the middle of a pass.  Generations *)
(* are left out (Ownership has them): a snapshot is ordered by its revision *)
(* and, at equal revisions, a sample is newer than an event.                *)
(***************************************************************************)
EXTENDS Observation, TerminalHistory

CONSTANTS
    Dash,       \* the observer of the dashboard's own context
    Request,    \* identities of control requests
    MaxRecent,  \* max_recent_contexts
    MaxActive,  \* LIMIT, of rows and of details
    PageLimit   \* summaries read in one pass

ASSUME DashboardAssumption ==
    /\ Dash \in Observer
    /\ MaxRecent \in Nat \ {0} /\ MaxActive \in Nat \ {0} /\ PageLimit \in Nat \ {0}
    /\ \A i \in Instances : /\ i.starts \in [Context -> {"NEW", "QUEUED", "RUNNING"}]
                            /\ i.supervising \subseteq Context
                            /\ i.sizes \subseteq Nat
                            /\ i.requests \subseteq Request
                            /\ i.serves \in BOOLEAN /\ i.ages \in BOOLEAN

VARIABLES
    phase,      \* serving, or how far _close() has come
    pass,       \* the handles a pass has yet to sample, or None between passes
    projected,  \* _projection_times: the last marker captured per context
    evidence,   \* rows and details, what was counted, the control requests
    aged        \* ended contexts that are older than the recent window

dashboardVars == <<phase, pass, projected, evidence, aged>>
vars == <<observationVars, historyVars, dashboardVars>>

Self == inst.owner[Dash]
NoEvidence == [rows    |-> <<>>,
               details |-> <<>>,
               counted |-> [c \in Context |-> {}],
               pending |-> [r \in Request |-> None]]

Init ==
    /\ inst \in Instances
    /\ context = [c \in Context |->
            [state |-> inst.starts[c], phase |-> "LIVE", revision |-> 1, events |-> 0,
             stop |-> FALSE, stores |-> 0, accepted |-> 0, next |-> None]]
    /\ sending = [c \in Context |-> Quiet]
    /\ intents = [c \in Context |-> <<>>]
    /\ commands = 0
    /\ hubClosed = FALSE
    /\ registered = IF inst.serves THEN {Dash} ELSE {}
    /\ observer = [o \in Observer |->
            [queue |-> <<>>, closed |-> FALSE, overflowed |-> FALSE]]
    /\ consumer = [o \in Observer |->
            IF o = Dash /\ inst.serves THEN "IDLE" ELSE "ABSENT"]
    /\ heard = [o \in Observer |-> [c \in Context |-> 0]]
    /\ HistoryInit
    /\ phase = IF inst.serves THEN "SERVING" ELSE "ABSENT"
    /\ pass = None
    /\ projected = [c \in Context |-> None]
    /\ evidence = NoEvidence
    /\ aged = {}

-----------------------------------------------------------------------------
(* The rows and the details are kept in the order they were last changed in.  *)

Without(rows, c) == SelectSeq(rows, LAMBDA row : row.context # c)
Has(rows, c) == \E i \in DOMAIN rows : rows[i].context = c
Row(rows, c) == rows[CHOOSE i \in DOMAIN rows : rows[i].context = c]

(* _prune(): old terminal rows go, then the oldest of each kind beyond its    *)
(* limit.                                                                     *)
Pruned(rows) ==
    LET young == SelectSeq(rows, LAMBDA row : ~(row.final /\ row.context \in aged))
        Behind(row) == {i \in DOMAIN young :
                            /\ young[i].final = row.final
                            /\ \E j \in 1..i - 1 : young[j] = row}
    IN  SelectSeq(young, LAMBDA row :
            Cardinality(Behind(row)) < IF row.final THEN MaxRecent ELSE MaxActive)

Put(rows, row) == Append(Without(rows, row.context), row)
Kept(rows, row) == Pruned(Put(rows, row))

RowFrom(snapshot) == [context  |-> snapshot.context,
                      revision |-> snapshot.revision,
                      state    |-> snapshot.state,
                      final    |-> snapshot.final,
                      stop     |-> snapshot.stop,
                      summary  |-> FALSE]

(* An outcome is counted once, by the first evidence that is kept.            *)
Counted(counted, row) ==
    IF row.final /\ counted[row.context] = {}
    THEN [counted EXCEPT ![row.context] = {row.state}] ELSE counted

-----------------------------------------------------------------------------
(* Control requests of the dashboard.  settle() judges each by the row.       *)

Reached(action, row) ==
    CASE action = "pause"  -> row.state = "PAUSED"
      [] action = "resume" -> row.state \in {"RUNNING", "QUEUED"}
      [] action = "stop"   -> row.stop
      [] action = "abort"  -> row.state = "ABORTED"

Settle(request, rows) ==
    IF request = None \/ request.status # "submitted" \/ ~Has(rows, request.context)
    THEN request
    ELSE LET row == Row(rows, request.context)
         IN  IF Reached(request.action, row) THEN [request EXCEPT !.status = "observed"]
             ELSE IF row.final THEN [request EXCEPT !.status = "superseded"]
             ELSE request

SettleAll(pending, rows) == [r \in Request |-> Settle(pending[r], rows)]

-----------------------------------------------------------------------------
(* Variant: the revision of the row is not looked at.                         *)
Refused_AnyRevision(rows, snapshot, sampled) ==
    /\ Has(rows, snapshot.context)
    /\ Row(rows, snapshot.context).summary /\ ~snapshot.final

(* What a snapshot does to the rows (_Fleet.update).                          *)

Refused(rows, snapshot, sampled) ==
    /\ Has(rows, snapshot.context)
    /\ LET row == Row(rows, snapshot.context)
       IN  IF row.summary THEN snapshot.revision < row.revision \/ ~snapshot.final
           ELSE \/ snapshot.revision < row.revision
                \/ snapshot.revision = row.revision /\ ~sampled

UpdateFleet(e, snapshot, sampled) ==
    IF Refused(e.rows, snapshot, sampled) THEN e
    ELSE LET row  == RowFrom(snapshot)
             rows == Kept(e.rows, row)
         IN  [e EXCEPT !.rows    = rows,
                       !.counted = Counted(@, row),
                       !.pending = SettleAll(@, rows)]

(* What it does to the details: superseded ones are left alone (_supersedes), *)
(* and an event opens no details of a context that goes on (observe).         *)
Superseded(details, snapshot) ==
    /\ Has(details, snapshot.context)
    /\ LET known == Row(details, snapshot.context)
       IN  \/ snapshot.revision < known.revision
           \/ known.final /\ (~snapshot.final \/ ~known.summary)

Detail(e, snapshot) ==
    IF Superseded(e.details, snapshot) THEN e
    ELSE [e EXCEPT !.details = Kept(@, RowFrom(snapshot))]

ObserveDetail(e, snapshot) ==
    IF ~snapshot.final /\ ~Has(e.details, snapshot.context) THEN e
    ELSE Detail(e, snapshot)

(* Variant: a context that has a row needs no summary.                        *)
Known_HasRow(rows, summary) == Has(rows, summary.context)

(* A summary fills in a missing end, it never replaces fuller evidence        *)
(* (recover_terminal, _Fleet.recover).                                        *)
Known(rows, summary) ==
    /\ Has(rows, summary.context)
    /\ LET row == Row(rows, summary.context)
       IN  \/ summary.revision < row.revision
           \/ row.final /\ summary.revision <= row.revision

RecoverTerminal(e, summary) ==
    LET row  == [RowFrom(summary) EXCEPT !.summary = TRUE]
        rows == Kept(e.rows, row)
    IN  IF Known(e.details, summary) \/ Known(e.rows, summary) THEN e
        ELSE [e EXCEPT !.rows    = rows,
                       !.details = Kept(@, row),
                       !.counted = Counted(@, row),
                       !.pending = SettleAll(@, rows)]

-----------------------------------------------------------------------------
(* The task that consumes events (_events, _capture_event).                   *)

(* Variant: a stop request is not part of what an event looks like.           *)
Marker_NoStop(snapshot) == <<snapshot.state, snapshot.final>>

Marker(snapshot) == <<snapshot.state, snapshot.final, snapshot.stop>>

(* A snapshot that looks like the last one and follows it closely is skipped; *)
(* how much time has passed is not known here.  A final one never is.         *)
Skipped(snapshot, soon) ==
    /\ soon
    /\ ~snapshot.final
    /\ projected[snapshot.context] = Marker(snapshot)

CaptureEvent(snapshot, soon) ==
    IF Skipped(snapshot, soon) THEN UNCHANGED <<projected, evidence>>
    ELSE /\ projected' = [projected EXCEPT ![snapshot.context] =
                IF snapshot.final THEN None ELSE Marker(snapshot)]
         /\ evidence' =
                IF Refused(evidence.rows, snapshot, FALSE) THEN evidence
                ELSE ObserveDetail(UpdateFleet(evidence, snapshot, FALSE), snapshot)

EventOf(o) == LET event == Head(observer[o].queue)
              IN  [context |-> event.context, revision |-> event.revision,
                   state |-> event.state, final |-> event.final, stop |-> event.stop]

LoopFree == phase = "SERVING" /\ pass = None

ConsumeEvent ==
    /\ LoopFree
    /\ Consume(Dash)
    /\ \E soon \in BOOLEAN : CaptureEvent(EventOf(Dash), soon)
    /\ UNCHANGED <<historyVars, phase, pass, aged>>

AwaitEvent == /\ LoopFree
              /\ Await(Dash)
              /\ UNCHANGED <<historyVars, dashboardVars>>

-----------------------------------------------------------------------------
(* The task that serves (serve, _sample_visible, _recover_terminals).         *)

Tracked == {c \in inst.contexts : context[c].state # "NEW"
                                  /\ context[c].phase # "RETIRED"}

(* A change is made under the lock a snapshot takes; a value event is not.    *)
Readable(c) == ~sending[c].locked

BeginPass ==
    /\ LoopFree
    /\ pass' = Tracked
    /\ UNCHANGED <<observationVars, historyVars, phase, projected, evidence, aged>>

(* The handle may have become final, or have left the engine, since.          *)
Sample(c) ==
    /\ pass # None /\ c \in pass
    /\ Readable(c)
    /\ pass' = pass \ {c}
    /\ evidence' = Detail(UpdateFleet(evidence, Snapshot(c), TRUE), Snapshot(c))
    /\ UNCHANGED <<observationVars, historyVars, phase, projected, aged>>

InOrder(entries) ==
    SetToSortSeq(entries, LAMBDA one, other : one.sequence < other.sequence)

(* Supervising contexts are not workload: their summaries are left out.       *)
Recovered(e, page) ==
    FoldLeft(LAMBDA now, entry :
                IF entry.summary.context \in inst.supervising THEN now
                ELSE RecoverTerminal(now, entry.summary),
             e, InOrder(page.entries))

RecoverTerminals == /\ ReadPage(PageLimit)
                    /\ evidence' = Recovered(evidence, Page(cursor, PageLimit))

EndPass ==
    /\ pass = {}
    /\ RecoverTerminals
    /\ pass' = None
    /\ UNCHANGED <<observationVars, windowVars, phase, projected, aged>>

-----------------------------------------------------------------------------
(* Requests of the dashboard's clients, handled between passes.               *)

Actions(snapshot) ==
    IF snapshot.state \in Terminal \cup Draining THEN {}
    ELSE {"abort"} \cup (IF snapshot.stop THEN {} ELSE {"stop"})
         \cup (CASE snapshot.state = "PAUSED" -> {"resume"}
                 [] snapshot.state \in {"QUEUED", "RUNNING"} -> {"pause"}
                 [] OTHER -> {})

Asked(c) == \E r \in Request : /\ evidence.pending[r] # None
                               /\ evidence.pending[r].context = c
                               /\ evidence.pending[r].status = "submitted"

(* control(): checked against a fresh snapshot, one at a time per context.    *)
Control(r, c, action) ==
    /\ LoopFree
    /\ r \in inst.requests /\ evidence.pending[r] = None
    /\ c \in Tracked /\ Readable(c)
    /\ action \in Actions(Snapshot(c))
    /\ ~Asked(c)
    /\ intents' = [intents EXCEPT ![c] =
            Append(@, [action |-> action, revision |-> context[c].revision + 1])]
    /\ evidence' = [evidence EXCEPT !.pending[r] =
            [context |-> c, action |-> action, status |-> "submitted",
             revision |-> context[c].revision + 1]]
    /\ UNCHANGED <<inst, context, sending, commands, hubVars, consumer, heard,
                   historyVars, phase, pass, projected, aged>>

(* payload(): a client that reads the rows has the requests judged by them.   *)
Payload ==
    /\ LoopFree
    /\ evidence' = [evidence EXCEPT !.pending = SettleAll(@, evidence.rows),
                                    !.rows    = Pruned(@)]
    /\ UNCHANGED <<observationVars, historyVars, phase, pass, projected, aged>>

Age(c) ==
    /\ inst.ages
    /\ context[c].phase = "RETIRED" /\ c \notin aged
    /\ aged' = aged \cup {c}
    /\ UNCHANGED <<observationVars, historyVars, phase, pass, projected, evidence>>

-----------------------------------------------------------------------------
(* _close(): up to its first await nothing else runs on the loop.             *)

BeginClose ==
    /\ LoopFree
    /\ IF observer[Dash].closed THEN UNCHANGED observationVars
       ELSE CloseObserver(Dash)
    /\ phase' = "DRAINING"
    /\ UNCHANGED <<historyVars, pass, projected, evidence, aged>>

Drain ==
    /\ phase = "DRAINING"
    /\ observer[Dash].queue # <<>>
    /\ observer' = [observer EXCEPT ![Dash].queue = Tail(@)]
    /\ LET event == Head(observer[Dash].queue)
       IN  heard' = [heard EXCEPT ![Dash][event.context] = event.number]
    /\ \E soon \in BOOLEAN : CaptureEvent(EventOf(Dash), soon)
    /\ UNCHANGED <<engineVars, hubClosed, registered, consumer, historyVars,
                   phase, pass, aged>>

CloseRecover ==
    /\ phase = "DRAINING"
    /\ observer[Dash].queue = <<>>
    /\ RecoverTerminals
    /\ phase' = "RECOVERED"
    /\ UNCHANGED <<observationVars, windowVars, pass, projected, aged>>

(* The consumer is cancelled and joined, and with the evidence everything goes *)
(* that was not counted.                                                       *)
FinishClose ==
    /\ phase = "RECOVERED"
    /\ phase' = "CLOSED"
    /\ consumer' = [consumer EXCEPT ![Dash] = "STOPPED"]
    /\ evidence' = [NoEvidence EXCEPT !.counted = evidence.counted]
    /\ projected' = [c \in Context |-> None]
    /\ UNCHANGED <<engineVars, hubVars, heard, historyVars, pass, aged>>

-----------------------------------------------------------------------------
Summary(c) == Snapshot(c)

Retire(c) ==
    /\ RetireContext(c)
    /\ \E size \in inst.sizes : PublishTerminal(Summary(c), size, TRUE)
    /\ UNCHANGED <<readerVars, dashboardVars>>

Engine ==
    \/ \E c \in Context : EngineStep(c) /\ UNCHANGED <<historyVars, dashboardVars>>
    \/ \E c \in Context : Retire(c)
    \/ \E c \in inst.contexts, action \in {"pause", "resume"} :
          Command(c, action) /\ UNCHANGED <<historyVars, dashboardVars>>

Hub ==
    /\ \/ \E c \in Context, o \in Observer : Deliver(c, o)
       \/ \E c \in Context : Sent(c)
       \/ \E c \in Context : CloseOwner(c)
       \/ CloseHub
    /\ UNCHANGED <<historyVars, dashboardVars>>

Application ==
    /\ \E o \in Observer \ {Dash} :
          Observe(o) \/ Consume(o) \/ Await(o) \/ CloseObserver(o)
    /\ UNCHANGED <<historyVars, dashboardVars>>

Loop ==
    \/ ConsumeEvent \/ AwaitEvent
    \/ BeginPass \/ (\E c \in Context : Sample(c)) \/ EndPass
    \/ (\E r \in Request, c \in Context, a \in {"pause", "resume", "stop", "abort"} :
            Control(r, c, a))
    \/ Payload \/ BeginClose \/ Drain \/ CloseRecover \/ FinishClose

Next == Engine \/ Hub \/ Application \/ Loop \/ \E c \in Context : Age(c)

Spec == Init /\ [][Next]_vars

-----------------------------------------------------------------------------
(* What the dashboard says is incomplete: lost events, lost summaries.        *)
GapTold == told \/ more \/ observer[Dash].overflowed

(* Every end is accounted for.  Once the pages have passed the number of a    *)
(* workload context, its outcome has been counted - once, and as it really    *)
(* was - whichever source told of it, in whatever order, and whatever rows    *)
(* were dropped in between; nothing else is ever counted.                     *)
EndsAccounted ==
    /\ \A c \in Context : evidence.counted[c] \subseteq
            IF context[c].phase = "LIVE" THEN {} ELSE {context[c].state}
    /\ told \/ \A entry \in published :
                 \/ entry.sequence > cursor
                 \/ entry.summary.context \in inst.supervising
                 \/ evidence.counted[entry.summary.context] # {}

(* A row that is shown tells the truth once the dashboard has caught up: with *)
(* every event consumed, no gap to tell of and nothing on its way, an ended   *)
(* context is not shown as going on, nor the other way round, its state is    *)
(* the context's, it says whether a stop was accepted, and no request about   *)
(* an ended context is still open beside its row.                             *)
CaughtUp == /\ phase = "SERVING" /\ pass = None
            /\ consumer[Dash] = "WAITING"
            /\ ~GapTold
            /\ \A c \in Context : Dash \notin sending[c].to

RowsTrue ==
    CaughtUp =>
        \A i \in DOMAIN evidence.rows :
            LET row == evidence.rows[i]
                now == context[row.context]
            IN  /\ row.final <=> now.phase # "LIVE"
                /\ row.state = now.state \/ (~row.final /\ now.state \in Terminal)
                /\ row.stop = now.stop
                /\ row.final => ~Asked(row.context)

(* Evidence only gets better while it is kept: a final row or detail never    *)
(* becomes live again, a full one never gives way to a summary of the same    *)
(* end, and none goes back to an older revision.                              *)
Advances(rows, next) ==
    \A i \in DOMAIN rows : Has(next, rows[i].context) =>
        LET old == rows[i]
            new == Row(next, rows[i].context)
        IN  /\ new.revision >= old.revision
            /\ old.final => new.final
            /\ old.final /\ ~old.summary => ~new.summary

EvidenceAdvances ==
    [][/\ Advances(evidence.rows, evidence.rows')
       /\ Advances(evidence.details, evidence.details')]_vars
=============================================================================
