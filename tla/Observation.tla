----------------------------- MODULE Observation -----------------------------
(***************************************************************************)
(* Observation of contexts (engine/observation.py): every committed change  *)
(* of a context becomes an event with a snapshot, the hub hands it to the   *)
(* observers registered at that moment, one after the other, and each puts  *)
(* it in a bounded queue that a thread or a coroutine consumes.  An         *)
(* observer that does not keep up is emptied and detached.                  *)
(*                                                                          *)
(* Events are published from inside the change they report: by the thread   *)
(* that submits a context until it is queued, by the coordinator afterwards *)
(* (registry/runtime_registry.py, registry/context_instance.py).  Of the    *)
(* lifecycle only what tells events apart is kept; ContextLifecycle has the *)
(* rest.  A snapshot is its context, its revision and its state.            *)
(***************************************************************************)
EXTENDS Naturals, Sequences, FiniteSets, SequencesExt

CONSTANTS
    Context,       \* contexts
    Observer,      \* observers
    None,          \* no owner
    MaxObservers,  \* _MAX_OBSERVERS
    Instances      \* the instances that are checked, see Init

ASSUME ObservationAssumption ==
    /\ None \notin Context
    /\ MaxObservers \in Nat \ {0}
    /\ \A i \in Instances :
         /\ i.contexts \subseteq Context /\ i.records \in Nat /\ i.commands \in Nat
         /\ \A o \in Observer : /\ i.capacity[o] \in Nat \ {0}
                                /\ i.owner[o] \in Context \cup {None}
                                /\ i.scope[o] \subseteq Context

VARIABLES
    inst,        \* the instance: who exists, capacities, scopes and bounds
    context,     \* state, phase, revision, number of events, stop_requested
    sending,     \* the event a context is publishing, to whom, who refused it
    intents,     \* commands and control requests the engine has yet to handle
    commands,    \* how many commands were given (bound)
    hubClosed,   \* _ObservationHub._closed
    registered,  \* _registrations
    observer,    \* _events, _closed and _overflowed of each observer
    consumer,    \* what the consumer of each observer is doing
    heard        \* history: number of the last event each consumed, per context

engineVars == <<inst, context, sending, intents, commands>>
hubVars == <<hubClosed, registered, observer>>
observationVars == <<engineVars, hubVars, consumer, heard>>

Terminal == {"FINISHED", "ABORTED"}
Draining == {"ABORTING"}

(* _visible(): an observer never sees the context that owns it.               *)
Visible(o, c) == inst.owner[o] # c /\ c \in inst.scope[o]

Snapshot(c) == [context  |-> c,
                revision |-> context[c].revision,
                state    |-> context[c].state,
                final    |-> context[c].phase # "LIVE",
                stop     |-> context[c].stop]

Quiet == [event |-> None, locked |-> FALSE, to |-> {}, refused |-> {}]
Sending(c) == sending[c] # Quiet

(* The coordinator is one thread: it is inside at most one context's change,  *)
(* and finishes the change it is in.                                          *)
Free(c) == /\ ~hubClosed
           /\ ~Sending(c)
           /\ \/ context[c].state \in {"NEW", "SUBMITTED"}
              \/ \A d \in Context :
                    (Sending(d) \/ context[d].next # None)
                        => context[d].state = "SUBMITTED" \/ d = c

Settled(c) == Free(c) /\ context[c].next = None

-----------------------------------------------------------------------------
(* The engine's side.                                                         *)

Touched(record) == [record EXCEPT !.revision = @ + 1]

(* A change without an event: a terminal state is not published before the    *)
(* context is finalized.                                                      *)
Change(c, record) ==
    /\ context' = [context EXCEPT ![c] = Touched(record)]
    /\ UNCHANGED sending

(* publish() copies the registrations under the lock and sends outside of it. *)
Announce(c, record, locked) ==
    LET now == Touched([record EXCEPT !.events = @ + 1])
    IN  /\ context' = [context EXCEPT ![c] = now]
        /\ sending' = [sending EXCEPT ![c] =
                [event   |-> [context  |-> c,
                              number   |-> now.events,
                              revision |-> now.revision,
                              state    |-> now.state,
                              final    |-> now.phase # "LIVE",
                              stop     |-> now.stop],
                 locked  |-> locked,
                 to      |-> {o \in registered : Visible(o, c)},
                 refused |-> {}]]

Moved(c, from, to) ==
    /\ Settled(c)
    /\ context[c].state \in from
    /\ Announce(c, [context[c] EXCEPT !.state = to], TRUE)
    /\ UNCHANGED <<intents, commands>>

SubmitContext(c) == c \in inst.contexts /\ Moved(c, {"NEW"}, "SUBMITTED")
QueueContext(c)  == Moved(c, {"SUBMITTED"}, "QUEUED")
StartContext(c)  == Moved(c, {"QUEUED"}, "RUNNING")

(* store_context_record(): an event for a value, with the whole snapshot.     *)
StoreValue(c) ==
    /\ Settled(c)
    /\ context[c].state = "RUNNING"
    /\ context[c].stores < inst.records
    /\ Announce(c, [context[c] EXCEPT !.stores = @ + 1], FALSE)
    /\ UNCHANGED <<intents, commands>>

(* The last step has run, or what an abort waited for is done.                *)
EndContext(c) ==
    /\ Settled(c)
    /\ context[c].state \in {"RUNNING", "ABORTING"}
    /\ Change(c, [context[c] EXCEPT
            !.state = IF @ = "RUNNING" THEN "FINISHED" ELSE "ABORTED"])
    /\ UNCHANGED <<intents, commands>>

(* _mark_finalized(): the terminal event goes out before the context leaves.  *)
FinalizeContext(c) ==
    /\ Settled(c)
    /\ context[c].state \in Terminal /\ context[c].phase = "LIVE"
    /\ Announce(c, [context[c] EXCEPT !.phase = "FINAL"], FALSE)
    /\ UNCHANGED <<intents, commands>>

(* What a control request does to a context that is not terminal.  Stop is    *)
(* announced as such before the context ends or resumes (see FollowUp).       *)
Controlled(c, now, action) ==
    CASE action = "pause" /\ now.state = "RUNNING" ->
           Announce(c, [now EXCEPT !.state = "PAUSED"], TRUE)
      [] action = "resume" /\ now.state = "PAUSED" ->
           Announce(c, [now EXCEPT !.state = "RUNNING"], TRUE)
      [] action = "stop" /\ ~now.stop /\ now.state \in {"QUEUED", "RUNNING", "PAUSED"} ->
           Announce(c, [now EXCEPT !.stop = TRUE,
                            !.next = CASE now.state = "QUEUED" -> "FINISHED"
                                       [] now.state = "PAUSED" -> "RUNNING"
                                       [] OTHER -> None], TRUE)
      [] action = "abort" /\ now.state \in {"RUNNING", "PAUSED"} ->
           Announce(c, [now EXCEPT !.state = "ABORTING"], TRUE)
      [] action = "abort" /\ now.state = "QUEUED" ->
           Change(c, [now EXCEPT !.state = "ABORTED"])
      [] OTHER -> /\ context' = [context EXCEPT ![c] = now]
                  /\ UNCHANGED sending

(* A request that came as a snapshot is dropped when the context has ended or *)
(* has accepted a newer one; a command is handled as the context stands.      *)
Stale(c, intent) ==
    \/ context[c].state \in Terminal
    \/ intent.revision # None /\ intent.revision <= context[c].accepted

Accepted(c, intent) ==
    IF intent.revision = None THEN context[c]
    ELSE Touched([context[c] EXCEPT !.accepted = intent.revision])

HandleControl(c) ==
    /\ Settled(c)
    /\ intents[c] # <<>>
    /\ LET intent == Head(intents[c])
       IN  IF Stale(c, intent) THEN UNCHANGED <<context, sending>>
           ELSE Controlled(c, Accepted(c, intent), intent.action)
    /\ intents' = [intents EXCEPT ![c] = Tail(@)]
    /\ UNCHANGED commands

(* The application pauses, resumes, stops or aborts a run of its own.         *)
Command(c, action) ==
    /\ commands < inst.commands
    /\ context[c].phase = "LIVE" /\ context[c].state \notin {"NEW", "SUBMITTED"}
    /\ commands' = commands + 1
    /\ intents' = [intents EXCEPT ![c] =
            Append(@, [action |-> action, revision |-> None])]
    /\ UNCHANGED <<inst, context, sending, hubVars, consumer, heard>>

FollowUp(c) ==
    /\ Free(c)
    /\ context[c].next # None
    /\ LET now == [context[c] EXCEPT !.state = context[c].next, !.next = None]
       IN  IF now.state \in Terminal THEN Change(c, now) ELSE Announce(c, now, TRUE)
    /\ UNCHANGED <<intents, commands>>

EngineStep(c) ==
    /\ \/ SubmitContext(c) \/ QueueContext(c) \/ StartContext(c) \/ StoreValue(c)
       \/ EndContext(c) \/ FinalizeContext(c) \/ HandleControl(c) \/ FollowUp(c)
    /\ UNCHANGED <<inst, hubVars, consumer, heard>>

-----------------------------------------------------------------------------
(* The hub and the observers' queues.                                         *)

Open(o) == ~observer[o].closed /\ ~observer[o].overflowed

(* _wake_locked(): whoever waits is called back, before the lock is released. *)
Woken(O) == [o \in Observer |->
                IF o \in O /\ consumer[o] = "WAITING" THEN "WOKEN" ELSE consumer[o]]

(* Variant: an event that finds no room is dropped.                           *)
Received_Drops(record, o, event) ==
    IF Len(record.queue) >= inst.capacity[o] THEN record
    ELSE [record EXCEPT !.queue = Append(@, event)]

(* _publish(): the first event that finds no room empties the queue.          *)
Received(record, o, event) ==
    IF Len(record.queue) >= inst.capacity[o]
    THEN [record EXCEPT !.queue = <<>>, !.overflowed = TRUE]
    ELSE [record EXCEPT !.queue = Append(@, event)]

Deliver(c, o) ==
    /\ o \in sending[c].to
    /\ LET next == IF Open(o) THEN Received(observer[o], o, sending[c].event)
                             ELSE observer[o]
           kept == Open(o) /\ ~next.overflowed
       IN  /\ observer' = [observer EXCEPT ![o] = next]
           /\ sending' = [sending EXCEPT ![c].to = @ \ {o},
                                         ![c].refused = IF kept THEN @ ELSE @ \cup {o}]
           /\ consumer' = Woken(IF Open(o) THEN {o} ELSE {})
    /\ UNCHANGED <<inst, context, intents, commands, hubClosed, registered, heard>>

Sent(c) ==
    /\ Sending(c) /\ sending[c].to = {}
    /\ sending' = [sending EXCEPT ![c] = Quiet]
    /\ registered' = registered \ sending[c].refused
    /\ UNCHANGED <<inst, context, intents, commands, hubClosed, observer, consumer, heard>>

(* observer(): a new registration hears what is announced from now on.        *)
Observe(o) ==
    /\ ~hubClosed
    /\ consumer[o] = "ABSENT" /\ inst.scope[o] # {}
    /\ Cardinality(registered) < MaxObservers
    /\ registered' = registered \cup {o}
    /\ consumer' = [consumer EXCEPT ![o] = "IDLE"]
    /\ heard' = [heard EXCEPT ![o] = [c \in Context |-> context[c].events]]
    /\ UNCHANGED <<engineVars, hubClosed, observer>>

Closed(O) == [o \in Observer |->
                IF o \in O THEN [observer[o] EXCEPT !.closed = TRUE] ELSE observer[o]]

(* close() of an observer, and the hub closing those it still has.            *)
Detach(O) == /\ observer' = Closed(O)
             /\ registered' = registered \ O
             /\ consumer' = Woken(O)

CloseObserver(o) ==
    /\ consumer[o] # "ABSENT" /\ ~observer[o].closed
    /\ Detach({o})
    /\ UNCHANGED <<engineVars, hubClosed, heard>>

Owned(c) == {o \in registered : inst.owner[o] = c}

(* A supervising context that is asked to stop, or leaves, loses its queue.   *)
CloseOwner(c) ==
    /\ Owned(c) # {}
    /\ Detach(Owned(c))
    /\ UNCHANGED <<engineVars, hubClosed, heard>>

(* _finalize_context_locked(), after the terminal event.                      *)
RetireContext(c) ==
    /\ Settled(c)
    /\ context[c].phase = "FINAL"
    /\ context' = [context EXCEPT ![c].phase = "RETIRED"]
    /\ Detach(Owned(c))
    /\ UNCHANGED <<inst, sending, intents, commands, hubClosed, heard>>

(* The coordinator has stopped when the runtime closes the hub.               *)
CloseHub ==
    /\ ~hubClosed
    /\ \A c \in Context : ~Sending(c) /\ context[c].next = None
    /\ \A c \in inst.contexts : context[c].phase = "RETIRED"
    /\ hubClosed' = TRUE
    /\ Detach(registered)
    /\ UNCHANGED <<engineVars, heard>>

-----------------------------------------------------------------------------
(* The consumers.  __next__() and __anext__() look at the queue first, then   *)
(* at the overflow, then at the end, and wait otherwise.                      *)
Consume(o) ==
    /\ consumer[o] \in {"IDLE", "WOKEN"}
    /\ observer[o].queue # <<>>
    /\ LET event == Head(observer[o].queue)
       IN  heard' = [heard EXCEPT ![o][event.context] = event.number]
    /\ observer' = [observer EXCEPT ![o].queue = Tail(@)]
    /\ consumer' = [consumer EXCEPT ![o] = "IDLE"]
    /\ UNCHANGED <<engineVars, hubClosed, registered>>

Await(o) ==
    /\ consumer[o] \in {"IDLE", "WOKEN"}
    /\ observer[o].queue = <<>>
    /\ consumer' = [consumer EXCEPT ![o] =
            IF observer[o].overflowed THEN "FAILED"
            ELSE IF observer[o].closed THEN "STOPPED" ELSE "WAITING"]
    /\ UNCHANGED <<engineVars, hubVars, heard>>

-----------------------------------------------------------------------------
(* Every observer that was not told of an overflow hears of each context it   *)
(* sees every event since it registered, once and in the order of the         *)
(* changes: the queue continues where the consumer is, without a hole, and    *)
(* reaches the last change unless that one is still on its way or the         *)
(* observer was closed.  And nobody waits beside a queue it could read or an  *)
(* end it should be told of.                                                  *)
From(o, c) == {i \in DOMAIN observer[o].queue : observer[o].queue[i].context = c}
Queued(o, c) == {observer[o].queue[i].number : i \in From(o, c)}

Owed(o, c) == context[c].events - (IF o \in sending[c].to THEN 1 ELSE 0)

Continues(o, c) ==
    /\ \A i, j \in From(o, c) :
         i < j => observer[o].queue[i].number < observer[o].queue[j].number
    /\ \E last \in heard[o][c]..context[c].events :
         /\ Queued(o, c) = heard[o][c] + 1..last
         /\ o \in registered => last = Owed(o, c)

ObservedInOrder ==
    \A o \in Observer : consumer[o] # "ABSENT" =>
        /\ ~observer[o].overflowed =>
             \A c \in inst.scope[o] \ {inst.owner[o]} : Continues(o, c)
        /\ consumer[o] = "WAITING" => Open(o) /\ observer[o].queue = <<>>
=============================================================================
