---------------------------- MODULE HistoryLane ----------------------------
(***************************************************************************)
(* History on its way into storage: the persistence lane of                *)
(* persistence/_database.py, the recorder and the captures of              *)
(* engine/_history.py and the timing contributions of                      *)
(* engine/progress_history.py.  Threads that submit and finalize contexts, *)
(* the supervisor that opens and closes the recorder, callers that flush   *)
(* or read, and the lane's own thread share one database record.  Sizes in *)
(* bytes are left out: capacity is counted in items.                       *)
(***************************************************************************)
EXTENDS Integers, SequencesExt

CONSTANTS
    Context,        \* the contexts that are submitted
    Timed,          \* those whose run is one to learn from
    Flusher,        \* callers of flush
    Reader,         \* callers of a query
    PendingItems,   \* limits.pending_items
    BatchItems,     \* limits.batch_items
    MaxAttempts,    \* limits.max_attempts
    MaxFaults       \* how often something goes wrong in a behaviour

NoFailure == -1
Recording == {"startup", "shutdown"}
Caller == Flusher \cup Reader \cup Recording \cup {"profiles"}
Reading == Reader \cup {"profiles"}
Reporting == Flusher \cup {"startup"}

ASSUME LaneAssumption ==
    /\ Timed \subseteq Context
    /\ PendingItems \in Nat \ {0} /\ BatchItems \in Nat \ {0}
    /\ MaxAttempts \in Nat \ {0} /\ MaxFaults \in Nat
    /\ IsFiniteSet(Context)
    /\ (Flusher \cup Reader) \cap (Recording \cup {"profiles"}) = {}
    \* a reservation of a context is none of the recorder's own
    /\ Context \cap {"session", "startup", "layout", "delta"} = {}

VARIABLES
    strict,     \* FailureMode.FAIL: the engine does not go on without history
    db,         \* the Database: its state, counters, reservations and barriers
    queue,      \* what the lane has still to do, in order
    lane,       \* the lane's thread
    store,      \* what the backend holds, in the order of its commits
    capture,    \* by context: its diagnostic capture
    recorder,   \* the supervisor's recorder
    learning,   \* timing contributions: made, pending, acknowledged, lost
    faults      \* how much has gone wrong

vars == <<strict, db, queue, lane, store, capture, recorder, learning, faults>>

-----------------------------------------------------------------------------
(* The database record, as the lock protects it                            *)

Items(d) == Cardinality(d.held) + Cardinality(d.published)
Failed(d) == d.first # NoFailure
Lesser(a, b) == IF a <= b THEN a ELSE b

Outcome(d, c, a) ==
    IF a.status # "WAITING" \/ c \in Reading THEN a.status
    ELSE IF c \in Reporting /\ Failed(d) /\ d.first <= a.target THEN "FAILED"
    ELSE IF \/ d.settled >= a.target
            \/ c \notin Reporting /\ \A n \in d.published : n > a.target
         THEN "OK" ELSE "WAITING"

SettleBarriers(d) ==
    [d EXCEPT !.asked =
        [c \in Caller |-> [d.asked[c] EXCEPT !.status = Outcome(d, c, d.asked[c])]]]

Failure(d, n) ==
    SettleBarriers([d EXCEPT
        !.first = IF Failed(d) THEN Lesser(@, n) ELSE n,
        !.state = IF d.closing \/ @ = "OPENING" THEN @ ELSE "DEGRADED"])

RecordGap(d) == Failure([d EXCEPT !.admitted = @ + 1], d.admitted + 1)

Reservable(d) == ~d.unavailable /\ Items(d) < PendingItems /\ ~(strict /\ Failed(d))

\* A refused reservation: the strict engine is told, the tolerant one has a gap.
Unreserved(d) == IF strict THEN Failure(d, 0) ELSE RecordGap(d)

CanCache(d) == ~d.closing /\ d.state = "OPEN" /\ Items(d) < PendingItems

Hold(d, h) == [d EXCEPT !.held = @ \cup {h}]

Discard(d, h, gap) ==
    LET told == IF gap THEN RecordGap(d) ELSE d
    IN  IF h \in d.held THEN [told EXCEPT !.held = @ \ {h}] ELSE d

\* The reservation becomes a publication with the next number.
Publish(d, h) ==
    [d EXCEPT !.admitted = @ + 1, !.held = @ \ {h}, !.published = @ \cup {d.admitted + 1}]

Release(d, numbers) == [d EXCEPT !.published = @ \ numbers]

Job(type, of, number, count) == [type |-> type, of |-> of, number |-> number, count |-> count]

Barrier(d, c) ==
    SettleBarriers([d EXCEPT !.asked[c] = [status |-> "WAITING", target |-> d.admitted]])

BeginClose(d) == [d EXCEPT !.closing = TRUE, !.state = IF @ = "OPENING" THEN @ ELSE "CLOSING"]

\* A read waits in the queue for its turn; it is to see all that was accepted.
Asked(d, c) == [d EXCEPT !.asked[c] = [status |-> "WAITING", target |-> d.admitted]]
Readable(d) == d.state \notin {"OPENING", "CLOSED"} /\ ~d.closing /\ ~d.unavailable

-----------------------------------------------------------------------------
(* Timing contributions: one accumulator, one reservation for it           *)

\* The accumulator leaves as one publication, or is lost.
Drain(d, q, l) ==
    LET n == d.admitted + 1
    IN  CASE l.pending = 0 -> [db |-> d, queue |-> q, learning |-> l]
          [] l.pending > 0 /\ (d.unavailable \/ d.closing) ->
               [db |-> RecordGap(Discard(d, "delta", FALSE)), queue |-> q,
                learning |-> [l EXCEPT !.pending = 0, !.lost = @ + l.pending]]
          [] OTHER ->
               [db |-> Publish(d, "delta"),
                queue |-> Append(q, Job("DELTA", "delta", n, l.pending)),
                learning |-> [l EXCEPT !.pending = 0]]

Contribute(d, l) ==
    CASE l.pending > 0 ->
           [db |-> d, learning |-> [l EXCEPT !.made = @ + 1, !.pending = @ + 1]]
      [] l.pending = 0 /\ CanCache(d) ->
           [db |-> Hold(d, "delta"), learning |-> [l EXCEPT !.made = @ + 1, !.pending = 1]]
      [] OTHER ->
           [db |-> RecordGap(d), learning |-> [l EXCEPT !.made = @ + 1, !.lost = @ + 1]]

Fault == faults < MaxFaults /\ faults' = faults + 1
NoFault == UNCHANGED faults

\* A wait runs out of time: a fault, unless nothing is left that could end it.
TimeIsUp == IF lane.pc = "IDLE" /\ queue = << >> THEN NoFault ELSE Fault

-----------------------------------------------------------------------------
(* The lane                                                                *)

Idle == [pc |-> "IDLE", jobs |-> << >>, ready |-> << >>, attempt |-> 0,
         failed |-> FALSE, sequence |-> 0, handle |-> TRUE, opened |-> "OK"]

Init ==
    /\ strict \in BOOLEAN
    /\ db = [state |-> "OPENING", closing |-> FALSE, unavailable |-> FALSE,
             admitted |-> 0, settled |-> 0, first |-> NoFailure,
             held |-> {}, published |-> {},
             asked |-> [c \in Caller |-> [status |-> "NONE", target |-> 0]]]
    /\ queue = << >>
    /\ lane = [Idle EXCEPT !.pc = "OPENING", !.handle = FALSE, !.opened = "NO"]
    /\ store = [log |-> << >>, watermark |-> 0]
    /\ capture = [c \in Context |-> "NEW"]
    /\ recorder = [pc |-> "OPENING", ready |-> FALSE, gave_up |-> FALSE]
    /\ learning = [made |-> 0, pending |-> 0, acknowledged |-> 0, lost |-> 0]
    /\ faults = 0

LaneOpen ==
    /\ lane.pc = "OPENING"
    /\ lane' = Idle
    /\ db' = [db EXCEPT !.state = IF db.closing THEN "CLOSING" ELSE "OPEN"]
    /\ NoFault
    /\ UNCHANGED <<strict, queue, store, capture, recorder, learning>>

\* Storage is unavailable: the tolerant engine goes on without it.  Anything
\* else, and anything at all for the strict engine, rejects the opening.
LaneFailsToOpen ==
    /\ lane.pc = "OPENING"
    /\ Fault
    /\ \E rejected \in BOOLEAN :
        LET told == [Failure(db, 0) EXCEPT !.unavailable = TRUE]
        IN  IF ~strict /\ ~rejected
            THEN /\ db' = [told EXCEPT !.state = IF db.closing THEN "CLOSING" ELSE "DEGRADED"]
                 /\ lane' = [Idle EXCEPT !.handle = FALSE]
            ELSE /\ db' = [told EXCEPT !.closing = TRUE]
                 /\ lane' = [Idle EXCEPT !.handle = FALSE, !.opened = "REJECTED"]
    /\ UNCHANGED <<strict, queue, store, capture, recorder, learning>>

\* Timer or request: the accumulated contributions are published.
Checkpoint ==
    /\ lane.pc = "IDLE" /\ ~db.closing /\ learning.pending > 0
    /\ LET drained == Drain(db, queue, learning)
       IN  db' = drained.db /\ queue' = drained.queue /\ learning' = drained.learning
    /\ UNCHANGED <<strict, lane, store, capture, recorder, faults>>

TakeRead ==
    /\ lane.pc = "IDLE" /\ queue # << >> /\ Head(queue).type = "READ"
    /\ queue' = Tail(queue)
    /\ \/ NoFault /\ db' = [db EXCEPT !.asked[Head(queue).of].status = "OK"]
       \/ Fault /\ db' = [db EXCEPT !.asked[Head(queue).of].status = "FAILED"]
    /\ UNCHANGED <<strict, lane, store, capture, recorder, learning>>

\* Publications that stand next to each other, up to the batch's capacity.
BatchLength ==
    CHOOSE k \in 1..Len(queue) :
        /\ k <= BatchItems /\ \A i \in 1..k : queue[i].type # "READ"
        /\ k = Len(queue) \/ k = BatchItems \/ queue[k + 1].type = "READ"

TakeBatch ==
    /\ lane.pc = "IDLE" /\ queue # << >> /\ Head(queue).type # "READ"
    /\ lane' = [lane EXCEPT !.pc = "BATCH", !.jobs = SubSeq(queue, 1, BatchLength)]
    /\ queue' = SubSeq(queue, BatchLength + 1, Len(queue))
    /\ UNCHANGED <<strict, db, store, capture, recorder, learning, faults>>

Encoded(job) == job.type \in {"CONTEXT", "DELTA"}

\* Deferred detail is encoded.  What cannot be leaves the batch with a gap; an
\* entry whose evidence is incomplete is told as a gap and stays.
Prepare ==
    /\ lane.pc = "BATCH"
    /\ \/ /\ NoFault /\ UNCHANGED db
          /\ lane' = [lane EXCEPT !.pc = "WRITE", !.ready = lane.jobs, !.attempt = 1,
                                  !.sequence = @ + 1]
       \/ /\ Fault
          /\ \E i \in 1..Len(lane.jobs), complete \in BOOLEAN :
              /\ Encoded(lane.jobs[i]) /\ (complete => lane.jobs[i].type = "CONTEXT")
              /\ db' = Failure(db, lane.jobs[i].number)
              /\ LET ready == IF complete THEN lane.jobs ELSE RemoveAt(lane.jobs, i)
                 IN  lane' = IF ready = << >>
                             THEN [lane EXCEPT !.pc = "RELEASE", !.ready = << >>, !.failed = FALSE]
                             ELSE [lane EXCEPT !.pc = "WRITE", !.ready = ready, !.attempt = 1,
                                               !.sequence = @ + 1]
    /\ UNCHANGED <<strict, queue, store, capture, recorder, learning>>

\* Variant: the backend does not know the batches it has stored.
Committed_Again(s, l) ==
    [log |-> s.log \o [i \in 1..Len(l.ready) |->
                          [of |-> l.ready[i].of, number |-> l.ready[i].number]],
     watermark |-> l.sequence]

\* The backend takes a batch once: a batch it has seen is only acknowledged.
Committed(s, l) ==
    IF l.sequence <= s.watermark THEN s
    ELSE [log |-> s.log \o [i \in 1..Len(l.ready) |->
                               [of |-> l.ready[i].of, number |-> l.ready[i].number]],
          watermark |-> l.sequence]

\* After a failed batch the producer is a new one, unknown to the backend.
GiveUpBatch == lane' = [lane EXCEPT !.pc = "RELEASE", !.failed = TRUE, !.sequence = 0]

AttemptStored ==
    /\ lane.pc = "WRITE"
    /\ store' = Committed(store, lane)
    /\ lane' = [lane EXCEPT !.pc = "RELEASE", !.failed = FALSE]
    /\ UNCHANGED <<strict, db, queue, capture, recorder, learning, faults>>

\* The backend reports that it is unavailable; the batch may be stored all the
\* same.  The same batch is tried again, under the same sequence number.  An
\* outage that lasts counts as one fault.
AttemptUncertain ==
    /\ lane.pc = "WRITE"
    /\ IF lane.attempt = 1 THEN Fault ELSE NoFault
    /\ \E stored \in BOOLEAN :
        LET after == IF stored THEN Committed(store, lane) ELSE store
        IN  IF lane.attempt < MaxAttempts
            THEN /\ lane' = [lane EXCEPT !.attempt = @ + 1]
                 /\ store' = after
            ELSE GiveUpBatch /\ store' = [after EXCEPT !.watermark = 0]
    /\ UNCHANGED <<strict, db, queue, capture, recorder, learning>>

\* Any other error ends the batch at once.
AttemptRejected ==
    /\ lane.pc = "WRITE" /\ Fault
    /\ GiveUpBatch /\ store' = [store EXCEPT !.watermark = 0]
    /\ UNCHANGED <<strict, db, queue, capture, recorder, learning>>

Numbers(jobs) == {jobs[i].number : i \in 1..Len(jobs)}

\* Variant: a batch that failed is not remembered as a failure.
ReleaseBatch_Silent ==
    /\ lane.pc = "RELEASE"
    /\ db' = Release(db, Numbers(lane.jobs))
    /\ lane' = [lane EXCEPT !.pc =
          IF \E i \in 1..Len(lane.jobs) : lane.jobs[i].type = "DELTA"
          THEN "ACKNOWLEDGE" ELSE "SETTLE"]
    /\ UNCHANGED <<strict, queue, store, capture, recorder, learning, faults>>

ReleaseBatch ==
    /\ lane.pc = "RELEASE"
    /\ db' = Release(IF lane.failed THEN Failure(db, lane.ready[1].number) ELSE db,
                     Numbers(lane.jobs))
    /\ lane' = [lane EXCEPT !.pc =
          IF \E i \in 1..Len(lane.jobs) : lane.jobs[i].type = "DELTA"
          THEN "ACKNOWLEDGE" ELSE "SETTLE"]
    /\ UNCHANGED <<strict, queue, store, capture, recorder, learning, faults>>

\* How many contributions the timing deltas among the jobs carry.
Contributed(jobs) ==
    LET sum[n \in 0..Len(jobs)] == IF n = 0 THEN 0 ELSE sum[n - 1] + jobs[n].count
    IN  sum[Len(jobs)]

\* The owner of each timing delta learns what became of it.
Acknowledge ==
    /\ lane.pc = "ACKNOWLEDGE"
    /\ LET confirmed == IF lane.failed THEN 0 ELSE Contributed(lane.ready)
       IN  learning' = [learning EXCEPT
               !.acknowledged = @ + confirmed,
               !.lost = @ + (Contributed(lane.jobs) - confirmed)]
    /\ lane' = [lane EXCEPT !.pc = "SETTLE"]
    /\ UNCHANGED <<strict, db, queue, store, capture, recorder, faults>>

\* Variant: callers who flush are not looked at when a batch is settled.
Settle_Unseen ==
    /\ lane.pc = "SETTLE"
    /\ db' = [db EXCEPT !.settled = Last(lane.jobs).number]
    /\ lane' = [lane EXCEPT !.pc = "IDLE", !.jobs = << >>, !.ready = << >>,
                            !.attempt = 0, !.failed = FALSE]
    /\ UNCHANGED <<strict, queue, store, capture, recorder, learning, faults>>

Settle ==
    /\ lane.pc = "SETTLE"
    /\ db' = SettleBarriers([db EXCEPT !.settled = Last(lane.jobs).number])
    /\ lane' = [lane EXCEPT !.pc = "IDLE", !.jobs = << >>, !.ready = << >>,
                            !.attempt = 0, !.failed = FALSE]
    /\ UNCHANGED <<strict, queue, store, capture, recorder, learning, faults>>

\* Maintenance that succeeds changes nothing here.
MaintenanceFails ==
    /\ lane.pc = "IDLE" /\ lane.handle /\ ~db.closing
    /\ Fault
    /\ db' = RecordGap(db)
    /\ UNCHANGED <<strict, queue, lane, store, capture, recorder, learning>>

\* The lane ends when it is told to and nothing is reserved any more.
End ==
    /\ lane.pc = "IDLE" /\ queue = << >> /\ db.closing /\ Items(db) = 0
    /\ lane' = [lane EXCEPT !.pc = "ENDED", !.handle = FALSE]
    /\ \/ NoFault /\ db' = [db EXCEPT !.state = "CLOSED"]
       \/ lane.handle /\ Fault /\ db' = [RecordGap(db) EXCEPT !.state = "CLOSED"]
    /\ UNCHANGED <<strict, queue, store, capture, recorder, learning>>

LaneStep ==
    \/ LaneOpen \/ LaneFailsToOpen \/ TakeRead \/ TakeBatch \/ Prepare
    \/ AttemptStored \/ AttemptUncertain \/ AttemptRejected
    \/ ReleaseBatch \/ Acknowledge \/ Settle \/ End

-----------------------------------------------------------------------------
(* The recorder's life                                                     *)

Owned == lane.pc # "ENDED"      \* the Database still has its owner
Go(pc) == recorder' = [recorder EXCEPT !.pc = pc]

\* The session is recorded at once, and a copy of it kept for the end.
RecorderOpens ==
    /\ recorder.pc = "OPENING" /\ lane.opened # "NO"
    /\ \/ lane.opened = "REJECTED" /\ Go("ABANDONED") /\ UNCHANGED <<db, queue>>
       \/ /\ lane.opened = "OK" /\ ~Reservable(db)
          /\ db' = Unreserved(db) /\ Go(IF strict THEN "ABANDONED" ELSE "LOADING")
          /\ UNCHANGED queue
       \/ /\ lane.opened = "OK" /\ Reservable(db) /\ ~CanCache(Hold(db, "startup"))
          /\ db' = IF strict THEN db ELSE RecordGap(db)
          /\ Go(IF strict THEN "ABANDONED" ELSE "LOADING")
          /\ UNCHANGED queue
       \/ /\ lane.opened = "OK" /\ Reservable(db) /\ CanCache(Hold(db, "startup"))
          /\ db' = Barrier(Publish(Hold(Hold(db, "startup"), "session"), "startup"), "startup")
          /\ queue' = Append(queue, Job("SESSION", "startup", db.admitted + 1, 0))
          /\ Go("STARTING")
    /\ UNCHANGED <<strict, lane, store, capture, learning, faults>>

\* The wait for the opening, or for the profiles, ran out of time.
RecorderTimesOut ==
    /\ \/ recorder.pc = "OPENING" /\ lane.opened = "NO"
       \/ recorder.pc = "LOADING" /\ db.asked["profiles"].status = "WAITING"
    /\ TimeIsUp /\ Go("ABANDONED")
    /\ UNCHANGED <<strict, db, queue, lane, store, capture, learning>>

\* The session is ready once it is stored; a tolerant engine goes on without.
SessionRecorded ==
    /\ recorder.pc = "STARTING"
    /\ \/ /\ db.asked["startup"].status = "OK" /\ NoFault
          /\ recorder' = [recorder EXCEPT !.pc = "LOADING", !.ready = TRUE]
       \/ /\ db.asked["startup"].status = "FAILED" /\ NoFault
          /\ Go(IF strict THEN "ABANDONED" ELSE "LOADING")
       \/ /\ db.asked["startup"].status = "WAITING" /\ TimeIsUp
          /\ Go(IF strict THEN "ABANDONED" ELSE "LOADING")
    /\ UNCHANGED <<strict, db, queue, lane, store, capture, learning>>

\* One read of the stored profiles, before any context is accepted.
AskProfiles ==
    /\ recorder.pc = "LOADING" /\ db.asked["profiles"].status = "NONE"
    /\ IF Readable(db)
       THEN /\ db' = Asked(db, "profiles")
            /\ queue' = Append(queue, Job("READ", "profiles", 0, 0))
            /\ UNCHANGED recorder
       ELSE /\ db' = RecordGap(db) /\ UNCHANGED queue
            /\ Go(IF strict THEN "ABANDONED" ELSE "OPEN")
    /\ UNCHANGED <<strict, lane, store, capture, learning, faults>>

ProfilesLoaded ==
    /\ recorder.pc = "LOADING"
    /\ \/ db.asked["profiles"].status = "OK" /\ UNCHANGED db /\ Go("OPEN")
       \/ /\ db.asked["profiles"].status = "FAILED"
          /\ db' = RecordGap(db) /\ Go(IF strict THEN "ABANDONED" ELSE "OPEN")
    /\ UNCHANGED <<strict, queue, lane, store, capture, learning, faults>>

-----------------------------------------------------------------------------
(* A context's capture, from before it runs until it is final              *)

InHand(c) == capture[c] \in {"CAPTURING", "READY", "CLAIMED"}
Capturing == {c \in Context : capture[c] = "CAPTURING"}

\* The layout kept for reuse must not take the last place.  Only the recorder
\* closes the Database, so it is open while the recorder is.
SpareLayout(d) == IF Items(d) >= PendingItems THEN Discard(d, "layout", FALSE) ELSE d

BeginPrepare(c) ==
    /\ capture[c] = "NEW" /\ recorder.pc = "OPEN"
    /\ LET d == SpareLayout(db)
       IN \/ /\ ~Reservable(d)
             /\ db' = IF strict THEN RecordGap(Unreserved(d)) ELSE Unreserved(d)
             /\ capture' = [capture EXCEPT ![c] = IF strict THEN "REFUSED" ELSE "OMITTED"]
          \/ /\ Reservable(d) /\ ~recorder.ready
             /\ db' = RecordGap(d)
             /\ capture' = [capture EXCEPT ![c] = "OMITTED"]
          \/ /\ Reservable(d) /\ recorder.ready
             /\ db' = Hold(d, c)
             /\ capture' = [capture EXCEPT ![c] = "CAPTURING"]
    /\ UNCHANGED <<strict, queue, lane, store, recorder, learning, faults>>

\* A new layout takes the old one's place, if there is room for it.
CacheLayout(d) ==
    LET without == Discard(d, "layout", FALSE)
    IN  IF CanCache(without) THEN Hold(without, "layout") ELSE without

Accepting == recorder.pc \in {"OPENING", "STARTING", "LOADING", "OPEN"}

\* The captured detail fits, with a layout that is reused or made; or it does
\* not, and the capture is given back.
FinishPrepare(c) ==
    /\ capture[c] = "CAPTURING"
    /\ \/ /\ NoFault
          /\ \E d \in {CacheLayout(db)} \cup (IF "layout" \in db.held THEN {db} ELSE {}) :
               IF Accepting
               THEN db' = d /\ capture' = [capture EXCEPT ![c] = "READY"]
               ELSE db' = Discard(d, c, FALSE) /\ capture' = [capture EXCEPT ![c] = "REFUSED"]
       \/ /\ Fault
          /\ db' = IF strict THEN RecordGap(Discard(db, c, FALSE)) ELSE Discard(db, c, TRUE)
          /\ capture' = [capture EXCEPT ![c] = IF strict THEN "REFUSED" ELSE "OMITTED"]
    /\ UNCHANGED <<strict, queue, lane, store, recorder, learning>>

\* Registration takes the capture over; it fails if the close took it first.
Claim(c) ==
    /\ capture[c] = "READY" /\ recorder.pc = "OPEN"
    /\ capture' = [capture EXCEPT ![c] = "CLAIMED"]
    /\ UNCHANGED <<strict, db, queue, lane, store, recorder, learning, faults>>

\* The engine stopped accepting contexts in the meantime.
Abandon(c) ==
    /\ capture[c] = "READY"
    /\ db' = Discard(db, c, FALSE)
    /\ capture' = [capture EXCEPT ![c] = "REFUSED"]
    /\ UNCHANGED <<strict, queue, lane, store, recorder, learning, faults>>

\* The context is final: what it teaches is accumulated, and its capture handed
\* over before anyone who waits for the context is told.
Finalize(c) ==
    /\ capture[c] \in {"CLAIMED", "OMITTED"} /\ recorder.pc = "OPEN"
    /\ LET taught == IF c \in Timed THEN Contribute(db, learning)
                     ELSE [db |-> db, learning |-> learning]
           d == taught.db
       IN  /\ learning' = taught.learning
           /\ \/ /\ capture[c] = "OMITTED" /\ NoFault
                 /\ db' = d /\ UNCHANGED queue
                 /\ capture' = [capture EXCEPT ![c] = "UNRECORDED"]
              \/ /\ capture[c] = "CLAIMED" /\ NoFault
                 /\ db' = Publish(d, c)
                 /\ queue' = Append(queue, Job("CONTEXT", c, d.admitted + 1, 0))
                 /\ capture' = [capture EXCEPT ![c] = "HANDED"]
              \/ /\ capture[c] = "CLAIMED" /\ Fault
                 /\ db' = Discard(RecordGap(d), c, FALSE) /\ UNCHANGED queue
                 /\ capture' = [capture EXCEPT ![c] = "LOST"]
    /\ UNCHANGED <<strict, lane, store, recorder>>

-----------------------------------------------------------------------------
(* Callers                                                                 *)

Flush(f) ==
    /\ db.asked[f].status = "NONE" /\ Owned /\ db.state # "OPENING"
    /\ LET drained == Drain(db, queue, learning)
       IN  db' = Barrier(drained.db, f) /\ queue' = drained.queue
           /\ learning' = drained.learning
    /\ UNCHANGED <<strict, lane, store, capture, recorder, faults>>

Request(r) ==
    /\ db.asked[r].status = "NONE" /\ Readable(db)
    /\ db' = Asked(db, r)
    /\ queue' = Append(queue, Job("READ", r, 0, 0))
    /\ UNCHANGED <<strict, lane, store, capture, recorder, learning, faults>>

-----------------------------------------------------------------------------
(* Closing the recorder, after the runtime has ended                       *)

\* The runtime drains the contributions as the last thing it does.
CloseRecorder ==
    /\ recorder.pc \in {"OPEN", "ABANDONED"}
    /\ Go(IF Owned THEN "CLOSING" ELSE "CLOSED")
    /\ LET drained == Drain(db, queue, learning)
       IN  db' = drained.db /\ queue' = drained.queue /\ learning' = drained.learning
    /\ UNCHANGED <<strict, lane, store, capture, faults>>

\* Captures that are left are given back; one that a context had claimed is a gap.
Kept(d) == [d EXCEPT !.held = @ \ ({"layout"} \cup {c \in Context : InHand(c)})]
Claimed == {c \in Context : capture[c] = "CLAIMED"}
\* One gap after the other: the first of them settles whom it concerns.
Gaps(d, n) ==
    IF n = 0 THEN d ELSE Failure([d EXCEPT !.admitted = @ + n], d.admitted + 1)
Surrendered == [c \in Context |-> CASE capture[c] = "READY" -> "REFUSED"
                                    [] capture[c] = "CLAIMED" -> "LOST"
                                    [] OTHER -> capture[c]]

\* With every capture settled, the rest is drained and waited for.  A Database
\* that was rejected takes no barrier any more, or is closed already.
DrainRecorder ==
    /\ recorder.pc = "CLOSING" /\ Capturing = {}
    /\ LET d == Gaps(Kept(db), Cardinality(Claimed))
           drained == Drain(d, queue, learning)
       IN \/ /\ ~Owned /\ Go("CLOSED") /\ UNCHANGED <<db, queue, learning>>
          \/ /\ Owned /\ db.state = "OPENING"
             /\ db' = BeginClose(RecordGap(d)) /\ Go("ENDING")
             /\ UNCHANGED <<queue, learning>>
          \/ /\ Owned /\ db.state # "OPENING"
             /\ db' = Barrier(drained.db, "shutdown") /\ Go("DRAINING")
             /\ queue' = drained.queue /\ learning' = drained.learning
    /\ capture' = Surrendered
    /\ UNCHANGED <<strict, lane, store, faults>>

\* A capture is still being prepared when the time is up: its reservation stays
\* with the Database, and the session's last record is not written.
StopWaiting ==
    /\ recorder.pc = "CLOSING" /\ Owned /\ Capturing # {} /\ Fault
    /\ db' = Discard(db, "layout", FALSE)
    /\ recorder' = [recorder EXCEPT !.pc = "GIVING_UP", !.gave_up = TRUE]
    /\ UNCHANGED <<strict, queue, lane, store, capture, learning>>

GiveUp ==
    /\ recorder.pc = "GIVING_UP"
    /\ db' = BeginClose(Discard(RecordGap(db), "session", "session" \in db.held))
    /\ Go("ENDING")
    /\ UNCHANGED <<strict, queue, lane, store, capture, learning, faults>>

\* The session's last record is its final publication, unless the wait failed.
RecordShutdown ==
    /\ recorder.pc = "DRAINING"
    /\ \/ /\ db.asked["shutdown"].status = "OK" /\ NoFault
          /\ IF "session" \in db.held
             THEN /\ db' = BeginClose(Publish(db, "session"))
                  /\ queue' = Append(queue, Job("SESSION", "session", db.admitted + 1, 0))
             ELSE db' = BeginClose(db) /\ UNCHANGED queue
       \/ /\ db.asked["shutdown"].status = "WAITING" /\ TimeIsUp
          /\ db' = BeginClose(Discard(RecordGap(db), "session", "session" \in db.held))
          /\ UNCHANGED queue
    /\ Go("ENDING")
    /\ UNCHANGED <<strict, lane, store, capture, learning>>

RecorderEnds ==
    /\ recorder.pc = "ENDING"
    /\ IF Owned THEN TimeIsUp ELSE NoFault
    /\ Go("CLOSED")
    /\ UNCHANGED <<strict, db, queue, lane, store, capture, learning>>

Done == recorder.pc = "CLOSED" /\ UNCHANGED vars

RecorderStep ==
    \/ RecorderOpens \/ SessionRecorded \/ AskProfiles \/ ProfilesLoaded
    \/ DrainRecorder \/ GiveUp \/ RecordShutdown \/ RecorderEnds

Next ==
    \/ LaneStep \/ Checkpoint \/ MaintenanceFails
    \/ RecorderStep \/ RecorderTimesOut \/ CloseRecorder \/ StopWaiting
    \/ \E c \in Context :
        BeginPrepare(c) \/ FinishPrepare(c) \/ Claim(c) \/ Abandon(c) \/ Finalize(c)
    \/ \E f \in Flusher : Flush(f)
    \/ \E r \in Reader : Request(r)
    \/ Done

Spec == Init /\ [][Next]_vars

\* The lane's thread runs, the supervisor goes on with what it began, and a
\* submission that began to prepare comes to its end.
Fairness ==
    /\ WF_vars(LaneStep) /\ WF_vars(RecorderStep)
    /\ \A c \in Context : WF_vars(FinishPrepare(c)) /\ WF_vars(Claim(c) \/ Abandon(c))

FairSpec == Spec /\ Fairness

-----------------------------------------------------------------------------
(* Properties                                                              *)

Status == {"NONE", "WAITING", "OK", "FAILED"}

TypeOK ==
    /\ strict \in BOOLEAN /\ faults \in 0..MaxFaults
    /\ db.state \in {"OPENING", "OPEN", "DEGRADED", "CLOSING", "CLOSED"}
    /\ db.closing \in BOOLEAN /\ db.unavailable \in BOOLEAN
    /\ db.admitted \in Nat /\ db.settled \in 0..db.admitted
    /\ db.first \in {NoFailure} \cup 0..db.admitted
    /\ db.held \subseteq Context \cup {"session", "layout", "delta"}
    /\ db.published \subseteq 1..db.admitted
    /\ db.asked \in [Caller -> [status : Status, target : 0..db.admitted]]
    /\ lane.pc \in {"OPENING", "IDLE", "BATCH", "WRITE", "RELEASE", "ACKNOWLEDGE",
                    "SETTLE", "ENDED"}
    /\ capture \in [Context -> {"NEW", "CAPTURING", "READY", "CLAIMED", "HANDED", "OMITTED",
                                "UNRECORDED", "REFUSED", "LOST"}]

\* Every reservation that counts against the capacity has someone who will give
\* it back or publish it: otherwise the lane could never end (_release 567-572).
ReservationsOwned ==
    /\ db.held \cap Context = {c \in Context : InHand(c)}
    /\ "delta" \in db.held <=> learning.pending > 0
    /\ recorder.pc \in {"DRAINING", "ENDING", "CLOSED"} /\ ~recorder.gave_up =>
          db.held \subseteq {"session"}
    /\ db.published = {queue[i].number : i \in {j \in DOMAIN queue : queue[j].type # "READ"}}
                     \cup IF lane.pc \in {"BATCH", "WRITE", "RELEASE"} THEN Numbers(lane.jobs) ELSE {}
    /\ Items(db) <= PendingItems


Entries(c) == {i \in 1..Len(store.log) : store.log[i].of = c}

\* Every reservation has an owner, and no context is stored twice, whatever the
\* backend answered; and a lane that ends with no failure on record has stored
\* every context that was claimed and acknowledged or counted as lost every
\* timing contribution.
NothingLostUntold ==
    /\ TypeOK /\ ReservationsOwned
    /\ \A c \in Context : Cardinality(Entries(c)) <= 1
    /\ lane.pc = "ENDED" =>
        /\ learning.made = learning.acknowledged + learning.lost
        /\ db.first = NoFailure =>
            /\ learning.lost = 0
            /\ \A c \in Context :
                /\ capture[c] \in {"HANDED", "NEW", "REFUSED"}
                /\ capture[c] = "HANDED" => Entries(c) # {}

\* The lane keeps the promise of HistoryPromise.
Promise == INSTANCE HistoryPromise WITH
    Confirmed <- Reporting, Passing <- Reading \cup {"shutdown"}, NoFailure <- NoFailure,
    accepted <- db.admitted, log <- [i \in 1..Len(store.log) |-> store.log[i].number],
    first <- db.first, wait <- db.asked
ImplementsPromise == Promise!Spec

\* Whoever flushes, reads or waits for the shutdown's drain gets an answer: each
\* caller asks once, so that in the end nobody waits.
SomebodyWaits == \E c \in Caller : db.asked[c].status = "WAITING"
AllAnswered == SomebodyWaits ~> ~SomebodyWaits

\* Once the recorder closes, the lane ends, unless it gave up on a capture that
\* was still being prepared.
LaneEnds == recorder.pc = "CLOSING" ~> (lane.pc = "ENDED" \/ recorder.gave_up)

\* Nobody waits for the lane for ever: neither its callers nor its closing.
LaneSettles == AllAnswered /\ LaneEnds
=============================================================================
