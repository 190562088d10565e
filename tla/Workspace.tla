------------------------------ MODULE Workspace ------------------------------
(***************************************************************************)
(* The detached work of the dashboard (dashboard/_workspace.py): layouts of *)
(* graphs and reads of stored history wait in a bounded queue for the one   *)
(* worker task, which has each done by the one thread of its executor.  A   *)
(* read is answered through a future that an HTTP handler waits for, or     *)
(* several in the case of a summary.  The grant to read history may end at  *)
(* any moment, the handler may give up, the worker may be cancelled, and    *)
(* the workspace may close at any point of this.                            *)
(***************************************************************************)
EXTENDS Naturals, Sequences, FiniteSets, SequencesExt

CONSTANTS
    Client,      \* HTTP handlers that ask for history
    Graph,       \* captured graph definitions
    Nothing,     \* no job
    QueueSize,   \* maxsize of the queue
    MaxCaptures  \* bound: how often a definition is captured

VARIABLES
    granted,    \* whether the history source may still be read
    jobs,       \* queue: the accepted jobs, and End once close() has put it
    worker,     \* the worker task: what it does, and with which job
    operation,  \* how far the executor's thread is with that job
    future,     \* the future each client's request made
    client,     \* what each handler does, and whose future it waits for
    layout,     \* per graph: ready, how often captured, the capture laid out
    shared,    \* summary_pending: the client whose future is shared
    closer      \* how far close() has come; closing is set first

vars == <<granted, jobs, worker, operation, future, client, layout,
          shared, closer>>

Job(kind, of) == [kind |-> kind, of |-> of]
End == Job("end", Nothing)
Idle == [at |-> "IDLE", job |-> End]
NotAsking(at) == [at |-> at, of |-> Nothing]

closing == closer # "NONE"
WorkerEnded == worker.at \in {"DONE", "CANCELLED"}

Init ==
    /\ granted = TRUE
    /\ jobs = <<>>
    /\ worker = Idle
    /\ operation = "NONE"
    /\ future = [q \in Client |-> "NONE"]
    /\ client = [q \in Client |-> NotAsking("IDLE")]
    /\ layout = [g \in Graph |-> [ready |-> FALSE, capture |-> 1, pending |-> 0]]
    /\ shared = Nothing
    /\ closer = "NONE"

-----------------------------------------------------------------------------
(* _enqueue(): nothing enters a closing or a full queue.                      *)
Room == ~closing /\ Len(jobs) < QueueSize

Answer(q, at, of) == client' = [client EXCEPT ![q] = [at |-> at, of |-> of]]

(* _request(): refused without a grant, answered through a future otherwise.  *)
AskHistory(q) ==
    /\ client[q].at = "IDLE"
    /\ IF granted /\ Room
       THEN /\ jobs' = Append(jobs, Job("history", q))
            /\ future' = [future EXCEPT ![q] = "PENDING"]
            /\ Answer(q, "WAITS", q)
       ELSE /\ Answer(q, "REFUSED", Nothing)
            /\ UNCHANGED <<jobs, future>>
    /\ UNCHANGED <<granted, worker, operation, layout, shared, closer>>

(* history_summary_request(): equal questions share one future.               *)
AskSummary(q) ==
    /\ client[q].at = "IDLE"
    /\ IF ~granted \/ closing \/ (shared = Nothing /\ ~Room)
       THEN /\ Answer(q, "REFUSED", Nothing)
            /\ UNCHANGED <<jobs, future, shared>>
       ELSE IF shared # Nothing
       THEN /\ Answer(q, "WAITS", shared)
            /\ UNCHANGED <<jobs, future, shared>>
       ELSE /\ Answer(q, "WAITS", q)
            /\ shared' = q
            /\ future' = [future EXCEPT ![q] = "PENDING"]
            /\ jobs' = Append(jobs, Job("summary", q))
    /\ UNCHANGED <<granted, worker, operation, layout, closer>>

Shielded(q) == shared = client[q].of

(* The handler goes on: what was found while the grant held is not delivered  *)
(* once it has ended, nor a summary while the workspace closes.               *)
Resume(q) ==
    /\ client[q].at = "WAITS"
    /\ future[client[q].of] \in {"RESULT", "ERROR"}
    /\ LET found == future[client[q].of] = "RESULT"
       IN  Answer(q, IF found /\ granted THEN "SERVED" ELSE "REFUSED", Nothing)
    /\ UNCHANGED <<granted, jobs, worker, operation, future, layout, shared, closer>>

(* A handler that runs out of time cancels the future it alone waits for; a   *)
(* shared one is shielded.                                                    *)
Left(Q) ==
    /\ client' = [q \in Client |->
            IF q \in Q /\ client[q].at = "WAITS" THEN NotAsking("GONE") ELSE client[q]]
    /\ future' = [q \in Client |->
            IF q \in Q /\ client[q].at = "WAITS" /\ ~Shielded(q) /\ future[q] = "PENDING"
            THEN "CANCELLED" ELSE future[q]]

GiveUp(q) ==
    /\ client[q].at = "WAITS"
    /\ Left({q})
    /\ UNCHANGED <<granted, jobs, worker, operation, layout, shared, closer>>

(* The callback of a shared future makes room for the next question.          *)
SummarySettled ==
    /\ shared # Nothing /\ future[shared] # "PENDING"
    /\ shared' = Nothing
    /\ UNCHANGED <<granted, jobs, worker, operation, future, client, layout, closer>>

Revoke ==
    /\ granted
    /\ granted' = FALSE
    /\ UNCHANGED <<jobs, worker, operation, future, client, layout, shared, closer>>

-----------------------------------------------------------------------------
(* Layouts.  A definition may be evicted and captured anew while its layout   *)
(* is on the way: the layout is then of a definition that is gone.            *)

Captured(g) == layout[g].capture > 0

EnsureLayout(g) ==
    /\ Captured(g) /\ ~layout[g].ready /\ layout[g].pending = 0
    /\ Room
    /\ jobs' = Append(jobs, Job("layout", <<g, layout[g].capture>>))
    /\ layout' = [layout EXCEPT ![g].pending = layout[g].capture]
    /\ UNCHANGED <<granted, worker, operation, future, client, shared, closer>>

Recapture(g) ==
    /\ Captured(g) /\ layout[g].capture < MaxCaptures /\ ~closing
    /\ layout' = [layout EXCEPT ![g].capture = @ + 1, ![g].ready = FALSE]
    /\ UNCHANGED <<granted, jobs, worker, operation, future, client, shared, closer>>

(* Variant: the pending mark goes only with the definition that is captured.  *)
LaidOut_Current(job, ok) ==
    IF job.kind # "layout" THEN layout
    ELSE LET g == job.of[1]
         IN  IF layout[g].capture # job.of[2] THEN layout
             ELSE [layout EXCEPT ![g].ready = @ \/ (ok /\ ~closing), ![g].pending = 0]

(* What the end of a job leaves of the layouts: only the definition that is   *)
(* still the captured one takes the result.                                   *)
LaidOut(job, ok) ==
    IF job.kind # "layout" THEN layout
    ELSE LET g == job.of[1]
         IN  [layout EXCEPT
                ![g].ready   = @ \/ (ok /\ ~closing /\ layout[g].capture = job.of[2]),
                ![g].pending = IF @ = job.of[2] THEN 0 ELSE @]

-----------------------------------------------------------------------------
(* The worker task and the thread of its executor.                            *)

Answered(job, outcome) ==
    IF job.kind \in {"history", "summary"} /\ future[job.of] = "PENDING"
    THEN [future EXCEPT ![job.of] = outcome] ELSE future

Take ==
    /\ worker.at = "IDLE" /\ jobs # <<>>
    /\ jobs' = Tail(jobs)
    /\ IF Head(jobs) = End
       THEN worker' = [at |-> "DONE", job |-> End] /\ UNCHANGED operation
       ELSE /\ worker' = [at |-> "RUNS", job |-> Head(jobs)]
            /\ operation' = "RUNS"
    /\ UNCHANGED <<granted, future, client, layout, shared, closer>>

(* A read succeeds only while it is granted.                                  *)
OperationEnds ==
    /\ operation = "RUNS"
    /\ \E ok \in {TRUE, FALSE} :
          /\ ok => (worker.job.kind = "layout" \/ granted)
          /\ operation' = IF ok THEN "OK" ELSE "FAILED"
    /\ UNCHANGED <<granted, jobs, worker, future, client, layout, shared, closer>>

FinishJob ==
    /\ worker.at = "RUNS" /\ operation \in {"OK", "FAILED"}
    /\ LET job == worker.job
           ok  == operation = "OK" /\ (job.kind = "layout" \/ granted)
       IN  /\ future' = Answered(job, IF ok THEN "RESULT" ELSE "ERROR")
           /\ layout' = LaidOut(job, ok)
    /\ worker' = Idle
    /\ operation' = "NONE"
    /\ UNCHANGED <<granted, jobs, client, shared, closer>>

(* Cancelled in the middle of a job, the worker answers its future at once    *)
(* but leaves only when the thread is done with it.                           *)
CancelWorker ==
    /\ worker.at \in {"IDLE", "RUNS"}
    /\ IF worker.at = "IDLE"
       THEN worker' = [worker EXCEPT !.at = "CANCELLED"] /\ UNCHANGED future
       ELSE /\ worker' = [worker EXCEPT !.at = "JOINS"]
            /\ future' = Answered(worker.job, "ERROR")
    /\ UNCHANGED <<granted, jobs, operation, client, layout, shared, closer>>

JoinOperation ==
    /\ worker.at = "JOINS" /\ operation # "RUNS"
    /\ worker' = [at |-> "CANCELLED", job |-> End]
    /\ operation' = "NONE"
    /\ layout' = LaidOut(worker.job, FALSE)
    /\ UNCHANGED <<granted, jobs, future, client, shared, closer>>

-----------------------------------------------------------------------------
(* close(), once the service has cancelled its handlers: the sentinel races   *)
(* the end of the worker, which may never make room for it, and what the      *)
(* queue still holds is answered as abandoned.                                *)

BeginWorkspaceClose ==
    /\ ~closing
    /\ Left(Client)
    /\ closer' = IF WorkerEnded THEN "JOINS" ELSE "PUTS"
    /\ UNCHANGED <<granted, jobs, worker, operation, layout, shared>>

PutSentinel ==
    /\ closer = "PUTS"
    /\ IF Len(jobs) < QueueSize THEN jobs' = Append(jobs, End)
       ELSE WorkerEnded /\ UNCHANGED jobs
    /\ closer' = "JOINS"
    /\ UNCHANGED <<granted, worker, operation, future, client, layout, shared>>

Abandoned == [q \in Client |->
    IF future[q] = "PENDING" /\ \E i \in DOMAIN jobs : jobs[i].of = q
    THEN "ERROR" ELSE future[q]]

FinishWorkspaceClose ==
    /\ closer = "JOINS" /\ WorkerEnded
    /\ future' = Abandoned
    /\ jobs' = <<>>
    /\ layout' = [g \in Graph |-> [ready |-> FALSE, capture |-> 0, pending |-> 0]]
    /\ shared' = Nothing
    /\ closer' = "CLOSED"
    /\ UNCHANGED <<granted, worker, operation, client>>

Next ==
    \/ Take \/ OperationEnds \/ FinishJob \/ CancelWorker \/ JoinOperation
    \/ BeginWorkspaceClose \/ PutSentinel \/ FinishWorkspaceClose
    \/ SummarySettled \/ Revoke
    \/ \E q \in Client : AskHistory(q) \/ AskSummary(q) \/ Resume(q) \/ GiveUp(q)
    \/ \E g \in Graph : EnsureLayout(g) \/ Recapture(g)

(* The loop runs its ready tasks, and the thread ends its work.  Nothing is   *)
(* assumed of the clients, nor of whoever closes the workspace.               *)
Fairness ==
    /\ WF_vars(Take) /\ WF_vars(OperationEnds)
    /\ WF_vars(FinishJob) /\ WF_vars(JoinOperation)
    /\ WF_vars(PutSentinel) /\ WF_vars(FinishWorkspaceClose)

Spec == Init /\ [][Next]_vars /\ Fairness

-----------------------------------------------------------------------------
(* Nothing that was accepted is forgotten: a pending future belongs to a job  *)
(* that waits or is being done, so does a pending layout - a definition whose *)
(* job was lost would never be laid out again - and when the workspace has    *)
(* closed no future is left pending.                                          *)
Underway == {jobs[i] : i \in DOMAIN jobs}
            \cup (IF worker.at \in {"RUNS", "JOINS"} THEN {worker.job} ELSE {})

NothingForgotten ==
    /\ \A q \in Client : future[q] = "PENDING" =>
            \E job \in Underway : job.of = q
    /\ \A g \in Graph : layout[g].pending # 0 =>
            Job("layout", <<g, layout[g].pending>>) \in Underway
    /\ closer = "CLOSED" => \A q \in Client : future[q] # "PENDING"

(* Accepted work ends.  While the worker lives all that is pending is settled  *)
(* - each handler asks once, and a graph is captured a bounded number of times *)
(* - and a workspace that closes is closed in the end, also when the worker    *)
(* died beside a full queue.                                                   *)
WorkPending ==
    (\E q \in Client : future[q] = "PENDING") \/ (\E g \in Graph : layout[g].pending # 0)

WorkEnds ==
    /\ WorkPending ~> (~WorkPending \/ WorkerEnded)
    /\ closing ~> closer = "CLOSED"
=============================================================================
