------------------------------ MODULE MCLanes ------------------------------
(***************************************************************************)
(* Instances for TLC of the two queues that hand work to a thread of their *)
(* own: the persistence lane of the engine (HistoryLane) and the detached  *)
(* work of the dashboard (Workspace), one job more than its queue holds.   *)
(* They share nothing, so each behaviour is one of the two with the other  *)
(* one at rest.                                                            *)
(***************************************************************************)
EXTENDS HistoryLane

CONSTANTS
    c1, c2, f1, q1, q2, g1,
    Client, Graph, Nothing, QueueSize, MaxCaptures    \* of the workspace

VARIABLES
    moving,    \* which of the two this behaviour is about
    granted, jobs, worker, operation, future, client, layout, shared, closer

W == INSTANCE Workspace

LanesInit ==
    /\ Init /\ W!Init
    /\ moving \in {"DATABASE", "WORKSPACE"}
    /\ moving = "WORKSPACE" => ~strict    \* one lane at rest is enough

workspace == <<granted, jobs, worker, operation, future, client, layout, shared, closer>>

(* A closed workspace may rest: it stops nowhere else.                        *)
LanesNext ==
    /\ UNCHANGED moving
    /\ \/ /\ moving = "DATABASE"
          /\ Next
          /\ UNCHANGED workspace
       \/ /\ moving = "WORKSPACE"
          /\ W!Next \/ (closer = "CLOSED" /\ UNCHANGED workspace)
          /\ UNCHANGED <<strict, db, queue, lane, store, capture, recorder, learning, faults>>

Moving(A) == moving = "DATABASE" /\ A

(* What HistoryLane assumes, of the behaviours that are about it.             *)
DatabaseFairness ==
    /\ WF_vars(Moving(LaneStep)) /\ WF_vars(Moving(RecorderStep))
    /\ \A c \in Context :
          WF_vars(Moving(FinishPrepare(c))) /\ WF_vars(Moving(Claim(c) \/ Abandon(c)))

LanesSpec ==
    LanesInit /\ [][LanesNext]_<<vars, workspace, moving>> /\ DatabaseFairness /\ W!Fairness

(* The workspace forgets nothing it accepted (dashboard/_workspace.py).       *)
NothingForgotten == W!NothingForgotten

(* Neither queue keeps anybody waiting for ever: whoever waits for the lane is *)
(* answered and the lane ends, and so do the accepted work of the workspace    *)
(* and its closing.                                                            *)
LanesSettle == LaneSettles /\ W!WorkEnds
=============================================================================
