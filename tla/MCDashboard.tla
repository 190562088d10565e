----------------------------- MODULE MCDashboard -----------------------------
(* Instances of Dashboard for TLC.                                            *)
EXTENDS Dashboard, TLC

CONSTANTS c1, c2, owner, dash, app, r1

MCContext == {c1, c2, owner}
MCObserver == {dash, app}
MCRequest == {r1}

Starts(a, b) == (c1 :> a) @@ (c2 :> b) @@ (owner :> "NEW")

Base == [contexts |-> {c1, c2}, starts |-> Starts("QUEUED", "QUEUED"),
         records |-> 0, commands |-> 0, supervising |-> {}, sizes |-> {1}, requests |-> {},
         serves |-> TRUE, ages |-> FALSE,
         capacity |-> (dash :> 2) @@ (app :> 1),
         owner |-> (dash :> owner) @@ (app :> None),
         scope |-> (dash :> MCContext) @@ (app :> {})]

(* Two contexts run; a summary may fill the window or not fit at all.         *)
Workload == [Base EXCEPT !.sizes = {1, 2, 3}, !.starts = Starts("QUEUED", "RUNNING")]

(* One of them supervises, and rows grow old.                                 *)
Supervised == [Base EXCEPT !.supervising = {c2}, !.ages = TRUE, !.capacity[dash] = 1,
                           !.starts = Starts("RUNNING", "RUNNING")]

(* A client controls one context.                                             *)
Operated == [Base EXCEPT !.contexts = {c1}, !.starts = Starts("QUEUED", "NEW"),
                         !.requests = {r1}, !.commands = 1]

(* An application observes contexts it submits, next to no dashboard.         *)
Observed == [Base EXCEPT !.serves = FALSE, !.records = 2,
                         !.starts = Starts("NEW", "NEW"),
                         !.capacity[app] = 2, !.scope[app] = {c1, c2}]

MCInstances == {Workload, Supervised, Operated, Observed}
=============================================================================
