------------------------------ MODULE MCStore ------------------------------
(* Two lanes, one walker and the listing on small stores. *)
EXTENDS StoreReaders

CONSTANTS a, b, w, v, s1, s2, k1, k2, k3, k4, g, layout

Start(s) == [kind |-> "SESSION", id |-> <<s, 1>>, session |-> s, started |-> TRUE, at |-> Never]
End(s) == [Start(s) EXCEPT !.id = <<s, 2>>, !.at = 1]
Finished(s, k, l) == [kind |-> "CONTEXT", id |-> k, name |-> k, session |-> s, layout |-> l, at |-> 1]
Learned(c) == [kind |-> "PROFILE", id |-> <<g, c>>, name |-> g]

Policy == [contexts |-> 1, bytes |-> 2, sessions |-> 2, profiles |-> 1, producers |-> 2, horizon |-> 2,
           age |-> Never, imports |-> 1]
Roomy == [Policy EXCEPT !.contexts = 3, !.bytes = 4]
Quiet == [clients |-> {a}, todo |-> [c \in Client |-> <<>>], ready |-> {1}, importers |-> {}, source |-> <<>>,
          upgrader |-> a, old |-> FALSE, policy |-> [c \in Client |-> Policy], time |-> 1, faults |-> 0, runs |-> 0,
          closes |-> FALSE, walks |-> <<>>, sizes |-> {1, 2}, lists |-> FALSE, filters |-> {}]

\* Two engines, a store that keeps one context, and clocks that are set back.
Retries == [Quiet EXCEPT !.time = 3, !.faults = 2, !.clients = {a, b}, !.ready = {2},
    !.todo = (a :> <<Start(s1), Finished(s1, k1, layout), Learned(a), End(s1)>>
           @@ b :> <<Start(s2), Finished(s2, k2, layout)>>)]
\* Two importers of one archive, whose rows are pruned soon.
Imports == [Quiet EXCEPT !.faults = 1, !.runs = 1, !.importers = {a, b}, !.clients = {a, b},
    !.source = <<[partition |-> s1, name |-> k1, at |-> 1, final |-> TRUE],
                 [partition |-> s1, name |-> k2, at |-> 1, final |-> FALSE],
                 [partition |-> s2, name |-> k3, at |-> 1, final |-> TRUE]>>]
\* A store of the first schema, an upgrade, and a client with another policy.
Formats == [Quiet EXCEPT !.old = TRUE, !.faults = 1, !.clients = {a, b}, !.policy[b].contexts = 3,
    !.todo = (a :> <<Start(s1), Finished(s1, k1, Never)>> @@ b :> <<Start(s2)>>)]
\* What is old goes although there is room.
Ages == [Quiet EXCEPT !.time = 3, !.policy[a] = [Roomy EXCEPT !.age = 1, !.horizon = 1],
    !.todo[a] = <<Start(s1), Finished(s1, k1, layout), Learned(a), End(s1)>>]
\* Walks while contexts come and go and a session ends.
Walks == [Quiet EXCEPT !.closes = TRUE, !.policy[a] = Roomy, !.ready = {2},
    !.todo[a] = <<Start(s1), Finished(s1, k1, Never), Finished(s1, k2, Never), Finished(s1, k3, Never),
                  Finished(s1, k4, Never)>>,
    !.walks = (w :> [kind |-> "CONTEXTS", scope |-> {s1}, descending |-> FALSE]
            @@ v :> [kind |-> "CONTEXTS", scope |-> {s1}, descending |-> TRUE])]
Sessions == [Quiet EXCEPT !.clients = {a, b},
    !.todo = (a :> <<Start(s1), End(s1)>> @@ b :> <<Start(s2), End(s2)>>),
    !.walks = (w :> [kind |-> "SESSIONS", scope |-> {s1, s2}, descending |-> FALSE])]
\* The listing, of three filters, before and after the oldest context goes.
Listings == [Quiet EXCEPT !.sizes = {1}, !.lists = TRUE, !.faults = 1, !.filters = {{s1}, {s1, s2}, {s2}},
    !.policy[a] = Roomy, !.ready = {4},
    !.todo[a] = <<Start(s1), Finished(s1, k1, Never), Finished(s1, k2, Never), Finished(s1, k3, Never),
                  Finished(s1, k4, Never)>>]

AllInstances == {Retries, Imports, Formats, Ages, Walks, Sessions, Listings}
=============================================================================
