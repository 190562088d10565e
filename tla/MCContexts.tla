----------------------------- MODULE MCContexts -----------------------------
(***************************************************************************)
(* Small instances for TLC of three views of a context: the graph it runs  *)
(* (GraphDefinition, DataFlow), the engines that may own it (Ownership)    *)
(* and the progress that is shown of it (Progress).  They share nothing,   *)
(* so each behaviour is one of the three with the other two at rest.       *)
(***************************************************************************)
EXTENDS DataFlow

CONSTANTS
    a1, a2, a3, o1, o2, o3, r1, r2,       \* artifacts, operators and resources
    h, w, v,                        \* engines
    c1, c2, c3, k1, k2, k3, k4, k5  \* contexts and timing keys

VARIABLES
    moving,    \* which of the three this behaviour is about
    ownership, engine, tracked, retired, slots, reserved, inbox, held,
    registrations, network, starts, commands,
    situation, shown, profiles, recency, retained

owners == <<ownership, engine, tracked, retired, slots, reserved, inbox, held,
            registrations, network, starts, commands>>
progress == <<situation, shown, profiles, recency, retained>>

(***************************************************************************)
(* Graphs: three operators, each with one of a few signatures over three   *)
(* artifacts, consumed in every order, in every order of rows, with every  *)
(* choice of entry flows.                                                  *)
(***************************************************************************)
Signature == <<
    [in |-> {a1}, out |-> {a1}], [in |-> {a1}, out |-> {a2}], [in |-> {a1, a2}, out |-> {a3}],
    [in |-> {a3}, out |-> {a1}], [in |-> {}, out |-> {a1, a3}], [in |-> {a3}, out |-> {}]>>

Orders(S) == {s \in [1..Cardinality(S) -> S] : IsInjective(s)}

\* One flow for each artifact that is consumed, and one for each operator
\* without inputs.
Flow(a, ops) == IF ops = <<>> THEN {} ELSE {[artifact |-> a, operators |-> ops]}
FlowSets(sig) ==
    LET Using(a) == Orders({o \in DOMAIN sig : a \in sig[o].in})
        free == {[artifact |-> NoArtifact, operators |-> <<o>>]
                     : o \in {o \in DOMAIN sig : sig[o].in = {}}}
    IN  {Flow(a1, fx) \cup Flow(a2, fy) \cup Flow(a3, fz) \cup free
            : fx \in Using(a1), fy \in Using(a2), fz \in Using(a3)}

Declare(sig, rows, first) ==
    [flows |-> rows, entries |-> first,
     in |-> [o \in DOMAIN sig |-> sig[o].in], out |-> [o \in DOMAIN sig |-> sig[o].out]]
Made(sig) == UNION {sig[o].out : o \in DOMAIN sig}
Graphs(sig, Start(_, _)) ==
    UNION {UNION {{Declare(sig, rows, first) : first \in Start(sig, rows)}
                      : rows \in Orders(flows)} : flows \in FlowSets(sig)}

\* Any rows may be entries; or only those that can be, with all that must be.
AnyStart(sig, rows) == SUBSET DOMAIN rows
AcceptedStart(sig, rows) ==
    LET must == {i \in DOMAIN rows : rows[i].artifact \notin Made(sig) \cup {NoArtifact}}
        may == {i \in DOMAIN rows : rows[i].artifact # NoArtifact /\ sig[rows[i].operators[1]].in # {}}
    IN  {must \cup first : first \in SUBSET (may \ must)}

Pairs == {i \in (DOMAIN Signature) \X (DOMAIN Signature) : i[1] <= i[2]}
Pair(i) == o1 :> Signature[i[1]] @@ o2 :> Signature[i[2]]
Triple(i, k) == Pair(i) @@ o3 :> Signature[k]

AllDeclarations ==
    UNION {Graphs(Pair(i), AnyStart) : i \in Pairs}
        \cup UNION {Graphs(Triple(i, k), AcceptedStart) : i \in Pairs, k \in DOMAIN Signature}
\* What o3 gives, o1 does not take.
SomeContract ==
    [o \in Operator |-> [takes |-> IF o = o1 THEN "TEXT" ELSE "ANY",
                         gives |-> IF o = o3 THEN "NUMBER" ELSE "ANY"]]
Requirement1 == [o \in Operator |-> IF o = o1 THEN {1, 2} ELSE {1, 2, 3}]
NeedsResource == o2 :> FALSE
ResourceVersion == r1 :> {2, 3} @@ r2 :> {3}

(***************************************************************************)
(* Engines: a context that comes back, with a command; one with two        *)
(* commands; the shutdown next to a command and next to transfers; a       *)
(* context that goes on to another worker; two contexts for one slot, with *)
(* batches of two messages; and two iterations that record values and use  *)
(* up their entries.                                                       *)
(***************************************************************************)
Owning(routing, contexts, workers, transfers, given_, waiting, shutdown) ==
    [routing |-> routing, contexts |-> contexts, workers |-> workers,
     transfers |-> transfers, commands |-> given_, waiting |-> waiting,
     shutdown |-> shutdown, iterations |-> 1, consumes |-> FALSE, records |-> 0]
Ownerships ==
    {Owning("CONTROLLED", {c1}, {w}, 2, 1, 1, FALSE),
     Owning("LOCAL", {c1}, {w}, 1, 2, 1, FALSE),
     Owning("LOCAL", {c1}, {w}, 1, 1, 1, TRUE),
     Owning("LOCAL", {c1}, {w}, 2, 0, 1, TRUE),
     Owning("CONTROLLED", {c1}, {w, v}, 2, 0, 1, FALSE),
     Owning("LOCAL", {c1, c2}, {w}, 1, 0, 2, FALSE),
     [Owning("LOCAL", {c1}, {w}, 2, 0, 1, FALSE) EXCEPT !.iterations = 2, !.consumes = TRUE, !.records = 1]}

O == INSTANCE Ownership WITH
    Home <- h, Worker <- {w, v}, Context <- {c1, c2}, RemoteLimit <- 1,
    MaxGeneration <- 2, Instances <- Ownerships,
    instance <- ownership, context <- tracked, pending <- reserved

(***************************************************************************)
(* Progress: every disturbance of one context with two steps side by side; *)
(* a bounded and an unbounded context in two iterations, with a transfer;  *)
(* contexts that share a profile; more profiles than are kept, by their    *)
(* number and by their steps; and a graph that is too wide to be kept.     *)
(***************************************************************************)
Row == 1 :> {} @@ 2 :> {1}
Waits ==
    k1 :> (1 :> {} @@ 2 :> {} @@ 3 :> {1}) @@ k2 :> Row @@ k3 :> (1 :> {}) @@ k4 :> (1 :> {})
        @@ k5 :> [s \in 1..4 |-> {}]
Showing(contexts, keys, iterations, bound, transfers, tries, faults) ==
    [contexts |-> contexts, key |-> keys, iterations |-> iterations, iterationBound |-> bound,
     transfers |-> transfers, tries |-> tries, faults |-> faults, warm |-> FALSE]
Each(value) == c1 :> value @@ c2 :> value @@ c3 :> value
Situations ==
    {Showing({c1}, Each(k1), Each(1), 1, 0, 1, TRUE),
     Showing({c1}, Each(k2), Each(2), 2, 1, 1, TRUE),
     Showing({c1}, Each(k2), Each(0), 2, 1, 1, TRUE),
     Showing({c1, c2, c3}, c1 :> k2 @@ c2 :> k3 @@ c3 :> k3, Each(1), 1, 0, 0, FALSE),
     Showing({c1, c2}, c1 :> k2 @@ c2 :> k3 @@ c3 :> k3, Each(0), 2, 0, 0, FALSE),
     Showing({c1, c2, c3}, c1 :> k2 @@ c2 :> k3 @@ c3 :> k4, Each(1), 1, 0, 0, FALSE),
     Showing({c1}, Each(k5), Each(1), 1, 0, 0, FALSE)}

P == INSTANCE Progress WITH
    Context <- {c1, c2, c3}, Graph <- Waits, MaxProfiles <- 2, MaxSteps <- 3,
    Instances <- Situations, instance <- situation, context <- shown

(***************************************************************************)
(* One of the three moves.                                                 *)
(***************************************************************************)
OneOf(S) == CHOOSE e \in S : TRUE
ContextsInit ==
    /\ moving \in {"GRAPH", "OWNERS", "PROGRESS"}
    /\ moving # "GRAPH" => graph = OneOf(AllDeclarations)
    /\ moving # "OWNERS" => ownership = OneOf(Ownerships)
    /\ moving # "PROGRESS" => situation = OneOf(Situations)
    /\ Init /\ O!Init /\ P!Init

ContextsNext ==
    /\ UNCHANGED moving
    /\ \/ moving = "GRAPH" /\ Next /\ UNCHANGED <<owners, progress>>
       \/ moving = "OWNERS" /\ O!Next /\ UNCHANGED <<vars, progress>>
       \/ moving = "PROGRESS" /\ P!Next /\ UNCHANGED <<vars, owners>>

ContextsSpec == ContextsInit /\ [][ContextsNext]_<<vars, owners, progress, moving>>

(* The promises of Ownership and of Progress.                                 *)
RunsOnce == O!RunsOnce
OwnershipAccounted == O!OwnershipAccounted
ApplySucceeds == O!ApplySucceeds
KnowledgeAdvances == O!KnowledgeAdvances
PublishedIsValid == O!PublishedIsValid
ProgressTrue == P!ProgressTrue
=============================================================================
