---------------------------- MODULE StoreWriters ----------------------------
(***************************************************************************)
(* Databases that write to one store: their persistence lanes              *)
(* (persistence/_database.py), each with its producer, its attempts and    *)
(* its crashes, and importers of an old archive (persistence/legacy.py).   *)
(***************************************************************************)
EXTENDS Store

CONSTANTS
    Client,         \* the Database objects, of whatever process
    Instances,      \* the scenarios that are checked, a set of records
    MaxAttempts     \* limits.max_attempts

ASSUME WriterAssumption == MaxAttempts \in Nat \ {0}

\* What the constructors of evidence and of a policy let through, which is all
\* that is asked of a scenario.
EvidenceOK(i) ==
    \/ i.kind = "SESSION" /\ i.started \in BOOLEAN /\ i.at \in Nat \cup {Never}
    \/ i.kind = "CONTEXT" /\ i.at \in Nat
    \/ i.kind = "PROFILE"

PolicyOK(p) ==
    /\ DOMAIN p = {"contexts", "bytes", "sessions", "profiles", "producers", "horizon", "age", "imports"}
    /\ \A f \in {"contexts", "bytes", "sessions", "profiles", "producers", "horizon", "imports"} : p[f] \in Nat

ScenarioOK(p) ==
    /\ p.upgrader \in Client
    /\ \A c \in Client : /\ PolicyOK(p.policy[c])
                         /\ p.todo[c] \in Seq(Range(p.todo[c]))
                         /\ \A n \in DOMAIN p.todo[c] : EvidenceOK(p.todo[c][n])
    /\ p.source \in Seq(Range(p.source)) /\ (p.importers # {} => p.source # <<>>)
    /\ \A n \in DOMAIN p.source : p.source[n].at \in Nat /\ p.source[n].final \in BOOLEAN
    /\ p.ready \subseteq Nat \ {0}

\* Whether two items tell the same.
SameFact(i, j) ==
    /\ i.kind = j.kind
    /\ \/ i.kind = "SESSION" /\ i.session = j.session /\ i.at = j.at
       \/ i.kind = "CONTEXT" /\ i.name = j.name

\* Every fact is handed to one lane once, and an imported session or context is
\* never one of an engine: its name is made from that of the archive.
ToldOnce(p) ==
    /\ \A c, e \in Client : \A n \in DOMAIN p.todo[c] : \A m \in DOMAIN p.todo[e] :
           LET i == p.todo[c][n]
               j == p.todo[e][m]
           IN i.id # Never /\ (i.id = j.id \/ SameFact(i, j) => c = e /\ n = m)
    /\ \A c \in Client : \A n \in DOMAIN p.todo[c] : \A m \in DOMAIN p.source :
           LET i == p.todo[c][n]
           IN /\ i.id # p.source[m].name
              /\ i.kind = "CONTEXT" => i.name # p.source[m].name
              /\ i.kind = "SESSION" => i.session # p.source[m].partition
    /\ \A n \in DOMAIN p.source :
           /\ p.source[n].name # Never
           /\ \A m \in DOMAIN p.source : p.source[n].name = p.source[m].name => n = m

\* No number and no ledger is mistaken for what is not there.
ASSUME NeverAssumption ==
    Never \notin Nat /\ Never \notin [processed : Nat, imported : Nat, skipped : Nat, complete : BOOLEAN]
ASSUME ScenarioAssumption == \A p \in Instances : ScenarioOK(p) /\ ToldOnce(p)

VARIABLES
    plan,       \* the scenario
    wall,       \* the clock of the machine, which may be set back
    disk,       \* the store
    lane,       \* by client: its persistence lane
    faults      \* how much has gone wrong

writerVars == <<plan, wall, disk, lane, faults>>

Importers == plan.importers
Closed ==
    [pc |-> "CLOSED", producer |-> [number |-> 0, issued |-> 0, sequence |-> 0],
     todo |-> <<>>, batch |-> <<>>, attempt |-> 0, ledger |-> Never, runs |-> 0, acknowledged |-> {}]

WritersInit ==
    /\ plan \in Instances
    /\ wall = 1
    /\ disk = (IF plan.old THEN Version1(plan.policy[plan.upgrader]) ELSE Uninitialized)
    /\ lane = [c \in Client |-> [Closed EXCEPT !.todo = plan.todo[c]]]
    /\ faults = 0

-----------------------------------------------------------------------------
(* Opening                                                                 *)

NewProducer(p) == [number |-> p.number + 1, issued |-> wall, sequence |-> 0]

\* Whose store it is is looked at in a transaction of its own, and once more
\* in the one that opens it.
Preflight(c) ==
    /\ lane[c].pc = "CLOSED" /\ c \in plan.clients
    /\ plan.old /\ c # plan.upgrader => lane[plan.upgrader].pc # "CLOSED"
    /\ lane' = [lane EXCEPT ![c].pc = "OPENING"]
    /\ UNCHANGED <<plan, wall, disk, faults>>

Open(c) ==
    /\ lane[c].pc = "OPENING"
    /\ LET opened == Opened(disk, plan.policy[c], plan.old /\ c = plan.upgrader)
       IN /\ disk' = opened.store
          /\ lane' = [lane EXCEPT ![c].pc = IF opened.ok THEN "IDLE" ELSE "ENDED",
                                  ![c].producer = NewProducer(@)]
    /\ UNCHANGED <<plan, wall, faults>>

-----------------------------------------------------------------------------
(* Importing                                                               *)

\* The next importer of the source: what the ledger says is where it goes on.
ReadLedger(c) ==
    /\ lane[c].pc = "IDLE" /\ c \in Importers
    /\ IF disk.ledger # Never /\ disk.ledger.complete THEN lane' = [lane EXCEPT ![c].pc = "ENDED"]
       ELSE lane' = [lane EXCEPT ![c].pc = "CONVERTING", ![c].ledger = disk.ledger]
    /\ UNCHANGED <<plan, wall, disk, faults>>

Progress(ledger) ==
    IF ledger = Never THEN [processed |-> 0, imported |-> 0, skipped |-> 0, complete |-> FALSE] ELSE ledger

\* A row that was final becomes a context of the session that stands for its
\* partition; the checkpoint goes with it.
Converted(ledger) ==
    LET old == Progress(ledger)
        n == old.processed + 1
        row == plan.source[n]
        new == [processed |-> n, imported |-> old.imported + (IF row.final THEN 1 ELSE 0),
                skipped |-> old.skipped + (IF row.final THEN 0 ELSE 1), complete |-> n = Len(plan.source)]
        checkpoint == [kind |-> "IMPORT", ledger |-> new,
                       expected |-> IF ledger = Never THEN Never ELSE ledger.processed]
    IN IF row.final
       THEN <<[kind |-> "SESSION", id |-> Never, session |-> row.partition, started |-> FALSE, at |-> Never],
              [kind |-> "CONTEXT", id |-> row.name, name |-> row.name, session |-> row.partition,
               layout |-> Never, at |-> row.at],
              checkpoint>>
       ELSE <<checkpoint>>

-----------------------------------------------------------------------------
(* Writing                                                                 *)

\* A producer whose token is halfway to its horizon is not used again.
Rotated(c) ==
    LET p == lane[c].producer
        current == IF 2 * (wall - p.issued) > plan.policy[c].horizon THEN NewProducer(p) ELSE p
    IN [current EXCEPT !.sequence = @ + 1]

Begin(c, batch) ==
    lane' = [lane EXCEPT ![c].pc = "WRITING", ![c].batch = batch, ![c].attempt = 1, ![c].producer = Rotated(c)]

\* The publications that are ready are written together, as many as a batch takes.
Publish(c) ==
    /\ lane[c].pc = "IDLE" /\ c \notin Importers /\ lane[c].todo # <<>>
    /\ \E n \in plan.ready :
           Begin(c, IF n < Len(lane[c].todo) THEN SubSeq(lane[c].todo, 1, n) ELSE lane[c].todo)
    /\ UNCHANGED <<plan, wall, disk, faults>>

PublishRow(c) ==
    /\ lane[c].pc = "CONVERTING"
    /\ Begin(c, Converted(lane[c].ledger))
    /\ UNCHANGED <<plan, wall, disk, faults>>

Attempt(c) ==
    LET p == lane[c].producer
    IN Write(disk, [producer |-> <<c, p.number>>, issued |-> p.issued, sequence |-> p.sequence,
                    items |-> lane[c].batch], wall)

Rest(l) == IF l.todo = <<>> THEN <<>> ELSE SubSeq(l.todo, Len(l.batch) + 1, Len(l.todo))

\* What was acknowledged counts as kept; the import goes on with its next row.
Acknowledged(l) ==
    LET written == {l.batch[n].id : n \in {m \in DOMAIN l.batch : l.batch[m].kind # "IMPORT"}} \ {Never}
        done == [l EXCEPT !.batch = <<>>, !.attempt = 0, !.acknowledged = @ \cup written]
        checkpoint == l.batch[Len(l.batch)]
    IN IF checkpoint.kind = "IMPORT"
       THEN [done EXCEPT !.pc = IF checkpoint.ledger.complete THEN "ENDED" ELSE "CONVERTING",
                         !.ledger = checkpoint.ledger]
       ELSE [done EXCEPT !.pc = "IDLE", !.todo = Rest(l)]

\* A batch that is given up is a gap; nothing is written with its producer
\* again.  An importer ends with the error.
GivenUp(l) ==
    [l EXCEPT !.batch = <<>>, !.attempt = 0, !.todo = Rest(l), !.producer = NewProducer(@),
              !.pc = IF l.batch[Len(l.batch)].kind = "IMPORT" THEN "ENDED" ELSE "IDLE"]

Unanswered(l) == IF l.attempt = MaxAttempts THEN GivenUp(l) ELSE [l EXCEPT !.attempt = @ + 1]

Commit(c) ==
    /\ lane[c].pc = "WRITING"
    /\ LET reply == Attempt(c)
       IN /\ reply.answer \in {"STORED", "DUPLICATE"}
          /\ disk' = reply.store
          /\ lane' = [lane EXCEPT ![c] = Acknowledged(@)]
    /\ UNCHANGED <<plan, wall, faults>>

\* Refused evidence is not tried again; a store that has no room is, after a
\* pass of maintenance.
Refuse(c) ==
    /\ lane[c].pc = "WRITING"
    /\ LET reply == Attempt(c)
       IN /\ reply.answer \in {"CONTRACT", "PRESSURE"}
          /\ lane' = [lane EXCEPT ![c] = IF reply.answer = "CONTRACT" THEN GivenUp(@) ELSE Unanswered(@)]
          /\ disk' = IF reply.answer = "PRESSURE" /\ lane[c].attempt < MaxAttempts THEN Maintained(disk, wall)
                     ELSE disk
    /\ UNCHANGED <<plan, wall, faults>>

\* The store is not available, or it fails after it has committed: the lane
\* cannot tell and tries the same batch again.
Fail(c) ==
    /\ lane[c].pc = "WRITING" /\ faults < plan.faults
    /\ \E stored \in {disk, Attempt(c).store} :
           disk' = (IF lane[c].attempt < MaxAttempts THEN Maintained(stored, wall) ELSE stored)
    /\ lane' = [lane EXCEPT ![c] = Unanswered(@)]
    /\ faults' = faults + 1
    /\ UNCHANGED <<plan, wall>>

\* The process ends, perhaps in the middle of a batch; what it had not published
\* is lost with it.
Crash(c) ==
    /\ lane[c].pc \notin {"CLOSED", "ENDED"} /\ faults < plan.faults
    /\ IF lane[c].pc = "WRITING" THEN disk' \in {disk, Attempt(c).store} ELSE UNCHANGED disk
    /\ lane' = [lane EXCEPT ![c].pc = "ENDED", ![c].batch = <<>>, ![c].attempt = 0, ![c].todo = <<>>]
    /\ faults' = faults + 1
    /\ UNCHANGED <<plan, wall>>

\* An import that was interrupted, or is complete, is started again.
Rerun(c) ==
    /\ lane[c].pc = "ENDED" /\ c \in Importers /\ lane[c].runs < plan.runs
    /\ lane' = [lane EXCEPT ![c].pc = "CLOSED", ![c].ledger = Never, ![c].runs = @ + 1]
    /\ UNCHANGED <<plan, wall, disk, faults>>

Maintain(c) ==
    /\ lane[c].pc \in {"IDLE", "CONVERTING"}
    /\ disk' = Maintained(disk, wall)
    /\ UNCHANGED <<plan, wall, lane, faults>>

Tick ==
    /\ wall < plan.time
    /\ wall' = wall + 1
    /\ UNCHANGED <<plan, disk, lane, faults>>

SetBack ==
    /\ wall > 1 /\ faults < plan.faults
    /\ wall' = wall - 1
    /\ faults' = faults + 1
    /\ UNCHANGED <<plan, disk, lane>>

WritersNext ==
    \/ \E c \in Client :
        \/ Preflight(c) \/ Open(c) \/ ReadLedger(c) \/ Publish(c) \/ PublishRow(c)
        \/ Commit(c) \/ Refuse(c) \/ Fail(c) \/ Crash(c) \/ Rerun(c) \/ Maintain(c)
    \/ Tick \/ SetBack

-----------------------------------------------------------------------------
(* Properties                                                              *)

\* The counters that retention goes by are those of the rows, a layout is there
\* as long as a context refers to it and a session too, publications are unique
\* and the policy holds after every transaction.
Accounted(d) == \A k \in Counters : d.counts[k] = Cardinality(DOMAIN d[k])

ContextsOf(contexts, s) == {k \in DOMAIN contexts : contexts[k].session = s}
UsersOf(contexts, l) == {k \in DOMAIN contexts : contexts[k].layout = l}

SessionsHeld(contexts, sessions) ==
    /\ \A k \in DOMAIN contexts : contexts[k].session \in DOMAIN sessions
    /\ \A s \in DOMAIN sessions : sessions[s].refs = Cardinality(ContextsOf(contexts, s))

LayoutsUsed(contexts, layouts) ==
    /\ \A k \in DOMAIN contexts : contexts[k].layout \in DOMAIN layouts \cup {Never}
    /\ \A l \in DOMAIN layouts :
           layouts[l].refs > 0 /\ layouts[l].refs = Cardinality(UsersOf(contexts, l))

Published(rows, last) ==
    \A k \in DOMAIN rows :
        /\ rows[k].publication <= last
        /\ \A l \in DOMAIN rows : rows[k].publication = rows[l].publication => k = l

StoreSound ==
    /\ Accounted(disk)
    /\ SessionsHeld(disk.contexts, disk.sessions)
    /\ LayoutsUsed(disk.contexts, disk.layouts)
    /\ \A rows \in {disk.contexts, disk.sessions, disk.profiles} : Published(rows, disk.publication)
    /\ disk.schema = "V2" => WithinBounds(disk)

\* Whatever fails, is tried again, expires or is pruned, and however many
\* importers there are: evidence is stored once, and it is stored if its lane
\* was told so.
StoredOnce ==
    /\ \A n, m \in DOMAIN disk.applied : disk.applied[n] = disk.applied[m] => n = m \/ disk.applied[n] = Never
    /\ \A c \in Client : lane[c].acknowledged \subseteq Range(disk.applied)
    /\ disk.ledger # Never =>
           disk.ledger.imported = Cardinality({n \in DOMAIN plan.source : /\ plan.source[n].final
                                                                          /\ plan.source[n].name \in Range(disk.applied)})
=============================================================================
