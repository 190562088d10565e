---------------------------- MODULE ServiceProofs ----------------------------
(***************************************************************************)
(* The engine's parts agree, and waits tell the truth, for every set of     *)
(* threads, contexts and graphs and all that the threads may call.          *)
(***************************************************************************)
EXTENDS EngineService, FiniteSetTheorems, SequenceTheorems, TLAPS

-----------------------------------------------------------------------------
(* Types                                                                     *)

Owner == Caller \cup {Failer, Nobody}
Phase == {"IDLE", "BUILD", "BUILT", "WAITS", "REGISTER", "SUBMITTED", "NOTIFY", "AWAITS_START",
          "JOINS", "OWNS", "CLEANS"}
Live == {"VALIDATED", "QUEUED", "RUNNING", "ABORTING"}
Record == [state : {"NEW"} \cup Live \cup Terminal,
           finalized : BOOLEAN, stopped : BOOLEAN, ended : BOOLEAN]
Targeted == {"Registered", "Terminated", "Abort", "Stop", "Record"}
Mail == {m \in [type : Targeted \cup {"Idle", "Shutdown"},
                of : Context \cup {NoContext, "FORCED", "GRACEFUL"}] :
            m.type \in Targeted => m.of \in Context}

EngineRecord ==
    [state : {"CREATED", "STARTING", "RUNNING", "STOPPING", "STOPPED", "FAILED"},
     activity : {"IDLE", "ACTIVE"}, failed : BOOLEAN, cleaning : BOOLEAN, runtime : BOOLEAN,
     startup : BOOLEAN, complete : BOOLEAN]
LockRecord == [state : Owner, lifecycle : Owner, registry : Owner]
CleanupRecord ==
    [by : Owner, at : {"NONE", "COORDINATE", "AWAIT", "PREPARE", "DRAIN", "CLOSE", "LOOP", "FINISH"},
     forced : BOOLEAN, bounded : BOOLEAN, revision : Nat]

EngineType ==
    /\ plan \in Instances
    /\ engine \in EngineRecord
    /\ lock \in LockRecord
    /\ loop \in {"NONE", "RUNNING", "CLOSED"}
    /\ coordinator \in {"NONE", "RUNNING", "STOPPING", "STOPPED", "DONE", "LOST", "CANCELLED"}
    /\ cleanup \in CleanupRecord
    /\ failer \in {"NONE", "STARTING", "RUNNING", "DONE"}
    /\ gateway \in [ready : BOOLEAN, revision : Nat]
    /\ faults \in Nat

CallerRecord == [todo : Seq(Operation), at : Phase]
WaiterRecord == [of : Context \cup {NoContext}, for : Awaitable, event : BOOLEAN]

CallerType ==
    /\ caller \in [Caller -> CallerRecord]
    /\ waiter \in [Caller -> WaiterRecord]

QueueOf(M) == [active : Seq(M), submissions : Seq(M)]
TurnRecord == [at : {"NONE", "FINALIZE", "DECIDE", "REPORT"}, of : Context \cup {NoContext}]
RegistryRecord == [contexts : SUBSET Context, requested : BOOLEAN, forced : BOOLEAN, closed : BOOLEAN]
Issued(a) == a = [closed |-> a.closed, grants |-> a.grants, scopes |-> a.scopes] /\ a.closed \in BOOLEAN
RunTable == [Context -> [Capability -> {"NONE", "ATTACHED", "DETACHED"}]]

ContextType ==
    /\ calls \in Seq(Mail)
    /\ queue \in QueueOf(Mail)
    /\ turn \in TurnRecord
    /\ registry \in RegistryRecord
    /\ context \in [Context -> Record]
    /\ Issued(auth)
    /\ runs \in RunTable

TypeOK == EngineType /\ CallerType /\ ContextType

-----------------------------------------------------------------------------
(* Threads                                                                   *)

At(u, phases) == caller[u].at \in phases

\* What a thread is in the middle of is the first of what it had to call.
Occupied ==
    \A u \in Caller :
        /\ caller[u].at # "IDLE" => caller[u].todo # << >>
        /\ At(u, {"REGISTER", "SUBMITTED"}) => Wants(u).op = "SUBMIT"
        /\ At(u, {"NOTIFY"}) => Wants(u).op = "SUBMIT_INSIDE"
        /\ At(u, {"WAITS"}) => waiter[u].of \in Context

\* A lock is held by the threads that are in its middle.
Locked ==
    /\ \A u \in Caller :
           /\ lock.state = u <=> At(u, {"REGISTER", "SUBMITTED"})
           /\ lock.registry = u <=> At(u, {"NOTIFY"})
           /\ lock.lifecycle = u <=> At(u, {"BUILD", "BUILT", "CLEANS"})
           /\ cleanup.by = u <=> At(u, {"CLEANS"})
    /\ lock.state # Failer /\ lock.registry # Failer
    /\ lock.lifecycle = Failer <=> failer = "RUNNING"
    /\ cleanup.by = Failer <=> failer = "RUNNING"
    /\ cleanup.by = Nobody <=> cleanup.at = "NONE"

\* One cleanup has an owner from when the engine is marked until it is over.
Owns(u) == IF u = Failer THEN failer \in {"STARTING", "RUNNING"} ELSE At(u, {"OWNS", "CLEANS"})
Cleaner == Caller \cup {Failer}
Owned ==
    /\ \A u, v \in Cleaner : Owns(u) /\ Owns(v) => u = v
    /\ (\E u \in Cleaner : Owns(u)) <=> engine.cleaning /\ ~engine.complete

ThreadsInv == Occupied /\ Locked /\ Owned

-----------------------------------------------------------------------------
(* The stages of the engine                                                  *)

Untouched ==
    /\ loop = "NONE" /\ coordinator = "NONE" /\ ~auth.closed
    /\ DOMAIN auth.grants = {} /\ DOMAIN auth.scopes = {}
    /\ registry.contexts = {}
    /\ \A c \in Context, k \in Capability : runs[c][k] # "ATTACHED"

\* Nothing is left of the contexts, or the engine says that it failed.
Emptied ==
    engine.failed \/ (registry.contexts = {} /\ \A c \in Context, k \in Capability : runs[c][k] # "ATTACHED")

Over == engine.state \in {"STOPPED", "FAILED"} /\ ~engine.runtime /\ engine.complete

Staged ==
    /\ engine.cleaning => engine.state \in {"STOPPING", "STOPPED", "FAILED"}
    /\ engine.state \in {"CREATED", "STARTING", "STOPPED"} => engine.complete
    /\ \A u \in Caller :
           /\ At(u, {"BUILD", "BUILT"}) => engine.state = "STARTING"
           /\ At(u, {"BUILD"}) => Untouched
           /\ At(u, {"BUILT"}) => engine.runtime
    /\ engine.state = "CREATED" => Untouched
    /\ engine.state = "RUNNING" \/ failer = "STARTING" => engine.runtime
    /\ failer = "STARTING" => ~auth.closed
    /\ auth.closed => engine.cleaning /\ DOMAIN auth.grants = {} /\ DOMAIN auth.scopes = {}
    /\ cleanup.at \in {"LOOP", "FINISH"} => auth.closed /\ Emptied
    /\ cleanup.at = "FINISH" => loop # "RUNNING" /\ ~engine.runtime
    /\ Over => /\ loop # "RUNNING" /\ DOMAIN auth.grants = {}
               /\ engine.state = "STOPPED" =>
                      /\ registry.contexts = {}
                      /\ \A c \in Context, k \in Capability : runs[c][k] # "ATTACHED"

-----------------------------------------------------------------------------
(* Contexts                                                                  *)

\* What a thread has still to submit is new.
Fresh ==
    \A u \in Caller : \A i \in DOMAIN caller[u].todo :
        caller[u].todo[i].op \in Enters /\ ~(i = 1 /\ caller[u].at = "SUBMITTED")
            => context[caller[u].todo[i].of].state = "NEW"

\* Mail that tells of the end of a context tells of one that was registered.
Known == {m \in Mail : m.type = "Terminated" => context[m.of].state # "NEW"}

Recorded ==
    /\ SubmitsOnce([u \in Caller |-> caller[u].todo])
    /\ Fresh
    /\ \A c \in Context : c \notin registry.contexts => context[c].state \in {"NEW"} \cup Terminal
    /\ \A c \in Context : c \in registry.contexts => context[c].state # "NEW"
    /\ \A c \in Context : context[c].finalized => context[c].state \in Terminal
    /\ turn.at = "FINALIZE" => turn.of \in Context /\ context[turn.of].state \in Terminal
    /\ calls \in Seq(Known) /\ queue \in QueueOf(Known)

-----------------------------------------------------------------------------
(* Authority and the coordinator                                             *)

Granted ==
    /\ AccessAgrees
    /\ \A k \in DOMAIN auth.grants :
           /\ k \in {Engine, Modules} \cup DOMAIN auth.scopes
           /\ auth.grants[k].kind = "CONTEXT" => k \in DOMAIN auth.scopes
    /\ loop = "RUNNING" /\ ~auth.closed => Active(auth, Engine)
    /\ \A u \in Caller : At(u, {"NOTIFY"}) => auth.closed \/ IsController(auth, Capable(u))

\* What tells an engine without contexts that it is idle is on its way.
IdleIsComing == \E i \in DOMAIN queue.active : queue.active[i].type = "Idle"
Settling ==
    engine.state = "RUNNING" /\ coordinator = "RUNNING" /\ engine.activity # "IDLE"
        => registry.contexts # {} \/ IdleIsComing

Coordinating ==
    /\ coordinator \in {"STOPPING", "STOPPED", "DONE"} => registry.requested
    /\ coordinator \in {"STOPPED", "DONE"} => registry.contexts = {}
    /\ Settling

\* The records of the engine that a registration may start from.
Bases == {engine, SetActivity(engine, "ACTIVE")}

\* What every step of the engine preserves.
EngineInv == TypeOK /\ ThreadsInv /\ Staged /\ Recorded /\ Granted /\ Coordinating
-----------------------------------------------------------------------------
(* Sequences                                                                 *)

LEMMA Taking ==
    ASSUME NEW S, NEW s \in Seq(S), s # << >>
    PROVE  /\ Head(s) \in S /\ Head(s) = s[1] /\ 1 \in DOMAIN s
           /\ Tail(s) \in Seq(S)
           /\ \A i \in DOMAIN Tail(s) : i + 1 \in DOMAIN s /\ i # 0 /\ i \in Nat /\ Tail(s)[i] = s[i + 1]
           /\ \A i \in DOMAIN s : i # 1 => i - 1 \in DOMAIN Tail(s) /\ Tail(s)[i - 1] = s[i]
<1>1. Len(s) \in Nat /\ Len(s) # 0 BY EmptySeq, LenProperties
<1>2. /\ Head(s) \in S /\ Tail(s) \in Seq(S) /\ Len(Tail(s)) = Len(s) - 1
      /\ \A i \in 1..Len(Tail(s)) : Tail(s)[i] = s[i + 1]
  BY HeadTailProperties
<1>3. DOMAIN s = 1..Len(s) /\ DOMAIN Tail(s) = 1..(Len(s) - 1) BY <1>2, LenProperties
<1>4. Head(s) = s[1] BY <1>1
<1>. QED BY <1>1, <1>2, <1>3, <1>4

LEMMA Appending ==
    ASSUME NEW S, NEW s \in Seq(S), NEW e \in S
    PROVE  /\ Append(s, e) \in Seq(S) /\ Append(s, e) # << >>
           /\ DOMAIN s \subseteq DOMAIN Append(s, e)
           /\ \A i \in DOMAIN s : Append(s, e)[i] = s[i]
           /\ \E i \in DOMAIN Append(s, e) : Append(s, e)[i] = e
           /\ \A i \in DOMAIN Append(s, e) :
                 (i \in DOMAIN s /\ Append(s, e)[i] = s[i]) \/ Append(s, e)[i] = e
<1>1. /\ Append(s, e) \in Seq(S) /\ Append(s, e) # << >> /\ Len(Append(s, e)) = Len(s) + 1
      /\ \A i \in 1..Len(s) : Append(s, e)[i] = s[i] /\ Append(s, e)[Len(s) + 1] = e
  BY AppendProperties
<1>2. Append(s, e)[Len(s) + 1] = e BY AppendProperties
<1>3. Len(s) \in Nat /\ DOMAIN s = 1..Len(s) /\ DOMAIN Append(s, e) = 1..(Len(s) + 1)
  BY <1>1, LenProperties
<1>. QED BY <1>1, <1>2, <1>3

-----------------------------------------------------------------------------
(* Types                                                                     *)

LEMMA Initially == Init => TypeOK
<1>. SUFFICES ASSUME Init PROVE TypeOK OBVIOUS
<1>1. plan \in Instances /\ plan \in Setting BY ServiceAssumption DEF Init
<1>2. EngineType BY <1>1 DEF Init, EngineType, EngineRecord, LockRecord, CleanupRecord, Owner, NoCleanup, Setting
<1>3. CallerType BY <1>1 DEF Init, CallerType, CallerRecord, WaiterRecord, NoWaiter, Setting, Phase, Awaitable
<1>4. ContextType
  <2>1. << >> \in Seq(Mail) BY EmptySeq
  <2>. QED BY <2>1 DEF Init, ContextType, QueueOf, TurnRecord, RegistryRecord, RunTable, Issued, NoTurn, Record, Unissued, Terminal, Live
<1>. QED BY <1>2, <1>3, <1>4 DEF TypeOK

LEMMA Planned ==
    ASSUME TypeOK
    PROVE  /\ plan \in Setting
           /\ \A u \in Caller : Capable(u) \in Context \cup {Engine} /\ Capable(u) \in Capability
<1>1. plan \in Setting BY ServiceAssumption DEF TypeOK, EngineType
<1>2. plan.callers \in [Caller -> [capability : Context \cup {Engine}, calls : Seq(Operation)]]
  BY <1>1 DEF Setting
<1>. QED BY <1>1, <1>2 DEF Capable, Capability

LEMMA Wanted ==
    ASSUME TypeOK, NEW u \in Caller, caller[u].todo # << >>
    PROVE  /\ Wants(u) \in Operation
           /\ Wants(u).op \in Enters \cup {"WAIT", "CONTROL"} => Wants(u).of \in Context
           /\ Tail(caller[u].todo) \in Seq(Operation)
           /\ Wants(u) = caller[u].todo[1] /\ 1 \in DOMAIN caller[u].todo
<1>1. caller[u].todo \in Seq(Operation) BY DEF TypeOK, CallerType, CallerRecord
<1>2. Wants(u) \in Operation /\ Tail(caller[u].todo) \in Seq(Operation)
      /\ Wants(u) = caller[u].todo[1] /\ 1 \in DOMAIN caller[u].todo
  BY <1>1, Taking DEF Wants
<1>. QED BY <1>2 DEF Operation

LEMMA Begun ==
    ASSUME NEW by \in Owner, NEW at \in {"COORDINATE", "PREPARE"}, NEW forced \in BOOLEAN, NEW bounded \in BOOLEAN,
           BeginCleanup(by, at, forced, bounded), lock \in LockRecord
    PROVE  cleanup' \in CleanupRecord /\ lock' \in LockRecord
BY DEF BeginCleanup, Hold, CleanupRecord, LockRecord

LEMMA EngineTyped ==
    ASSUME TypeOK, Occupied, [Next]_vars
    PROVE  EngineType'
<1>. USE DEF Hold, Release
<1>1. EngineType /\ engine \in EngineRecord /\ lock \in LockRecord /\ cleanup \in CleanupRecord
  BY DEF TypeOK, EngineType
<1>2. ASSUME engine' \in EngineRecord, lock' \in LockRecord, cleanup' \in CleanupRecord,
             UNCHANGED <<plan, loop, coordinator, failer, gateway, faults>>
      PROVE  EngineType'
  BY <1>1, <1>2 DEF EngineType
<1>3. ASSUME NEW e \in EngineRecord
      PROVE  /\ Reported(e) \in EngineRecord
             /\ \A a \in {"IDLE", "ACTIVE"} : SetActivity(e, a) \in EngineRecord
  BY DEF Reported, SetActivity, StartsCleanup, EngineRecord
<1>4. /\ Reported(engine) \in EngineRecord
      /\ \A a \in {"IDLE", "ACTIVE"} : SetActivity(engine, a) \in EngineRecord
      /\ Reported(SetActivity(engine, "ACTIVE")) \in EngineRecord
  BY <1>1, <1>3
<1>5. UNCHANGED engine => engine' \in EngineRecord BY <1>1
<1>6. UNCHANGED lock => lock' \in LockRecord BY <1>1
<1>7. UNCHANGED cleanup => cleanup' \in CleanupRecord BY <1>1
<1>8. ASSUME NEW u \in Caller, Start(u) PROVE EngineType'
  <2>1. engine' \in EngineRecord BY <1>1, <1>4, <1>8 DEF EngineRecord, Start
  <2>2. lock' \in LockRecord BY <1>1, <1>4, <1>8 DEF LockRecord, Start, Owner
  <2>3. cleanup' \in CleanupRecord BY <1>8, <1>7 DEF Start
  <2>. QED BY <1>8, <2>1, <2>2, <2>3, <1>2 DEF Start
<1>9. ASSUME NEW u \in Caller, Submit(u) PROVE EngineType'
  <2>1. engine' \in EngineRecord BY <1>9, <1>5 DEF Submit
  <2>2. lock' \in LockRecord BY <1>1, <1>4, <1>9 DEF LockRecord, Submit, Owner
  <2>3. cleanup' \in CleanupRecord BY <1>9, <1>7 DEF Submit
  <2>. QED BY <1>9, <2>1, <2>2, <2>3, <1>2 DEF Submit
<1>10. ASSUME NEW u \in Caller, SubmitFromContext(u) PROVE EngineType'
  <2>1. engine' \in EngineRecord BY <1>10, <1>5 DEF SubmitFromContext
  <2>2. lock' \in LockRecord BY <1>1, <1>4, <1>10 DEF LockRecord, SubmitFromContext, Owner
  <2>3. cleanup' \in CleanupRecord BY <1>10, <1>7 DEF SubmitFromContext
  <2>. QED BY <1>10, <2>1, <2>2, <2>3, <1>2 DEF SubmitFromContext
<1>11. ASSUME NEW u \in Caller, Shutdown(u) PROVE EngineType'
  <2>1. \/ engine' = engine
        \/ engine' = [engine EXCEPT !.state = "STOPPED"]
        \/ engine' = [engine EXCEPT !.cleaning = TRUE, !.complete = FALSE, !.state = "STOPPING"]
    BY <1>11 DEF Shutdown
  <2>2. engine' \in EngineRecord BY <1>1, <2>1 DEF EngineRecord
  <2>. QED BY <1>11, <2>2, <1>2, <1>6, <1>7 DEF Shutdown
<1>12. ASSUME NEW u \in Caller, Build(u) PROVE EngineType'
  <2>1. engine' \in EngineRecord BY <1>1, <1>4, <1>12 DEF EngineRecord, Build
  <2>2. lock' \in LockRecord BY <1>12, <1>6 DEF Build
  <2>3. cleanup' \in CleanupRecord BY <1>12, <1>7 DEF Build
  <2>. QED BY <1>1, <1>12, <2>1, <2>2, <2>3 DEF EngineType, Build
<1>13. ASSUME NEW u \in Caller, BuildFails(u) PROVE EngineType'
  <2>1. engine' \in EngineRecord BY <1>1, <1>4, <1>13 DEF EngineRecord, BuildFails
  <2>2. lock' \in LockRecord BY <1>13, <1>6 DEF BuildFails
  <2>3. cleanup' \in CleanupRecord BY <1>13, <1>7 DEF BuildFails
  <2>. QED BY <1>1, <1>13, <2>1, <2>2, <2>3 DEF EngineType, BuildFails
<1>14. ASSUME NEW u \in Caller, Started(u) PROVE EngineType'
  <2>1. CASE engine.failed
    <3>1. engine' \in EngineRecord BY <1>1, <1>14, <2>1 DEF Started, EngineRecord
    <3>2. BeginCleanup(u, "PREPARE", TRUE, FALSE) /\ u \in Owner BY <1>14, <2>1 DEF Started, Owner
    <3>3. lock' \in LockRecord /\ cleanup' \in CleanupRecord BY <1>1, <3>2, Begun
    <3>. QED BY <1>14, <3>1, <3>3, <1>2 DEF Started
  <2>2. CASE ~engine.failed
    <3>1. engine' \in EngineRecord BY <1>1, <1>14, <2>2 DEF Started, EngineRecord
    <3>2. lock' \in LockRecord BY <1>1, <1>14, <2>2 DEF Started, LockRecord, Owner
    <3>3. cleanup' \in CleanupRecord BY <1>1, <1>14, <2>2 DEF Started
    <3>. QED BY <1>14, <3>1, <3>2, <3>3, <1>2 DEF Started
  <2>. QED BY <2>1, <2>2
<1>15. ASSUME NEW u \in Caller, Register(u) PROVE EngineType'
  <2>1. engine' \in EngineRecord BY <1>1, <1>4, <1>15 DEF EngineRecord, Register, Enrol, Reject, Refuse
  <2>2. lock' \in LockRecord BY <1>15, <1>6 DEF Register
  <2>3. cleanup' \in CleanupRecord BY <1>15, <1>7 DEF Register
  <2>. QED BY <1>1, <1>15, <2>1, <2>2, <2>3 DEF EngineType, Register, Enrol, Reject, Refuse
<1>16. ASSUME NEW u \in Caller, Submitted(u) PROVE EngineType'
  <2>1. engine' \in EngineRecord BY <1>1, <1>4, <1>16 DEF EngineRecord, Submitted
  <2>2. lock' \in LockRecord BY <1>1, <1>4, <1>16 DEF LockRecord, Submitted, Owner
  <2>3. cleanup' \in CleanupRecord BY <1>16, <1>7 DEF Submitted
  <2>. QED BY <1>16, <2>1, <2>2, <2>3, <1>2 DEF Submitted
<1>17. ASSUME NEW u \in Caller, RegisterFromContext(u) PROVE EngineType'
  <2>1. engine' \in EngineRecord BY <1>1, <1>4, <1>17 DEF EngineRecord, RegisterFromContext, Enrol, Reject, Refuse
  <2>2. lock' \in LockRecord BY <1>1, <1>4, <1>17 DEF LockRecord, RegisterFromContext, Owner
  <2>3. cleanup' \in CleanupRecord BY <1>17, <1>7 DEF RegisterFromContext
  <2>. QED BY <1>1, <1>17, <2>1, <2>2, <2>3 DEF EngineType, RegisterFromContext, Enrol, Reject, Refuse
<1>18. ASSUME NEW u \in Caller, Own(u) PROVE EngineType'
  <2>1. Wants(u).forced \in BOOLEAN /\ Wants(u).bounded \in BOOLEAN
    BY <1>18, Wanted DEF Own, Occupied, Operation
  <2>2. engine' \in EngineRecord BY <1>18, <1>5 DEF Own
  <2>3. lock' \in LockRecord BY <1>1, <1>4, <1>18, <2>1 DEF LockRecord, Own, BeginCleanup, Owner
  <2>4. cleanup' \in CleanupRecord BY <1>1, <1>4, <1>18, <2>1 DEF CleanupRecord, Own, BeginCleanup, Owner
  <2>. QED BY <1>18, <2>2, <2>3, <2>4, <1>2 DEF Own
<1>19. ASSUME HandleIdle PROVE EngineType'
  <2>1. engine' \in EngineRecord BY <1>1, <1>4, <1>19 DEF EngineRecord, HandleIdle
  <2>2. lock' \in LockRecord BY <1>19, <1>6 DEF HandleIdle
  <2>3. cleanup' \in CleanupRecord BY <1>19, <1>7 DEF HandleIdle
  <2>. QED BY <1>19, <2>1, <2>2, <2>3, <1>2 DEF HandleIdle
<1>20. ASSUME Decide \/ ReportLoss PROVE EngineType'
  <2>1. engine' \in EngineRecord BY <1>1, <1>4, <1>20 DEF EngineRecord, Decide, ReportLoss, NotifyFailed, ReportFailure
  <2>2. lock' \in LockRecord BY <1>20, <1>6 DEF Decide, ReportLoss
  <2>3. cleanup' \in CleanupRecord BY <1>20, <1>7 DEF Decide, ReportLoss
  <2>. QED BY <1>1, <1>20, <2>1, <2>2, <2>3 DEF EngineType, Decide, ReportLoss, NotifyFailed, ReportFailure
<1>21. ASSUME HandleShutdown \/ Complete PROVE EngineType'
  <2>1. engine' \in EngineRecord BY <1>21, <1>5 DEF HandleShutdown, Complete
  <2>2. lock' \in LockRecord BY <1>21, <1>6 DEF HandleShutdown, Complete
  <2>3. cleanup' \in CleanupRecord BY <1>21, <1>7 DEF HandleShutdown, Complete
  <2>. QED BY <1>1, <1>21, <2>1, <2>2, <2>3 DEF EngineType, HandleShutdown, Complete
<1>22. ASSUME FinishRun PROVE EngineType'
  <2>1. engine' \in EngineRecord BY <1>22, <1>5 DEF FinishRun
  <2>2. lock' \in LockRecord BY <1>22, <1>6 DEF FinishRun
  <2>3. cleanup' \in CleanupRecord BY <1>22, <1>7 DEF FinishRun
  <2>. QED BY <1>1, <1>22, <2>1, <2>2, <2>3 DEF EngineType, FinishRun
<1>23. ASSUME Lose PROVE EngineType'
  <2>1. engine' \in EngineRecord BY <1>23, <1>5 DEF Lose
  <2>2. lock' \in LockRecord BY <1>23, <1>6 DEF Lose
  <2>3. cleanup' \in CleanupRecord BY <1>23, <1>7 DEF Lose
  <2>. QED BY <1>1, <1>23, <2>1, <2>2, <2>3 DEF EngineType, Lose
<1>24. ASSUME FailerStarts PROVE EngineType'
  <2>1. engine' \in EngineRecord BY <1>24, <1>5 DEF FailerStarts
  <2>2. lock' \in LockRecord BY <1>1, <1>4, <1>24 DEF LockRecord, FailerStarts, BeginCleanup, Owner
  <2>3. cleanup' \in CleanupRecord BY <1>1, <1>4, <1>24 DEF CleanupRecord, FailerStarts, BeginCleanup, Owner
  <2>. QED BY <1>1, <1>24, <2>1, <2>2, <2>3 DEF EngineType, FailerStarts
<1>25. ASSUME FailerNotStarted PROVE EngineType'
  <2>1. engine' \in EngineRecord BY <1>1, <1>4, <1>25 DEF EngineRecord, FailerNotStarted, FailedStart
  <2>2. lock' \in LockRecord BY <1>25, <1>6 DEF FailerNotStarted
  <2>3. cleanup' \in CleanupRecord BY <1>25, <1>7 DEF FailerNotStarted
  <2>. QED BY <1>1, <1>25, <2>1, <2>2, <2>3 DEF EngineType, FailerNotStarted
<1>26. ASSUME Coordinate \/ Escalate PROVE EngineType'
  <2>1. engine' \in EngineRecord BY <1>1, <1>4, <1>26 DEF EngineRecord, Coordinate, Escalate, Ask, CleanupFails
  <2>2. lock' \in LockRecord BY <1>26, <1>6 DEF Coordinate, Escalate
  <2>3. cleanup' \in CleanupRecord BY <1>1, <1>4, <1>26 DEF CleanupRecord, Coordinate, Escalate, Ask, Goes, EngineType
  <2>. QED BY <1>1, <1>26, <2>1, <2>2, <2>3 DEF EngineType, Coordinate, Escalate
<1>27. ASSUME Coordinated \/ GiveUp \/ Prepare \/ Drain PROVE EngineType'
  <2>1. engine' \in EngineRecord BY <1>27, <1>5 DEF Coordinated, GiveUp, Prepare, Drain
  <2>2. lock' \in LockRecord BY <1>27, <1>6 DEF Coordinated, GiveUp, Prepare, Drain
  <2>3. cleanup' \in CleanupRecord BY <1>1, <1>4, <1>27 DEF CleanupRecord, Coordinated, GiveUp, Prepare, Drain, Goes
  <2>. QED BY <1>1, <1>27, <2>1, <2>2, <2>3 DEF EngineType, Coordinated, GiveUp, Prepare, Drain
<1>28. ASSUME DrainTimesOut \/ CloseModules PROVE EngineType'
  <2>1. engine' \in EngineRecord BY <1>1, <1>4, <1>28 DEF EngineRecord, DrainTimesOut, CloseModules, CleanupFails
  <2>2. lock' \in LockRecord BY <1>28, <1>6 DEF DrainTimesOut, CloseModules
  <2>3. cleanup' \in CleanupRecord BY <1>1, <1>4, <1>28 DEF CleanupRecord, DrainTimesOut, CloseModules, Goes
  <2>. QED BY <1>28, <2>1, <2>2, <2>3, <1>2 DEF DrainTimesOut, CloseModules
<1>29. ASSUME CloseLoop PROVE EngineType'
  <2>1. engine' \in EngineRecord BY <1>1, <1>4, <1>29 DEF EngineRecord, CloseLoop
  <2>2. lock' \in LockRecord BY <1>29, <1>6 DEF CloseLoop
  <2>3. cleanup' \in CleanupRecord BY <1>1, <1>4, <1>29 DEF CleanupRecord, CloseLoop, Goes
  <2>. QED BY <1>1, <1>29, <2>1, <2>2, <2>3 DEF EngineType, CloseLoop
<1>30. ASSUME FinishCleanup PROVE EngineType'
  <2>1. engine' \in EngineRecord BY <1>1, <1>4, <1>30 DEF EngineRecord, FinishCleanup
  <2>2. lock' \in LockRecord BY <1>1, <1>4, <1>30 DEF LockRecord, FinishCleanup, Owner
  <2>3. cleanup' \in CleanupRecord BY <1>1, <1>4, <1>30 DEF CleanupRecord, FinishCleanup, NoCleanup, Owner
  <2>. QED BY <1>1, <1>30, <2>1, <2>2, <2>3 DEF EngineType, FinishCleanup
<1>31. ASSUME NEW u \in Caller, Wait(u) \/ List(u) \/ Control(u) \/ RequestShutdown(u) \/ Serve(u)
                               \/ Wake(u) \/ StartAwaited(u) \/ Joined(u)
       PROVE  EngineType'
  BY <1>2, <1>5, <1>6, <1>7, <1>31 DEF Wait, List, Control, RequestShutdown, Serve, Wake, StartAwaited, Joined
<1>32. ASSUME NEW c \in Context, EndWork(c)
       PROVE  EngineType'
  BY <1>2, <1>5, <1>6, <1>7, <1>32 DEF EndWork
<1>33. ASSUME Deliver \/ HandleRegistered \/ HandleTerminated \/ HandleControl \/ Discard \/ Finalize
              \/ StopAuthority
       PROVE  EngineType'
  BY <1>2, <1>5, <1>6, <1>7, <1>33 DEF Deliver, HandleRegistered, HandleTerminated, HandleControl, Discard, Finalize, StopAuthority
<1>34. ASSUME UNCHANGED vars
       PROVE  EngineType'
  BY <1>2, <1>5, <1>6, <1>7, <1>34 DEF vars
<1>. QED
  BY <1>8, <1>9, <1>10, <1>11, <1>12, <1>13, <1>14, <1>15, <1>16, <1>17, <1>18, <1>19, <1>20,
     <1>21, <1>22, <1>23, <1>24, <1>25, <1>26, <1>27, <1>28, <1>29, <1>30, <1>31, <1>32, <1>33,
     <1>34
     DEF Next, Begin, Continue, Coordinator, Cleanup
\* A thread gets on, within a call or out of it.
LEMMA Going ==
    ASSUME TypeOK, NEW u \in Caller, NEW at \in Phase, To(u, at)
    PROVE  /\ caller' \in [Caller -> CallerRecord]
           /\ caller'[u].at = at /\ caller'[u].todo = caller[u].todo
           /\ \A v \in Caller : v # u => caller'[v] = caller[v]
<1>1. caller \in [Caller -> CallerRecord] BY DEF TypeOK, CallerType
<1>. QED BY <1>1 DEF To, CallerRecord

LEMMA Returning ==
    ASSUME TypeOK, NEW u \in Caller, caller[u].todo # << >>, Return(u)
    PROVE  /\ caller' \in [Caller -> CallerRecord]
           /\ caller'[u].at = "IDLE" /\ caller'[u].todo = Tail(caller[u].todo)
           /\ \A v \in Caller : v # u => caller'[v] = caller[v]
<1>1. caller \in [Caller -> CallerRecord] BY DEF TypeOK, CallerType
<1>2. Tail(caller[u].todo) \in Seq(Operation) BY Wanted
<1>3. [todo |-> Tail(caller[u].todo), at |-> "IDLE"] \in CallerRecord BY <1>2 DEF CallerRecord, Phase
<1>4. caller' = [caller EXCEPT ![u] = [todo |-> Tail(caller[u].todo), at |-> "IDLE"]]
  BY <1>1 DEF Return
<1>. QED BY <1>1, <1>3, <1>4

\* The owner of the cleanup, if it is a thread, is at it.
LEMMA Cleans ==
    ASSUME TypeOK, Occupied, Locked, cleanup.at # "NONE"
    PROVE  /\ cleanup.by \in Caller \cup {Failer}
           /\ cleanup.by # Failer => caller[cleanup.by].at = "CLEANS" /\ caller[cleanup.by].todo # << >>
           /\ cleanup.by = Failer => failer = "RUNNING"
<1>1. cleanup.by \in Owner /\ cleanup.by # Nobody
  BY DEF TypeOK, EngineType, CleanupRecord, Locked
<1>. QED BY <1>1 DEF Owner, Locked, Occupied, At

LEMMA Noticing ==
    ASSUME TypeOK, NEW contexts
    PROVE  /\ Notified(contexts) \in [Caller -> WaiterRecord]
           /\ \A u \in Caller : /\ Notified(contexts)[u].of = waiter[u].of
                                /\ Notified(contexts)[u].for = waiter[u].for
                                /\ Notified(contexts)[u].event <=>
                                       \/ waiter[u].event
                                       \/ waiter[u].of \in Context /\ Matches(contexts[waiter[u].of], waiter[u].for)
<1>1. waiter \in [Caller -> WaiterRecord] BY DEF TypeOK, CallerType
<1>2. ASSUME NEW u \in Caller
      PROVE  /\ Notified(contexts)[u] \in WaiterRecord
             /\ Notified(contexts)[u].of = waiter[u].of
             /\ Notified(contexts)[u].for = waiter[u].for
             /\ Notified(contexts)[u].event <=>
                    \/ waiter[u].event
                    \/ waiter[u].of \in Context /\ Matches(contexts[waiter[u].of], waiter[u].for)
  <2>1. CASE waiter[u].of \in Context /\ Matches(contexts[waiter[u].of], waiter[u].for)
    BY <1>1, <2>1 DEF Notified, WaiterRecord
  <2>2. CASE ~(waiter[u].of \in Context /\ Matches(contexts[waiter[u].of], waiter[u].for))
    BY <1>1, <2>2 DEF Notified, WaiterRecord
  <2>. QED BY <2>1, <2>2
<1>3. Notified(contexts) = [u \in Caller |-> Notified(contexts)[u]] BY DEF Notified
<1>. QED BY <1>2, <1>3

LEMMA Moved ==
    ASSUME TypeOK, Occupied, NEW u \in Caller, NEW at \in Phase, To(u, at), caller[u].todo # << >>,
           at \in {"REGISTER", "SUBMITTED"} => Wants(u).op = "SUBMIT",
           at = "NOTIFY" => Wants(u).op = "SUBMIT_INSIDE",
           at = "WAITS" => waiter'[u].of \in Context,
           waiter' \in [Caller -> WaiterRecord],
           \A v \in Caller : v # u => waiter'[v].of = waiter[v].of
    PROVE  CallerType' /\ Occupied'
<1>1. /\ caller' \in [Caller -> CallerRecord]
      /\ caller'[u].at = at /\ caller'[u].todo = caller[u].todo
      /\ \A v \in Caller : v # u => caller'[v] = caller[v]
  BY Going
<1>2. CallerType' BY <1>1 DEF CallerType
<1>3. ASSUME NEW v \in Caller
      PROVE  /\ caller'[v].at # "IDLE" => caller'[v].todo # << >>
             /\ At(v, {"REGISTER", "SUBMITTED"})' => Wants(v)'.op = "SUBMIT"
             /\ At(v, {"NOTIFY"})' => Wants(v)'.op = "SUBMIT_INSIDE"
             /\ At(v, {"WAITS"})' => waiter'[v].of \in Context
  BY <1>1 DEF Occupied, At, Wants
<1>. QED BY <1>2, <1>3 DEF Occupied

LEMMA Left ==
    ASSUME TypeOK, Occupied, NEW u \in Caller, Return(u), caller[u].todo # << >>,
           waiter' \in [Caller -> WaiterRecord],
           \A v \in Caller : v # u => waiter'[v].of = waiter[v].of
    PROVE  CallerType' /\ Occupied'
<1>1. /\ caller' \in [Caller -> CallerRecord]
      /\ caller'[u].at = "IDLE" /\ caller'[u].todo = Tail(caller[u].todo)
      /\ \A v \in Caller : v # u => caller'[v] = caller[v]
  BY Returning
<1>2. CallerType' BY <1>1 DEF CallerType
<1>3. ASSUME NEW v \in Caller
      PROVE  /\ caller'[v].at # "IDLE" => caller'[v].todo # << >>
             /\ At(v, {"REGISTER", "SUBMITTED"})' => Wants(v)'.op = "SUBMIT"
             /\ At(v, {"NOTIFY"})' => Wants(v)'.op = "SUBMIT_INSIDE"
             /\ At(v, {"WAITS"})' => waiter'[v].of \in Context
  BY <1>1 DEF Occupied, At, Wants
<1>. QED BY <1>2, <1>3 DEF Occupied

LEMMA Stayed ==
    ASSUME TypeOK, Occupied, UNCHANGED caller,
           waiter' \in [Caller -> WaiterRecord], \A v \in Caller : waiter'[v].of = waiter[v].of
    PROVE  CallerType' /\ Occupied'
<1>1. CallerType' BY DEF CallerType, TypeOK
<1>. QED BY <1>1 DEF Occupied, At, Wants

LEMMA CallerTyped ==
    ASSUME TypeOK, Occupied, Locked, [Next]_vars
    PROVE  CallerType' /\ Occupied'
<1>1. waiter \in [Caller -> WaiterRecord] BY DEF TypeOK, CallerType
<1>2. ASSUME UNCHANGED waiter
      PROVE  waiter' \in [Caller -> WaiterRecord] /\ \A v \in Caller : waiter'[v].of = waiter[v].of
  BY <1>1, <1>2
<1>3. ASSUME NEW contexts, Become(contexts)
      PROVE  waiter' \in [Caller -> WaiterRecord] /\ \A v \in Caller : waiter'[v].of = waiter[v].of
  BY <1>3, Noticing DEF Become
<1>4. ASSUME NEW u \in Caller, NEW op, Calls(u, op)
      PROVE  caller[u].todo # << >> /\ Wants(u).op = op
  BY <1>4 DEF Calls, Wants
<1>5. ASSUME NEW u \in Caller, caller[u].at # "IDLE" PROVE caller[u].todo # << >>
  BY <1>5 DEF Occupied
<1>10. ASSUME NEW u \in Caller, Start(u) PROVE CallerType' /\ Occupied'
  <2>1. caller[u].todo # << >> /\ UNCHANGED waiter BY <1>4, <1>10 DEF Start
  <2>2. To(u, "BUILD") \/ Return(u) BY <1>10 DEF Start
  <2>. QED BY <1>2, <2>1, <2>2, Moved, Left DEF Phase
<1>11. ASSUME NEW u \in Caller, Submit(u) PROVE CallerType' /\ Occupied'
  <2>1. caller[u].todo # << >> /\ Wants(u).op = "SUBMIT" /\ UNCHANGED waiter BY <1>4, <1>11 DEF Submit
  <2>2. To(u, "REGISTER") \/ Return(u) BY <1>11 DEF Submit
  <2>. QED BY <1>2, <2>1, <2>2, Moved, Left DEF Phase
<1>12. ASSUME NEW u \in Caller, SubmitFromContext(u) PROVE CallerType' /\ Occupied'
  <2>1. caller[u].todo # << >> /\ Wants(u).op = "SUBMIT_INSIDE" /\ UNCHANGED waiter
    BY <1>4, <1>12 DEF SubmitFromContext
  <2>2. To(u, "NOTIFY") \/ Return(u) BY <1>12 DEF SubmitFromContext
  <2>. QED BY <1>2, <2>1, <2>2, Moved, Left DEF Phase
<1>13. ASSUME NEW u \in Caller, Wait(u) PROVE CallerType' /\ Occupied'
  <2>1. caller[u].todo # << >> /\ Wants(u).op = "WAIT" BY <1>4, <1>13 DEF Wait
  <2>2. Wants(u).of \in Context /\ Wants(u).for \in Awaitable BY <2>1, Wanted DEF Operation
  <2>3. CASE Return(u) /\ UNCHANGED waiter BY <1>2, <2>1, <2>3, Left
  <2>4. CASE /\ waiter' = [waiter EXCEPT ![u] = [of |-> Wants(u).of, for |-> Wants(u).for, event |-> FALSE]]
             /\ To(u, "WAITS")
    <3>1. [of |-> Wants(u).of, for |-> Wants(u).for, event |-> FALSE] \in WaiterRecord
      BY <2>2 DEF WaiterRecord
    <3>2. /\ waiter' \in [Caller -> WaiterRecord] /\ waiter'[u].of = Wants(u).of
          /\ \A v \in Caller : v # u => waiter'[v].of = waiter[v].of
      BY <1>1, <2>4, <3>1
    <3>. QED BY <2>1, <2>2, <2>4, <3>2, Moved DEF Phase
  <2>. QED BY <1>13, <2>3, <2>4 DEF Wait
<1>14. ASSUME NEW u \in Caller, Wake(u) PROVE CallerType' /\ Occupied'
  <2>1. caller[u].todo # << >> /\ Return(u) BY <1>5, <1>14 DEF Wake
  <2>2. NoWaiter \in WaiterRecord BY DEF NoWaiter, WaiterRecord, Awaitable
  <2>3. /\ waiter' \in [Caller -> WaiterRecord]
        /\ \A v \in Caller : v # u => waiter'[v].of = waiter[v].of
    BY <1>1, <1>14, <2>2 DEF Wake
  <2>. QED BY <2>1, <2>3, Left
<1>15. ASSUME NEW u \in Caller, List(u) \/ Control(u) \/ RequestShutdown(u) \/ Serve(u) PROVE CallerType' /\ Occupied'
  <2>1. caller[u].todo # << >> /\ UNCHANGED waiter /\ Return(u)
    BY <1>4, <1>15 DEF List, Control, RequestShutdown, Serve
  <2>. QED BY <1>2, <2>1, Left
<1>16. ASSUME NEW u \in Caller, Shutdown(u) PROVE CallerType' /\ Occupied'
  <2>1. caller[u].todo # << >> /\ UNCHANGED waiter BY <1>4, <1>16 DEF Shutdown
  <2>2. To(u, "AWAITS_START") \/ To(u, "JOINS") \/ To(u, "OWNS") \/ Return(u) BY <1>16 DEF Shutdown
  <2>. QED BY <1>2, <2>1, <2>2, Moved, Left DEF Phase
<1>17. ASSUME NEW u \in Caller, Build(u) \/ BuildFails(u) \/ Own(u) \/ StartAwaited(u)
       PROVE  CallerType' /\ Occupied'
  <2>1. caller[u].todo # << >> /\ UNCHANGED waiter /\ (To(u, "BUILT") \/ To(u, "CLEANS") \/ To(u, "IDLE"))
    BY <1>5, <1>17 DEF Build, BuildFails, Own, StartAwaited
  <2>. QED BY <1>2, <2>1, Moved DEF Phase
<1>18. ASSUME NEW u \in Caller, Started(u) PROVE CallerType' /\ Occupied'
  <2>1. caller[u].todo # << >> /\ UNCHANGED waiter BY <1>5, <1>18 DEF Started
  <2>2. To(u, "CLEANS") \/ Return(u) BY <1>18 DEF Started
  <2>. QED BY <1>2, <2>1, <2>2, Moved, Left DEF Phase
<1>19. ASSUME NEW u \in Caller, NEW k, NEW e,
              LET c == Wants(u).of IN Enrol(c, k, e) \/ Reject(c, k, e) \/ Refuse(c, k, e)
       PROVE  waiter' \in [Caller -> WaiterRecord] /\ \A v \in Caller : waiter'[v].of = waiter[v].of
  BY <1>2, <1>3, <1>19 DEF Enrol, Reject, Refuse
<1>20. ASSUME NEW u \in Caller, Register(u) PROVE CallerType' /\ Occupied'
  <2>1. caller[u].todo # << >> /\ To(u, "SUBMITTED") BY <1>5, <1>20 DEF Register
  <2>2. Wants(u).op = "SUBMIT" BY <1>20 DEF Register, Occupied, At
  <2>3. waiter' \in [Caller -> WaiterRecord] /\ \A v \in Caller : waiter'[v].of = waiter[v].of
    BY <1>19, <1>20 DEF Register
  <2>. QED BY <2>1, <2>2, <2>3, Moved DEF Phase
<1>21. ASSUME NEW u \in Caller, RegisterFromContext(u) PROVE CallerType' /\ Occupied'
  <2>1. caller[u].todo # << >> /\ Return(u) BY <1>5, <1>21 DEF RegisterFromContext
  <2>3. waiter' \in [Caller -> WaiterRecord] /\ \A v \in Caller : waiter'[v].of = waiter[v].of
    BY <1>19, <1>21 DEF RegisterFromContext
  <2>. QED BY <2>1, <2>3, Left
<1>22. ASSUME NEW u \in Caller, Submitted(u) \/ Joined(u) PROVE CallerType' /\ Occupied'
  <2>1. caller[u].todo # << >> /\ UNCHANGED waiter /\ Return(u) BY <1>5, <1>22 DEF Submitted, Joined
  <2>. QED BY <1>2, <2>1, Left
<1>23. ASSUME FinishCleanup PROVE CallerType' /\ Occupied'
  <2>1. CASE cleanup.by = Failer BY <1>2, <1>23, <2>1, Stayed DEF FinishCleanup
  <2>2. CASE cleanup.by # Failer
    <3>1. cleanup.by \in Caller /\ caller[cleanup.by].todo # << >> BY <1>23, <2>2, Cleans DEF FinishCleanup
    <3>. QED BY <1>2, <1>23, <2>2, <3>1, Left DEF FinishCleanup
  <2>. QED BY <2>1, <2>2
<1>24. ASSUME HandleTerminated \/ Finalize \/ HandleShutdown \/ StopAuthority \/ Prepare \/ Drain
       PROVE  CallerType' /\ Occupied'
  <2>1. UNCHANGED caller
    BY <1>24 DEF HandleTerminated, Finalize, HandleShutdown, StopAuthority, Prepare, Drain
  <2>2. \E contexts : Become(contexts)
    BY <1>24 DEF HandleTerminated, Finalize, HandleShutdown, StopAuthority, Prepare, Drain, ShutDown
  <2>. QED BY <1>3, <2>1, <2>2, Stayed
<1>25. ASSUME HandleRegistered \/ HandleControl PROVE CallerType' /\ Occupied'
  <2>1. UNCHANGED caller BY <1>25 DEF HandleRegistered, HandleControl
  <2>2. UNCHANGED waiter \/ \E contexts : Become(contexts) BY <1>25 DEF HandleRegistered, HandleControl
  <2>. QED BY <1>2, <1>3, <2>1, <2>2, Stayed
<1>26. ASSUME NEW c \in Context, EndWork(c) PROVE CallerType' /\ Occupied'
  BY <1>2, <1>26, Stayed DEF EndWork
<1>27. ASSUME Deliver \/ HandleIdle \/ Discard \/ Decide \/ Complete \/ FinishRun \/ ReportLoss \/ Lose
       PROVE  CallerType' /\ Occupied'
  <2>. UNCHANGED <<caller, waiter>>
    BY <1>27 DEF Deliver, HandleIdle, Discard, Decide, Complete, FinishRun, ReportLoss, Lose
  <2>. QED BY <1>2, Stayed
<1>28. ASSUME FailerStarts \/ FailerNotStarted \/ Coordinate \/ Coordinated \/ Escalate \/ GiveUp
              \/ DrainTimesOut \/ CloseModules \/ CloseLoop
       PROVE  CallerType' /\ Occupied'
  <2>. UNCHANGED <<caller, waiter>>
    BY <1>28 DEF FailerStarts, FailerNotStarted, Coordinate, Coordinated, Escalate, GiveUp, DrainTimesOut,
                 CloseModules, CloseLoop
  <2>. QED BY <1>2, Stayed
<1>29. CASE UNCHANGED vars BY <1>2, <1>29, Stayed DEF vars
<1>. QED
  BY <1>10, <1>11, <1>12, <1>13, <1>14, <1>15, <1>16, <1>17, <1>18, <1>20, <1>21, <1>22, <1>23, <1>24,
     <1>25, <1>26, <1>27, <1>28, <1>29
     DEF Next, Begin, Continue, Coordinator, Cleanup
-----------------------------------------------------------------------------
(* Mail                                                                      *)

LEMMA Carried ==
    ASSUME NEW M, NEW q \in QueueOf(M), NEW m \in M
    PROVE  Put(q, m) \in QueueOf(M)
<1>1. q.active \in Seq(M) /\ q.submissions \in Seq(M) BY DEF QueueOf
<1>2. Append(q.active, m) \in Seq(M) /\ Append(q.submissions, m) \in Seq(M) BY <1>1, AppendProperties
<1>3. CASE Lane(m) = "active" BY <1>1, <1>2, <1>3 DEF Put, QueueOf
<1>4. CASE Lane(m) = "submissions" BY <1>1, <1>2, <1>4 DEF Put, QueueOf
<1>. QED BY <1>3, <1>4 DEF Lane

LEMMA Collected ==
    ASSUME NEW M, queue \in QueueOf(M), ~QueueEmpty
    PROVE  Due \in M /\ Taken \in QueueOf(M)
<1>1. queue.active \in Seq(M) /\ queue.submissions \in Seq(M) BY DEF QueueOf
<1>2. CASE DueLane = "active"
  <2>1. queue.active # << >> BY <1>2 DEF DueLane
  <2>2. Head(queue.active) \in M /\ Tail(queue.active) \in Seq(M) BY <1>1, <2>1, Taking
  <2>. QED BY <1>1, <1>2, <2>2 DEF Due, Taken, QueueOf
<1>3. CASE DueLane = "submissions"
  <2>1. queue.submissions # << >> BY <1>3 DEF DueLane, QueueEmpty
  <2>2. Head(queue.submissions) \in M /\ Tail(queue.submissions) \in Seq(M) BY <1>1, <2>1, Taking
  <2>. QED BY <1>1, <1>3, <2>2 DEF Due, Taken, QueueOf
<1>. QED BY <1>2, <1>3 DEF DueLane

LEMMA Delivered ==
    ASSUME NEW M, queue \in QueueOf(M), calls \in Seq(M), Deliver
    PROVE  queue' \in QueueOf(M) /\ calls' \in Seq(M)
<1>1. calls # << >> BY DEF Deliver
<1>2. Head(calls) \in M /\ Tail(calls) \in Seq(M) BY <1>1, Taking
<1>. QED BY <1>2, Carried DEF Deliver

LEMMA Mailed ==
    ASSUME NEW c \in Context
    PROVE  /\ Message("Idle", NoContext) \in Mail
           /\ \A type \in Targeted : Message(type, c) \in Mail
           /\ \A forced : Command(forced) \in Mail
           /\ \A u : Requested(u) \in Mail
BY DEF Message, Mail, Targeted, Command, Requested

LEMMA Targets ==
    ASSUME TypeOK, ~QueueEmpty
    PROVE  Due \in Mail /\ (Due.type \in Targeted => Due.of \in Context)
<1>1. queue \in QueueOf(Mail) BY DEF TypeOK, ContextType
<1>. QED BY <1>1, Collected DEF Mail

-----------------------------------------------------------------------------
(* Authority                                                                 *)

LEMMA Regranted ==
    ASSUME NEW a, NEW b, NEW x, NEW y, NEW z, a = [closed |-> x, grants |-> y, scopes |-> z], NEW g, NEW s,
           b = [a EXCEPT !.grants = g]
    PROVE  [b EXCEPT !.scopes = s] = [closed |-> x, grants |-> g, scopes |-> s]
<1>1. b = [closed |-> x, grants |-> g, scopes |-> z] OBVIOUS
<1>. QED BY ONLY <1>1

LEMMA Registering ==
    ASSUME NEW a, Issued(a), NEW c, NEW about
    PROVE  LET b == RegisterContext(a, c, about)
           IN /\ Issued(b) /\ b.closed = a.closed
              /\ DOMAIN b.grants = DOMAIN a.grants \cup {c} /\ DOMAIN b.scopes = DOMAIN a.scopes \cup {c}
              /\ \A k \in DOMAIN a.grants : k # c => b.grants[k] = a.grants[k]
<1>. DEFINE g == With(a.grants, c, ContextGrant(c, about))
            s == With(a.scopes, c, about.graph)
<1>1. /\ DOMAIN g = DOMAIN a.grants \cup {c} /\ DOMAIN s = DOMAIN a.scopes \cup {c}
      /\ \A k \in DOMAIN a.grants : k # c => g[k] = a.grants[k]
  BY DEF With
<1>. HIDE DEF g, s
<1>2. RegisterContext(a, c, about) = [closed |-> a.closed, grants |-> g, scopes |-> s]
  <2>. DEFINE r == [a EXCEPT !.grants = g]
  <2>1. RegisterContext(a, c, about) = [r EXCEPT !.scopes = With(@, c, about.graph)]
    BY DEF RegisterContext, g
  <2>2. r.scopes = a.scopes BY DEF Issued
  <2>3. RegisterContext(a, c, about) = [r EXCEPT !.scopes = s] BY <2>1, <2>2 DEF s
  <2>. QED BY <2>3, Regranted DEF Issued
<1>. QED BY <1>1, <1>2 DEF Issued

LEMMA Unregistering ==
    ASSUME NEW a, Issued(a), NEW C
    PROVE  LET b == UnregisterContexts(a, C)
           IN /\ Issued(b) /\ b.closed = a.closed
              /\ DOMAIN b.grants = DOMAIN a.grants \ C /\ DOMAIN b.scopes = DOMAIN a.scopes \ C
              /\ \A k \in DOMAIN b.grants : b.grants[k] = a.grants[k]
<1>. DEFINE g == Restrict(a.grants, DOMAIN a.grants \ C)
            s == Restrict(a.scopes, DOMAIN a.scopes \ C)
<1>1. /\ DOMAIN g = DOMAIN a.grants \ C /\ DOMAIN s = DOMAIN a.scopes \ C
      /\ \A k \in DOMAIN g : g[k] = a.grants[k]
  BY DEF Restrict
<1>. HIDE DEF g, s
<1>2. UnregisterContexts(a, C) = [closed |-> a.closed, grants |-> g, scopes |-> s]
  <2>. DEFINE r == [a EXCEPT !.grants = g]
  <2>1. UnregisterContexts(a, C) = [r EXCEPT !.scopes = Restrict(@, DOMAIN @ \ C)]
    BY DEF UnregisterContexts, g
  <2>2. r.scopes = a.scopes BY DEF Issued
  <2>3. UnregisterContexts(a, C) = [r EXCEPT !.scopes = s] BY <2>1, <2>2 DEF s
  <2>. QED BY <2>3, Regranted DEF Issued
<1>. QED BY <1>1, <1>2 DEF Issued

LEMMA Issuing ==
    /\ Issued(Bootstrapped) /\ ~Bootstrapped.closed
    /\ DOMAIN Bootstrapped.grants = {Engine, Modules} /\ DOMAIN Bootstrapped.scopes = {}
    /\ \A k \in {Engine, Modules} : Bootstrapped.grants[k].kind # "CONTEXT"
<1>1. DOMAIN << >> = {} BY EmptySeq
<1>. DEFINE g == [k \in {Engine, Modules} |-> IF k = Engine THEN EngineGrant ELSE ModuleGrant]
<1>2. DOMAIN g = {Engine, Modules} /\ \A k \in {Engine, Modules} : g[k].kind # "CONTEXT"
  BY DEF EngineGrant, ModuleGrant, Grant
<1>. HIDE DEF g
<1>3. Bootstrapped = [closed |-> FALSE, grants |-> g, scopes |-> << >>]
  <2>1. Bootstrapped = [Unissued EXCEPT !.grants = g] BY DEF Bootstrapped, g
  <2>. QED BY <2>1 DEF Unissued
<1>. QED BY <1>1, <1>2, <1>3 DEF Issued

LEMMA Closing ==
    /\ Issued(ClosedMessenger) /\ ClosedMessenger.closed
    /\ DOMAIN ClosedMessenger.grants = {} /\ DOMAIN ClosedMessenger.scopes = {}
<1>1. DOMAIN << >> = {} BY EmptySeq
<1>. QED BY <1>1 DEF Issued, ClosedMessenger

-----------------------------------------------------------------------------
(* Contexts go forward                                                       *)

Forward(before, after) ==
    /\ before.finalized => after.finalized
    /\ \/ after.state = before.state
       \/ before.state = "NEW" /\ after.state \in Waiting \cup {"REJECTED"}
       \/ before.state \in Waiting /\ after.state = "RUNNING"
       \/ before.state = "RUNNING" /\ after.state = "ABORTING"
       \/ before.state # "NEW" /\ after.state \in Terminal

Sound(record) == record \in Record /\ (record.finalized => record.state \in Terminal)

\* Only its registration makes a context more than new.
Enlists(c) == \E u \in Caller : (Register(u) \/ RegisterFromContext(u)) /\ Wants(u).of = c

Advanced ==
    /\ context' \in [Context -> Record]
    /\ \A c \in Context : /\ Sound(context'[c]) /\ Forward(context[c], context'[c])
                          /\ context[c].state = "NEW" => context'[c].state = "NEW" \/ Enlists(c)

LEMMA Ended ==
    ASSUME NEW r, Sound(r)
    PROVE  /\ \A q \in {Stopped(r), Aborted(r)} :
                 Sound(q) /\ Forward(r, q) /\ (r.state \in {"NEW"} \cup Terminal => q = r)
           /\ r.state # "NEW" => \A forced \in BOOLEAN :
                 /\ Sound(Ending(r, forced)) /\ Forward(r, Ending(r, forced))
                 /\ Ending(r, forced).state # "NEW"
<1>1. r \in [state : {"NEW"} \cup Live \cup Terminal, finalized : BOOLEAN, stopped : BOOLEAN, ended : BOOLEAN]
  BY DEF Sound, Record
<1>2. ASSUME NEW q \in {Stopped(r), Aborted(r)}
      PROVE  Sound(q) /\ Forward(r, q) /\ (r.state \in {"NEW"} \cup Terminal => q = r)
  <2>1. CASE r.state \in Waiting
    BY <1>1, <2>1 DEF Stopped, Aborted, Sound, Record, Forward, Waiting, Terminal, Live
  <2>2. CASE r.state = "RUNNING"
    BY <1>1, <2>2 DEF Stopped, Aborted, Sound, Record, Forward, Waiting, Terminal, Live
  <2>3. CASE r.state \notin Waiting \cup {"RUNNING"}
    BY <2>3 DEF Stopped, Aborted, Sound, Forward
  <2>. QED BY <2>1, <2>2, <2>3
<1>3. ASSUME r.state # "NEW", NEW forced \in BOOLEAN
      PROVE  /\ Sound(Ending(r, forced)) /\ Forward(r, Ending(r, forced))
             /\ Ending(r, forced).state # "NEW"
  <2>. DEFINE q == IF forced THEN Aborted(r) ELSE Stopped(r)
  <2>1. Sound(q) /\ Forward(r, q) BY <1>2
  <2>2. q.state # "NEW" BY <1>3, <2>1 DEF Forward, Waiting, Terminal
  <2>3. Ending(r, forced) = [q EXCEPT !.finalized = q.state \in Terminal] BY DEF Ending
  <2>. HIDE DEF q
  <2>. DEFINE e == q.state \in Terminal
  <2>4. e \in BOOLEAN OBVIOUS
  <2>5. /\ Ending(r, forced).state = q.state /\ (Ending(r, forced).finalized <=> e)
        /\ Ending(r, forced) \in Record
    BY <2>1, <2>3, <2>4 DEF Sound, Record
  <2>6. r.finalized => Ending(r, forced).finalized BY <2>1, <2>5 DEF Forward, Sound
  <2>. QED BY <2>1, <2>2, <2>5, <2>6 DEF Sound, Forward
<1>. QED BY <1>2, <1>3

LEMMA Shutting ==
    ASSUME TypeOK, Recorded, NEW forced \in BOOLEAN, ShutDown(forced)
    PROVE  /\ Advanced
           /\ registry' \in RegistryRecord /\ registry'.requested
           /\ registry'.contexts = {c \in registry.contexts : ~context'[c].finalized}
           /\ \A c \in Context : c \notin registry.contexts => context'[c] = context[c]
<1>. DEFINE new == Asked(Draining(forced), forced)
            gone == {c \in registry.contexts : new[c].finalized}
<1>0. registry \in RegistryRecord /\ context \in [Context -> Record] BY DEF TypeOK, ContextType
<1>1. Draining(forced) \subseteq registry.contexts /\ registry.contexts \subseteq Context
  BY <1>0 DEF Draining, Ordinary, RegistryRecord
<1>2. ASSUME NEW c \in Context
      PROVE  /\ Sound(new[c]) /\ Forward(context[c], new[c])
             /\ c \notin registry.contexts => new[c] = context[c]
             /\ context[c].state = "NEW" => new[c].state = "NEW"
  <2>1. Sound(context[c]) BY <1>0 DEF Sound, Recorded
  <2>2. CASE c \in Draining(forced)
    <3>1. context[c].state # "NEW" /\ new[c] = Ending(context[c], forced) BY <1>1, <2>2 DEF Recorded, Asked
    <3>. QED BY <1>1, <2>1, <2>2, <3>1, Ended
  <2>3. CASE c \notin Draining(forced)
    <3>1. new[c] = context[c] BY <2>3 DEF Asked
    <3>. QED BY <2>1, <3>1 DEF Forward
  <2>. QED BY <2>2, <2>3
<1>3. new = [c \in Context |-> new[c]] BY DEF Asked
<1>4. context' = new /\ registry' = [registry EXCEPT !.contexts = @ \ gone, !.requested = TRUE, !.forced = @ \/ forced]
  BY DEF ShutDown, Become
<1>. HIDE DEF new
<1>5. registry' \in RegistryRecord /\ registry'.requested /\ registry'.contexts = registry.contexts \ gone
  BY <1>0, <1>4 DEF RegistryRecord
<1>6. new \in [Context -> Record] BY <1>2, <1>3 DEF Sound
<1>7. registry'.contexts = {c \in registry.contexts : ~context'[c].finalized} BY <1>4, <1>5
<1>. QED BY <1>2, <1>4, <1>5, <1>6, <1>7 DEF Advanced

\* What a thread is about to submit is new, and nobody else submits it.
LEMMA Entering ==
    ASSUME TypeOK, Occupied, Recorded, NEW u \in Caller, At(u, {"REGISTER", "NOTIFY"})
    PROVE  /\ Wants(u).of \in Context /\ context[Wants(u).of].state = "NEW"
           /\ ~context[Wants(u).of].finalized
           /\ Wants(u).of \notin registry.contexts
           /\ \A v \in Caller : \A i \in DOMAIN caller[v].todo :
                 caller[v].todo[i].op \in Enters /\ caller[v].todo[i].of = Wants(u).of => v = u /\ i = 1
<1>1. caller[u].todo # << >> /\ Wants(u).op \in Enters BY DEF Occupied, At, Enters
<1>2. Wants(u).of \in Context /\ Wants(u) = caller[u].todo[1] /\ 1 \in DOMAIN caller[u].todo
  BY <1>1, Wanted
<1>3. context[Wants(u).of].state = "NEW" BY <1>1, <1>2 DEF Recorded, Fresh, At
<1>4. Wants(u).of \notin registry.contexts /\ ~context[Wants(u).of].finalized
  BY <1>2, <1>3 DEF Recorded, Terminal
<1>5. ASSUME NEW v \in Caller, NEW i \in DOMAIN caller[v].todo,
             caller[v].todo[i].op \in Enters, caller[v].todo[i].of = Wants(u).of
      PROVE  v = u /\ i = 1
  <2>. DEFINE todo == [w \in Caller |-> caller[w].todo]
  <2>1. SubmitsOnce(todo) BY DEF Recorded
  <2>2. todo[u] = caller[u].todo /\ todo[v] = caller[v].todo OBVIOUS
  <2>. HIDE DEF todo
  <2>. QED BY <1>1, <1>2, <1>5, <2>1, <2>2 DEF SubmitsOnce
<1>. QED BY <1>2, <1>3, <1>4, <1>5

LEMMA ContextsAdvance ==
    ASSUME TypeOK, Occupied, Recorded, [Next]_vars
    PROVE  Advanced
<1>1. context \in [Context -> Record] /\ \A c \in Context : Sound(context[c])
  BY DEF TypeOK, ContextType, Sound, Recorded
<1>2. ASSUME UNCHANGED context PROVE Advanced BY <1>1, <1>2 DEF Advanced, Forward
<1>3. ASSUME NEW c \in Context, NEW r, context' = [context EXCEPT ![c] = r],
             Sound(r), Forward(context[c], r),
             context[c].state = "NEW" => r.state = "NEW" \/ Enlists(c)
      PROVE  Advanced
  BY <1>1, <1>3 DEF Advanced, Forward, Sound
<1>4. ASSUME NEW c \in Context, context[c].state = "NEW", ~context[c].finalized, Enlists(c),
             NEW k, NEW e, Enrol(c, k, e) \/ Reject(c, k, e) \/ Refuse(c, k, e)
      PROVE  Advanced
  <2>1. CASE Enrol(c, k, e)
    <3>. DEFINE s == IF Supervising(c) THEN "VALIDATED" ELSE "QUEUED"
                r == [context[c] EXCEPT !.state = s]
    <3>1. s \in Waiting BY DEF Waiting
    <3>2. context' = [context EXCEPT ![c] = r] BY <1>1, <2>1 DEF Enrol, Become
    <3>3. r \in Record /\ r.state = s /\ r.finalized = context[c].finalized
      BY <1>1, <3>1 DEF Record, Waiting, Live
    <3>4. Sound(r) /\ Forward(context[c], r) BY <1>4, <3>1, <3>3 DEF Sound, Forward
    <3>. QED BY <1>3, <1>4, <3>2, <3>4
  <2>2. CASE Reject(c, k, e)
    <3>. DEFINE r == [context[c] EXCEPT !.state = "REJECTED", !.finalized = TRUE]
    <3>1. context' = [context EXCEPT ![c].state = "REJECTED", ![c].finalized = TRUE]
      BY <2>2 DEF Reject, Become
    <3>2. context' = [context EXCEPT ![c] = r] BY <1>1, <3>1
    <3>3. r \in Record /\ r.state = "REJECTED" /\ r.finalized BY <1>1 DEF Record, Terminal
    <3>4. Sound(r) /\ Forward(context[c], r) BY <1>4, <3>3 DEF Sound, Forward, Terminal
    <3>. QED BY <1>3, <1>4, <3>2, <3>4
  <2>3. CASE Refuse(c, k, e) BY <1>2, <2>3 DEF Refuse
  <2>. QED BY <1>4, <2>1, <2>2, <2>3
<1>5. ASSUME NEW u \in Caller, Register(u) \/ RegisterFromContext(u) PROVE Advanced
  <2>1. At(u, {"REGISTER", "NOTIFY"}) BY <1>5 DEF Register, RegisterFromContext, At
  <2>2. Wants(u).of \in Context /\ context[Wants(u).of].state = "NEW" /\ ~context[Wants(u).of].finalized
    BY <2>1, Entering
  <2>3. \E k, e : Enrol(Wants(u).of, k, e) \/ Reject(Wants(u).of, k, e) \/ Refuse(Wants(u).of, k, e)
    BY <1>5 DEF Register, RegisterFromContext
  <2>4. Enlists(Wants(u).of) BY <1>5 DEF Enlists
  <2>. QED BY <1>4, <2>2, <2>3, <2>4
<1>6. ASSUME NEW c \in Context, EndWork(c) PROVE Advanced
  <2>. DEFINE r == [context[c] EXCEPT !.ended = TRUE]
  <2>1. context' = [context EXCEPT ![c] = r] BY <1>1, <1>6 DEF EndWork
  <2>2. r \in Record /\ r.state = context[c].state /\ r.finalized = context[c].finalized
    BY <1>1 DEF Record
  <2>3. Sound(r) /\ Forward(context[c], r) BY <1>1, <2>2 DEF Sound, Forward
  <2>. QED BY <1>3, <2>1, <2>2, <2>3
<1>7. ASSUME NEW type \in Targeted, Handles(type) PROVE Due.of \in Context /\ Due \in Mail /\ Due.type = type
  BY <1>7, Targets DEF Handles
<1>8. ASSUME HandleRegistered PROVE Advanced
  <2>1. CASE UNCHANGED context BY <1>2, <2>1
  <2>2. CASE context[Due.of].state \in Waiting /\ context' = [context EXCEPT ![Due.of].state = "RUNNING"]
    <3>. DEFINE c == Due.of
                r == [context[c] EXCEPT !.state = "RUNNING"]
    <3>1. c \in Context BY <1>7, <1>8 DEF HandleRegistered, Targeted
    <3>2. context' = [context EXCEPT ![c] = r] BY <1>1, <2>2
    <3>3. r \in Record /\ r.state = "RUNNING" /\ r.finalized = context[c].finalized
      BY <1>1, <3>1 DEF Record, Live
    <3>4. ~context[c].finalized BY <1>1, <2>2, <3>1 DEF Sound, Waiting, Terminal
    <3>5. Sound(r) /\ Forward(context[c], r) BY <2>2, <3>3, <3>4 DEF Sound, Forward
    <3>6. context[c].state # "NEW" BY <2>2 DEF Waiting
    <3>. HIDE DEF c, r
    <3>. QED BY <1>3, <3>1, <3>2, <3>5, <3>6
  <2>. QED BY <1>8, <2>1, <2>2 DEF HandleRegistered, Become
<1>9. ASSUME NEW c \in Context PROVE Outcome(c) \in Terminal
  BY DEF Outcome, Terminal
<1>10. ASSUME HandleTerminated PROVE Advanced
  <2>. DEFINE c == Due.of
              r == [context[c] EXCEPT !.state = Outcome(c)]
  <2>1. c \in Context BY <1>7, <1>10 DEF HandleTerminated, Targeted
  <2>2. context[c].state # "NEW"
    <3>1. queue \in QueueOf(Known) /\ ~QueueEmpty /\ Due.type = "Terminated"
      BY <1>10 DEF Recorded, HandleTerminated, Handles
    <3>. QED BY <3>1, Collected DEF Known
  <2>3. context' = [context EXCEPT ![c] = r] BY <1>1, <1>10 DEF HandleTerminated, Become
  <2>4. r \in Record /\ r.state \in Terminal /\ r.finalized = context[c].finalized
    BY <1>1, <1>9, <2>1 DEF Record
  <2>5. Sound(r) /\ Forward(context[c], r) BY <2>2, <2>4 DEF Sound, Forward
  <2>. HIDE DEF c, r
  <2>. QED BY <1>3, <2>1, <2>2, <2>3, <2>5
<1>11. ASSUME HandleControl PROVE Advanced
  <2>. DEFINE c == Due.of
              r == IF Due.type = "Abort" THEN Aborted(context[c]) ELSE Stopped(context[c])
  <2>1. c \in Context BY <1>7, <1>11 DEF HandleControl, Targeted
  <2>2. Sound(r) /\ Forward(context[c], r) /\ (context[c].state = "NEW" => r.state = "NEW")
    BY <1>1, <2>1, Ended
  <2>3. context' = [context EXCEPT ![c] = r] BY <1>11 DEF HandleControl, Become
  <2>. HIDE DEF c, r
  <2>. QED BY <1>3, <2>1, <2>2, <2>3
<1>12. ASSUME Finalize PROVE Advanced
  <2>. DEFINE c == turn.of
              r == [context[c] EXCEPT !.finalized = TRUE]
  <2>1. c \in Context /\ context[c].state \in Terminal BY <1>12 DEF Finalize, Recorded
  <2>2. context' = [context EXCEPT ![c] = r] BY <1>1, <1>12 DEF Finalize, Become
  <2>3. r \in Record /\ r.state = context[c].state /\ r.finalized BY <1>1, <2>1 DEF Record
  <2>4. Sound(r) /\ Forward(context[c], r) BY <2>1, <2>3 DEF Sound, Forward
  <2>5. context[c].state # "NEW" BY <2>1 DEF Terminal
  <2>. HIDE DEF c, r
  <2>. QED BY <1>3, <2>1, <2>2, <2>4, <2>5
<1>13. ASSUME HandleShutdown \/ StopAuthority \/ Prepare PROVE Advanced
  <2>1. \E forced \in BOOLEAN : ShutDown(forced) BY <1>13 DEF HandleShutdown, StopAuthority, Prepare
  <2>. QED BY <2>1, Shutting
<1>14. ASSUME Drain PROVE Advanced
  <2>1. ASSUME NEW c \in Context
        PROVE  /\ Sound(context'[c]) /\ Forward(context[c], context'[c])
               /\ context[c].state = "NEW" => context'[c].state = "NEW"
    <3>1. CASE c \in registry.contexts
      <4>. DEFINE r == [context[c] EXCEPT !.state = Outcome(c), !.finalized = TRUE]
      <4>1. context'[c] = r BY <1>14, <3>1 DEF Drain, Become
      <4>2. r \in Record /\ r.state \in Terminal /\ r.finalized BY <1>1, <1>9 DEF Record
      <4>3. context[c].state # "NEW" BY <3>1 DEF Recorded
      <4>. QED BY <4>1, <4>2, <4>3 DEF Sound, Forward
    <3>2. CASE c \notin registry.contexts
      <4>1. context'[c] = context[c] BY <1>14, <3>2 DEF Drain, Become
      <4>. QED BY <1>1, <4>1 DEF Forward
    <3>. QED BY <3>1, <3>2
  <2>2. context' = [c \in Context |-> context'[c]] BY <1>14 DEF Drain, Become
  <2>. QED BY <2>1, <2>2 DEF Advanced, Sound
<1>15. ASSUME NEW u \in Caller,
              \/ Start(u) \/ Submit(u) \/ SubmitFromContext(u) \/ Wait(u) \/ List(u) \/ Control(u)
              \/ RequestShutdown(u) \/ Serve(u) \/ Shutdown(u) \/ Build(u) \/ BuildFails(u) \/ Started(u)
              \/ Wake(u) \/ Submitted(u) \/ StartAwaited(u) \/ Joined(u) \/ Own(u)
       PROVE  Advanced
  BY <1>2, <1>15 DEF Start, Submit, SubmitFromContext, Wait, List, Control, RequestShutdown, Serve,
     Shutdown, Build, BuildFails, Started, Wake, Submitted, StartAwaited, Joined, Own
<1>16. ASSUME Deliver \/ HandleIdle \/ Discard \/ Decide \/ Complete \/ FinishRun \/ ReportLoss \/ Lose PROVE Advanced
  BY <1>2, <1>16 DEF Deliver, HandleIdle, Discard, Decide, Complete, FinishRun, ReportLoss, Lose
<1>17. ASSUME FailerStarts \/ FailerNotStarted \/ Coordinate \/ Coordinated \/ Escalate \/ GiveUp
              \/ DrainTimesOut \/ CloseModules \/ CloseLoop \/ FinishCleanup
       PROVE  Advanced
  BY <1>2, <1>17 DEF FailerStarts, FailerNotStarted, Coordinate, Coordinated, Escalate, GiveUp,
     DrainTimesOut, CloseModules, CloseLoop, FinishCleanup
<1>18. CASE UNCHANGED vars BY <1>2, <1>18 DEF vars
<1>. QED
  BY <1>5, <1>6, <1>8, <1>10, <1>11, <1>12, <1>13, <1>14, <1>15, <1>16, <1>17, <1>18
     DEF Next, Begin, Continue, Coordinator, Cleanup

LEMMA Wider ==
    ASSUME NEW M, NEW N, M \subseteq N
    PROVE  (\A s \in Seq(M) : s \in Seq(N)) /\ (\A q \in QueueOf(M) : q \in QueueOf(N))
<1>1. ASSUME NEW s \in Seq(M) PROVE s \in Seq(N)
  <2>1. PICK n \in Nat : s \in [1..n -> M] BY SeqDef
  <2>2. s \in [1..n -> N] BY <2>1
  <2>. QED BY <2>2, SeqDef
<1>. QED BY <1>1 DEF QueueOf

LEMMA Idling ==
    ASSUME NEW M, NEW q \in QueueOf(M), Message("Idle", NoContext) \in M, NEW contexts
    PROVE  WithIdle(q, contexts) \in QueueOf(M)
BY Carried DEF WithIdle

\* Nothing is said of a context's end before the context is there.
LEMMA MailKept ==
    ASSUME TypeOK, Occupied, Recorded, Advanced, [Next]_vars
    PROVE  /\ calls' \in Seq(Known') /\ queue' \in QueueOf(Known')
           /\ calls' \in Seq(Mail) /\ queue' \in QueueOf(Mail)
<1>. DEFINE M == Known'
            Kept == calls' \in Seq(M) /\ queue' \in QueueOf(M)
<1>1. M \subseteq Mail BY DEF Known
<1>2. Known \subseteq M
  <2>0. ASSUME NEW c \in Context, context[c].state # "NEW" PROVE context'[c].state # "NEW"
    <3>1. Forward(context[c], context'[c]) BY DEF Advanced
    <3>. QED BY <2>0, <3>1 DEF Forward, Waiting, Terminal
  <2>1. ASSUME NEW m \in Known, m.type = "Terminated" PROVE context'[m.of].state # "NEW"
    <3>1. m.of \in Context /\ context[m.of].state # "NEW" BY <2>1 DEF Known, Mail, Targeted
    <3>. QED BY <2>0, <3>1
  <2>. QED BY <2>1 DEF Known
<1>3. ASSUME NEW m \in Mail, m.type # "Terminated" PROVE m \in M BY <1>3 DEF Known
<1>4. calls \in Seq(M) /\ queue \in QueueOf(M) BY <1>2, Wider DEF Recorded
<1>5. Message("Idle", NoContext) \in M /\ Message("Idle", NoContext) \in Mail
  <2>1. Message("Idle", NoContext) \in Mail /\ Message("Idle", NoContext).type # "Terminated"
    BY DEF Message, Mail, Targeted
  <2>. QED BY <1>3, <2>1
<1>6. ASSUME NEW m \in Mail, m.type # "Terminated", Later(m) PROVE calls' \in Seq(M)
  BY <1>3, <1>4, <1>6, AppendProperties DEF Later
<1>7. ASSUME NEW c \in Context
      PROVE  /\ Announced(c) \in Mail /\ Announced(c).type # "Terminated"
             /\ \A forced : Command(forced) \in Mail /\ Command(forced).type # "Terminated"
             /\ \A u : Requested(u) \in Mail /\ Requested(u).type # "Terminated"
             /\ \A type \in ContextMessages :
                   Message(type, c) \in Mail /\ Message(type, c).type # "Terminated"
  BY DEF Announced, Command, Requested, Message, Mail, Targeted, ContextMessages, ControlMessages
<1>. HIDE DEF M
<1>8. ~QueueEmpty => Taken \in QueueOf(M) BY <1>4, Collected
<1>9. ASSUME UNCHANGED <<calls, queue>> PROVE Kept BY <1>4, <1>9
<1>10. ASSUME NEW u \in Caller, Register(u) \/ RegisterFromContext(u) PROVE Kept
  <2>1. At(u, {"REGISTER", "NOTIFY"}) /\ UNCHANGED queue BY <1>10 DEF Register, RegisterFromContext, At
  <2>2. Wants(u).of \in Context BY <2>1, Entering
  <2>3. UNCHANGED calls \/ Later(Announced(Wants(u).of))
    BY <1>10 DEF Register, RegisterFromContext, Enrol, Reject, Refuse
  <2>. QED BY <1>4, <1>6, <1>7, <2>1, <2>2, <2>3
<1>11. ASSUME NEW u \in Caller, Control(u) PROVE Kept
  <2>1. caller[u].todo # << >> /\ Wants(u).op = "CONTROL" BY <1>11 DEF Control, Calls, Wants
  <2>2. Wants(u).of \in Context /\ Wants(u).type \in ContextMessages BY <2>1, Wanted DEF Operation
  <2>3. UNCHANGED queue /\ (UNCHANGED calls \/ Later(Message(Wants(u).type, Wants(u).of)))
    BY <1>11 DEF Control
  <2>. QED BY <1>4, <1>6, <1>7, <2>2, <2>3
<1>12. ASSUME NEW u \in Caller, RequestShutdown(u) PROVE Kept
  <2>1. UNCHANGED queue /\ (UNCHANGED calls \/ Later(Requested(u))) BY <1>12 DEF RequestShutdown
  <2>2. Requested(u) \in Mail /\ Requested(u).type # "Terminated" BY DEF Requested, Message, Mail, Targeted
  <2>. QED BY <1>4, <1>6, <2>1, <2>2
<1>13. ASSUME NEW c \in Context, EndWork(c) PROVE Kept
  <2>1. UNCHANGED queue /\ (UNCHANGED calls \/ Later(Message("Terminated", c))) BY <1>13 DEF EndWork
  <2>2. context[c].state # "NEW" BY <1>13 DEF EndWork
  <2>3. Message("Terminated", c) \in Known BY <2>2 DEF Known, Message, Mail, Targeted
  <2>. QED BY <1>2, <1>4, <2>1, <2>3, AppendProperties DEF Later
<1>14. ASSUME Deliver PROVE Kept BY <1>4, <1>14, Delivered
<1>15. ASSUME \/ HandleRegistered \/ HandleTerminated \/ HandleIdle \/ HandleControl \/ Discard \/ Lose
       PROVE  Kept
  <2>1. ~QueueEmpty /\ queue' = Taken /\ UNCHANGED calls
    BY <1>15 DEF HandleRegistered, HandleTerminated, HandleIdle, HandleControl, Discard, Lose, Handles
  <2>. QED BY <1>4, <1>8, <2>1
<1>16. ASSUME HandleShutdown PROVE Kept
  <2>1. ~QueueEmpty /\ queue' = WithIdle(Taken, registry'.contexts) /\ UNCHANGED calls
    BY <1>16 DEF HandleShutdown, Handles
  <2>. QED BY <1>4, <1>5, <1>8, <2>1, Idling
<1>17. ASSUME Finalize \/ StopAuthority PROVE Kept
  <2>1. UNCHANGED calls /\ \E contexts : queue' = WithIdle(queue, contexts) BY <1>17 DEF Finalize, StopAuthority
  <2>. QED BY <1>4, <1>5, <2>1, Idling
<1>18. ASSUME Coordinate \/ Escalate PROVE Kept
  <2>1. UNCHANGED queue /\ (UNCHANGED calls \/ \E forced : Later(Command(forced)))
    BY <1>18 DEF Coordinate, Escalate, Ask
  <2>2. ASSUME NEW forced PROVE Command(forced) \in Mail /\ Command(forced).type # "Terminated"
    BY DEF Command, Message, Mail, Targeted
  <2>. QED BY <1>4, <1>6, <2>1, <2>2
<1>19. ASSUME CloseLoop PROVE Kept
  <2>1. UNCHANGED queue /\ calls' = << >> BY <1>19 DEF CloseLoop
  <2>. QED BY <1>4, <2>1, EmptySeq
<1>20. ASSUME NEW u \in Caller,
              \/ Start(u) \/ Submit(u) \/ SubmitFromContext(u) \/ Wait(u) \/ List(u)
              \/ Serve(u) \/ Shutdown(u) \/ Build(u) \/ BuildFails(u) \/ Started(u)
              \/ Wake(u) \/ Submitted(u) \/ StartAwaited(u) \/ Joined(u) \/ Own(u)
       PROVE  Kept
  BY <1>9, <1>20 DEF Start, Submit, SubmitFromContext, Wait, List, Serve,
     Shutdown, Build, BuildFails, Started, Wake, Submitted, StartAwaited, Joined, Own
<1>21. ASSUME Decide \/ Complete \/ FinishRun \/ ReportLoss PROVE Kept
  BY <1>9, <1>21 DEF Decide, Complete, FinishRun, ReportLoss
<1>22. ASSUME FailerStarts \/ FailerNotStarted \/ Coordinated \/ GiveUp \/ Prepare \/ Drain
              \/ DrainTimesOut \/ CloseModules \/ FinishCleanup
       PROVE  Kept
  BY <1>9, <1>22 DEF FailerStarts, FailerNotStarted, Coordinated, GiveUp, Prepare, Drain,
     DrainTimesOut, CloseModules, FinishCleanup
<1>. HIDE DEF Kept
<1>23. ASSUME UNCHANGED vars PROVE Kept BY <1>9, <1>23 DEF vars
<1>24. Kept
  BY <1>10, <1>11, <1>12, <1>13, <1>14, <1>15, <1>16, <1>17, <1>18, <1>19, <1>20, <1>21, <1>22, <1>23
     DEF Next, Begin, Continue, Coordinator, Cleanup
<1>. QED BY <1>1, <1>24, Wider DEF M, Kept

LEMMA Closed ==
    ASSUME TypeOK, NEW C \in SUBSET Context, Close(C)
    PROVE  /\ Issued(auth') /\ runs' \in RunTable
           /\ auth'.closed = auth.closed
           /\ DOMAIN auth'.grants = DOMAIN auth.grants \ C /\ DOMAIN auth'.scopes = DOMAIN auth.scopes \ C
           /\ \A k \in DOMAIN auth'.grants : auth'.grants[k] = auth.grants[k]
           /\ \A c \in Context, k \in Capability :
                 runs'[c][k] = "ATTACHED" => runs[c][k] = "ATTACHED" /\ c \notin C /\ k \notin C
<1>1. Issued(auth) /\ runs \in RunTable BY DEF TypeOK, ContextType
<1>2. auth' = UnregisterContexts(auth, C) BY DEF Close
<1>3. runs' = [c \in Context |-> [k \in Capability |->
                   IF runs[c][k] = "ATTACHED" /\ (c \in C \/ k \in C) THEN "DETACHED" ELSE runs[c][k]]]
  BY DEF Close
<1>4. runs' \in RunTable BY <1>1, <1>3 DEF RunTable
<1>. QED BY <1>1, <1>2, <1>3, <1>4, Unregistering

LEMMA Enrolled ==
    ASSUME TypeOK, NEW c \in Context, NEW k \in Capability, NEW e, Enrol(c, k, e)
    PROVE  /\ registry' \in RegistryRecord /\ registry'.contexts = registry.contexts \cup {c}
           /\ registry'.requested = registry.requested /\ ~registry.requested
           /\ Issued(auth') /\ auth'.closed = auth.closed /\ ~auth.closed
           /\ DOMAIN auth'.grants = DOMAIN auth.grants \cup {c}
           /\ DOMAIN auth'.scopes = DOMAIN auth.scopes \cup {c}
           /\ \A g \in DOMAIN auth.grants : g # c => auth'.grants[g] = auth.grants[g]
           /\ runs' \in RunTable
           /\ \A d \in Context, g \in Capability :
                 runs'[d][g] = "ATTACHED" => runs[d][g] = "ATTACHED" \/ (d = c /\ g = k)
           /\ \A d \in Context : d # c => context'[d] = context[d]
           /\ context'[c].state \in Waiting
           /\ loop = "RUNNING"
<1>1. /\ registry \in RegistryRecord /\ Issued(auth) /\ runs \in RunTable
      /\ context \in [Context -> Record]
  BY DEF TypeOK, ContextType
<1>2. registry' = [registry EXCEPT !.contexts = @ \cup {c}] BY DEF Enrol
<1>3. registry' \in RegistryRecord /\ registry'.contexts = registry.contexts \cup {c}
      /\ registry'.requested = registry.requested
  BY <1>1, <1>2 DEF RegistryRecord
<1>4. auth' = RegisterContext(auth, c, About(c)) BY DEF Enrol
<1>5. ~registry.requested /\ ~auth.closed /\ loop = "RUNNING"
  BY DEF Enrol, Accepting, Reachable, Received, LoopAvailable
<1>6. runs' = [runs EXCEPT ![c][k] = "ATTACHED"] BY DEF Enrol
<1>7. runs' \in RunTable /\ \A d \in Context, g \in Capability :
          runs'[d][g] = "ATTACHED" => runs[d][g] = "ATTACHED" \/ (d = c /\ g = k)
  BY <1>1, <1>6 DEF RunTable
<1>8. context' = [context EXCEPT ![c].state = IF Supervising(c) THEN "VALIDATED" ELSE "QUEUED"]
  BY DEF Enrol, Become
<1>9. context'[c].state \in Waiting /\ \A d \in Context : d # c => context'[d] = context[d]
  BY <1>1, <1>8 DEF Record, Waiting
<1>. QED BY <1>1, <1>3, <1>4, <1>5, <1>7, <1>9, Registering

LEMMA Rejected ==
    ASSUME TypeOK, NEW c \in Context, NEW k \in Capability, NEW e, Reject(c, k, e)
    PROVE  /\ UNCHANGED <<registry, auth, calls>>
           /\ runs' \in RunTable
           /\ \A d \in Context, g \in Capability : runs'[d][g] = "ATTACHED" => runs[d][g] = "ATTACHED"
           /\ \A d \in Context : d # c => context'[d] = context[d]
           /\ context'[c].state = "REJECTED"
<1>1. runs \in RunTable /\ context \in [Context -> Record] BY DEF TypeOK, ContextType
<1>2. runs' = [runs EXCEPT ![c][k] = "DETACHED"] BY DEF Reject
<1>3. runs' \in RunTable /\ \A d \in Context, g \in Capability : runs'[d][g] = "ATTACHED" => runs[d][g] = "ATTACHED"
  BY <1>1, <1>2 DEF RunTable
<1>4. context' = [context EXCEPT ![c].state = "REJECTED", ![c].finalized = TRUE] BY DEF Reject, Become
<1>5. context'[c].state = "REJECTED" /\ \A d \in Context : d # c => context'[d] = context[d]
  BY <1>1, <1>4 DEF Record
<1>. QED BY <1>3, <1>5 DEF Reject

LEMMA RestTyped ==
    ASSUME TypeOK, Occupied, Recorded, [Next]_vars
    PROVE  turn' \in TurnRecord /\ registry' \in RegistryRecord /\ Issued(auth') /\ runs' \in RunTable
<1>. DEFINE Rest == turn' \in TurnRecord /\ registry' \in RegistryRecord /\ Issued(auth') /\ runs' \in RunTable
<1>1. turn \in TurnRecord /\ registry \in RegistryRecord /\ Issued(auth) /\ runs \in RunTable
  BY DEF TypeOK, ContextType
<1>2. ASSUME NEW at \in {"FINALIZE", "DECIDE", "REPORT"}, NEW c \in Context \cup {NoContext}, Then(at, c)
      PROVE  turn' \in TurnRecord
  BY <1>2 DEF Then, TurnRecord
<1>3. NoTurn \in TurnRecord BY DEF NoTurn, TurnRecord
<1>4. registry.contexts \subseteq Context BY <1>1 DEF RegistryRecord
<1>5. ASSUME UNCHANGED <<turn, registry, auth, runs>> PROVE Rest BY <1>1, <1>5
<1>6. ASSUME NEW u \in Caller, Register(u) \/ RegisterFromContext(u) PROVE Rest
  <2>1. At(u, {"REGISTER", "NOTIFY"}) /\ UNCHANGED turn BY <1>6 DEF Register, RegisterFromContext, At
  <2>2. Wants(u).of \in Context BY <2>1, Entering
  <2>3. Engine \in Capability /\ Capable(u) \in Capability BY Planned DEF Capability
  <2>4. PICK k \in Capability, e \in Bases : Enrol(Wants(u).of, k, e) \/ Reject(Wants(u).of, k, e) \/ Refuse(Wants(u).of, k, e)
    BY <1>6, <2>3 DEF Bases, Register, RegisterFromContext
  <2>5. CASE Enrol(Wants(u).of, k, e) BY <1>1, <2>1, <2>2, <2>5, Enrolled
  <2>6. CASE Reject(Wants(u).of, k, e) BY <1>1, <2>1, <2>2, <2>6, Rejected
  <2>7. CASE Refuse(Wants(u).of, k, e) BY <1>1, <2>1, <2>7 DEF Refuse
  <2>. QED BY <2>4, <2>5, <2>6, <2>7
<1>7. ASSUME NEW u \in Caller, List(u) PROVE Rest
  <2>. DEFINE k == Capable(u)
              seen == IF Active(auth, k)
                      THEN {c \in Visible(auth, k, registry.contexts) : MayAccess(auth, k, c)} ELSE {}
  <2>1. k \in Capability BY Planned
  <2>2. runs' = [c \in Context |-> IF c \in seen /\ runs[c][k] = "NONE"
                                   THEN [runs[c] EXCEPT ![k] = "ATTACHED"] ELSE runs[c]]
    BY <1>7 DEF List
  <2>. HIDE DEF k, seen
  <2>3. runs' \in RunTable BY <1>1, <2>1, <2>2 DEF RunTable
  <2>. QED BY <1>1, <1>7, <2>3 DEF List
<1>8. ASSUME NEW u \in Caller, Build(u) \/ BuildFails(u) PROVE Rest
  <2>1. auth' = Bootstrapped /\ UNCHANGED <<turn, registry, runs>> BY <1>8 DEF Build, BuildFails
  <2>. QED BY <1>1, <2>1, Issuing
<1>9. ASSUME HandleTerminated \/ HandleControl PROVE Rest
  <2>1. Due.of \in Context
    BY <1>9, Targets DEF HandleTerminated, HandleControl, Handles, Targeted
  <2>2. turn' = turn \/ Then("FINALIZE", Due.of) BY <1>9 DEF HandleTerminated, HandleControl
  <2>3. UNCHANGED <<registry, auth, runs>> BY <1>9 DEF HandleTerminated, HandleControl
  <2>. QED BY <1>1, <1>2, <2>1, <2>2, <2>3
<1>10. ASSUME Finalize PROVE Rest
  <2>1. turn.of \in Context BY <1>10 DEF Finalize, Recorded
  <2>2. Close({turn.of}) /\ registry' = [registry EXCEPT !.contexts = registry.contexts \ {turn.of}]
    BY <1>10 DEF Finalize
  <2>3. turn' = NoTurn \/ Then("DECIDE", turn.of) BY <1>10 DEF Finalize
  <2>4. registry' \in RegistryRecord BY <1>1, <2>2 DEF RegistryRecord
  <2>. QED BY <1>2, <1>3, <2>1, <2>2, <2>3, <2>4, Closed
<1>11. ASSUME HandleShutdown \/ StopAuthority \/ Prepare PROVE Rest
  <2>1. PICK forced \in BOOLEAN : ShutDown(forced) BY <1>11 DEF HandleShutdown, StopAuthority, Prepare
  <2>2. registry' \in RegistryRecord BY <2>1, Shutting
  <2>3. \E C \in SUBSET Context : Close(C) BY <1>4, <2>1 DEF ShutDown
  <2>4. UNCHANGED turn BY <1>11 DEF HandleShutdown, StopAuthority, Prepare
  <2>. QED BY <1>1, <2>2, <2>3, <2>4, Closed
<1>12. ASSUME Drain PROVE Rest
  <2>1. Close(registry.contexts) /\ registry' = [registry EXCEPT !.contexts = {}] /\ UNCHANGED turn
    BY <1>12 DEF Drain
  <2>2. registry' \in RegistryRecord BY <1>1, <2>1 DEF RegistryRecord
  <2>. QED BY <1>1, <1>4, <2>1, <2>2, Closed
<1>13. ASSUME Decide \/ Lose \/ ReportLoss PROVE Rest
  <2>1. turn' = NoTurn \/ Then("REPORT", NoContext) BY <1>13 DEF Decide, Lose, ReportLoss
  <2>2. UNCHANGED <<registry, auth, runs>> BY <1>13 DEF Decide, Lose, ReportLoss
  <2>. QED BY <1>1, <1>2, <1>3, <2>1, <2>2
<1>14. ASSUME CloseModules PROVE Rest
  <2>1. Issued(auth') /\ UNCHANGED turn BY <1>14, Closing DEF CloseModules
  <2>2. CASE registry.contexts = {}
    <3>1. registry' \in RegistryRecord BY <1>1, <1>14, <2>2 DEF CloseModules, RegistryRecord
    <3>2. runs' = [c \in Context |-> [k \in Capability |->
                          IF runs[c][k] = "NONE" THEN "NONE" ELSE "DETACHED"]]
      BY <1>14, <2>2 DEF CloseModules
    <3>3. runs' \in RunTable BY <3>2 DEF RunTable
    <3>. QED BY <1>1, <2>1, <3>1, <3>3
  <2>3. CASE registry.contexts # {}
    <3>1. UNCHANGED <<registry, runs>> BY <1>14, <2>3 DEF CloseModules
    <3>. QED BY <1>1, <2>1, <3>1
  <2>. QED BY <2>2, <2>3
<1>. HIDE DEF Rest
<1>15. ASSUME NEW u \in Caller,
              \/ Start(u) \/ Submit(u) \/ SubmitFromContext(u) \/ Wait(u) \/ Control(u)
              \/ RequestShutdown(u) \/ Serve(u) \/ Shutdown(u) \/ Started(u)
              \/ Wake(u) \/ Submitted(u) \/ StartAwaited(u) \/ Joined(u) \/ Own(u)
       PROVE  Rest
  BY <1>5, <1>15 DEF Start, Submit, SubmitFromContext, Wait, Control, RequestShutdown, Serve,
     Shutdown, Started, Wake, Submitted, StartAwaited, Joined, Own
<1>16. ASSUME \/ \E c \in Context : EndWork(c)
              \/ Deliver \/ HandleRegistered \/ HandleIdle \/ Discard \/ Complete \/ FinishRun
       PROVE  Rest
  BY <1>5, <1>16 DEF EndWork, Deliver, HandleRegistered, HandleIdle, Discard, Complete, FinishRun
<1>17. ASSUME FailerStarts \/ FailerNotStarted \/ Coordinate \/ Coordinated \/ Escalate \/ GiveUp
              \/ DrainTimesOut \/ CloseLoop \/ FinishCleanup
       PROVE  Rest
  BY <1>5, <1>17 DEF FailerStarts, FailerNotStarted, Coordinate, Coordinated, Escalate, GiveUp,
     DrainTimesOut, CloseLoop, FinishCleanup
<1>18. ASSUME UNCHANGED vars PROVE Rest BY <1>5, <1>18 DEF vars
<1>19. Rest
  BY <1>6, <1>7, <1>8, <1>9, <1>10, <1>11, <1>12, <1>13, <1>14, <1>15, <1>16, <1>17, <1>18
     DEF Next, Begin, Continue, Coordinator, Cleanup
<1>. QED BY <1>19 DEF Rest

LEMMA TypesKept ==
    ASSUME TypeOK, Occupied, Locked, Recorded, [Next]_vars
    PROVE  TypeOK' /\ Occupied' /\ Advanced
<1>1. Advanced BY ContextsAdvance
<1>2. EngineType' BY EngineTyped
<1>3. CallerType' /\ Occupied' BY CallerTyped
<1>4. ContextType'
  <2>1. calls' \in Seq(Mail) /\ queue' \in QueueOf(Mail) BY <1>1, MailKept
  <2>2. turn' \in TurnRecord /\ registry' \in RegistryRecord /\ Issued(auth') /\ runs' \in RunTable
    BY RestTyped
  <2>3. context' \in [Context -> Record] BY <1>1 DEF Advanced
  <2>. QED BY <2>1, <2>2, <2>3 DEF ContextType
<1>. QED BY <1>1, <1>2, <1>3, <1>4 DEF TypeOK

-----------------------------------------------------------------------------
(* What threads have still to call                                           *)

Kept(u) == caller'[u].todo = caller[u].todo /\ (caller[u].at = "SUBMITTED" => caller'[u].at = "SUBMITTED")
Done(u) == caller[u].todo # << >> /\ caller'[u].todo = Tail(caller[u].todo)

LEMMA CallsGoOn ==
    ASSUME TypeOK, Occupied, Locked, [Next]_vars
    PROVE  \A u \in Caller : Kept(u) \/ Done(u)
<1>1. ASSUME UNCHANGED caller PROVE \A v \in Caller : Kept(v) \/ Done(v) BY <1>1 DEF Kept
<1>2. ASSUME NEW u \in Caller, NEW at \in Phase, To(u, at), caller[u].at # "SUBMITTED"
      PROVE  \A v \in Caller : Kept(v) \/ Done(v)
  BY <1>2, Going DEF Kept
<1>3. ASSUME NEW u \in Caller, Return(u), caller[u].todo # << >>
      PROVE  \A v \in Caller : Kept(v) \/ Done(v)
  BY <1>3, Returning DEF Kept, Done
<1>4. ASSUME NEW u \in Caller, NEW op, Calls(u, op) PROVE caller[u].todo # << >> /\ caller[u].at = "IDLE"
  BY <1>4 DEF Calls
<1>5. ASSUME NEW u \in Caller, caller[u].at # "IDLE" PROVE caller[u].todo # << >>
  BY <1>5 DEF Occupied
<1>. DEFINE G == \A v \in Caller : Kept(v) \/ Done(v)
<1>. HIDE DEF G
<1>6. ASSUME NEW u \in Caller, Begin(u) PROVE G
  <2>1. caller[u].todo # << >> /\ caller[u].at = "IDLE"
    BY <1>4, <1>6 DEF Begin, Start, Submit, SubmitFromContext, Wait, List, Control, RequestShutdown, Serve, Shutdown
  <2>2. Return(u) \/ \E at \in Phase : To(u, at)
    BY <1>6 DEF Phase, Begin, Start, Submit, SubmitFromContext, Wait, List, Control, RequestShutdown, Serve, Shutdown
  <2>. QED BY <1>2, <1>3, <2>1, <2>2 DEF G
<1>7. ASSUME NEW u \in Caller, Continue(u) \/ BuildFails(u) PROVE G
  <2>1. caller[u].todo # << >>
    BY <1>5, <1>7 DEF Continue, Build, Started, Wake, Register, Submitted, RegisterFromContext, StartAwaited, Joined,
                      Own, BuildFails
  <2>2. Return(u) \/ (caller[u].at # "SUBMITTED" /\ \E at \in Phase : To(u, at))
    BY <1>7 DEF Phase, Continue, Build, Started, Wake, Register, Submitted, RegisterFromContext, StartAwaited,
                Joined, Own, BuildFails
  <2>. QED BY <1>2, <1>3, <2>1, <2>2 DEF G
<1>8. ASSUME FinishCleanup PROVE G
  <2>1. CASE cleanup.by = Failer BY <1>1, <1>8, <2>1 DEF FinishCleanup, G
  <2>2. CASE cleanup.by # Failer
    <3>1. cleanup.by \in Caller /\ caller[cleanup.by].todo # << >> BY <1>8, <2>2, Cleans DEF FinishCleanup
    <3>. QED BY <1>3, <1>8, <2>2, <3>1 DEF FinishCleanup, G
  <2>. QED BY <2>1, <2>2
<1>9. ASSUME (\E c \in Context : EndWork(c)) \/ Deliver \/ Coordinator \/ Lose PROVE G
  BY <1>1, <1>9 DEF G, EndWork, Deliver, Coordinator, HandleRegistered, HandleTerminated, HandleIdle,
     HandleControl, Discard, HandleShutdown, Finalize, Decide, StopAuthority, Complete, FinishRun,
     ReportLoss, Lose
<1>10. ASSUME FailerStarts \/ FailerNotStarted \/ Coordinate \/ Coordinated \/ Escalate \/ GiveUp \/ Prepare
              \/ Drain \/ DrainTimesOut \/ CloseModules \/ CloseLoop
       PROVE  G
  BY <1>1, <1>10 DEF G, FailerStarts, FailerNotStarted, Coordinate, Coordinated, Escalate, GiveUp, Prepare, Drain,
     DrainTimesOut, CloseModules, CloseLoop
<1>11. ASSUME UNCHANGED vars PROVE G BY <1>1, <1>11 DEF G, vars
<1>12. G BY <1>6, <1>7, <1>8, <1>9, <1>10, <1>11 DEF Next, Cleanup
<1>. QED BY <1>12 DEF G

LEMMA SubmissionsKept ==
    ASSUME TypeOK, Occupied, Locked, Recorded, Advanced, [Next]_vars
    PROVE  SubmitsOnce([u \in Caller |-> caller[u].todo])' /\ Fresh'
<1>1. ASSUME NEW u \in Caller, NEW i \in DOMAIN caller'[u].todo
      PROVE  /\ caller'[u].todo = caller[u].todo
                => i \in DOMAIN caller[u].todo /\ caller'[u].todo[i] = caller[u].todo[i]
             /\ Done(u) => /\ i + 1 \in DOMAIN caller[u].todo /\ i \in Nat /\ i # 0
                           /\ caller'[u].todo[i] = caller[u].todo[i + 1]
  <2>1. caller[u].todo \in Seq(Operation) BY DEF TypeOK, CallerType, CallerRecord
  <2>2. ASSUME Done(u)
        PROVE  /\ i + 1 \in DOMAIN caller[u].todo /\ i \in Nat /\ i # 0
               /\ caller'[u].todo[i] = caller[u].todo[i + 1]
    <3>. DEFINE s == caller[u].todo
    <3>1. s \in Seq(Operation) /\ s # << >> /\ caller'[u].todo = Tail(s) BY <2>1, <2>2 DEF Done
    <3>. HIDE DEF s
    <3>2. i \in DOMAIN Tail(s) BY <3>1
    <3>3. i + 1 \in DOMAIN s /\ i # 0 /\ i \in Nat /\ Tail(s)[i] = s[i + 1] BY <3>1, <3>2, Taking
    <3>. QED BY <3>1, <3>3 DEF s
  <2>. QED BY <2>2
<1>2. \A u \in Caller : Kept(u) \/ Done(u) BY CallsGoOn
<1>5. ASSUME NEW u \in Caller, Done(u) PROVE caller'[u].todo # caller[u].todo
  <2>1. caller[u].todo \in Seq(Operation) BY DEF TypeOK, CallerType, CallerRecord
  <2>2. Len(Tail(caller[u].todo)) # Len(caller[u].todo)
    BY <1>5, <2>1, HeadTailProperties, LenProperties, EmptySeq DEF Done
  <2>. QED BY <1>5, <2>2 DEF Done
<1>3. SubmitsOnce([u \in Caller |-> caller[u].todo])'
  <2>. DEFINE old == [w \in Caller |-> caller[w].todo]
              new == [w \in Caller |-> caller'[w].todo]
  <2>0. SubmitsOnce(old) BY DEF Recorded
  <2>1. ASSUME NEW u \in Caller, NEW v \in Caller, NEW i \in DOMAIN new[u], NEW j \in DOMAIN new[v],
               new[u][i].op \in Enters, new[v][j].op \in Enters, new[u][i].of = new[v][j].of
        PROVE  u = v /\ i = j
    <3>. DEFINE At0(w, n) == IF Done(w) THEN n + 1 ELSE n
    <3>1. ASSUME NEW w \in Caller, NEW n \in DOMAIN new[w]
          PROVE  At0(w, n) \in DOMAIN old[w] /\ new[w][n] = old[w][At0(w, n)] /\ (Done(w) => n \in Nat)
      BY <1>1, <1>2, <3>1 DEF Kept
    <3>. HIDE DEF old, new, At0
    <3>2. u = v /\ At0(u, i) = At0(v, j)
      <4>1. /\ At0(u, i) \in DOMAIN old[u] /\ new[u][i] = old[u][At0(u, i)]
            /\ At0(v, j) \in DOMAIN old[v] /\ new[v][j] = old[v][At0(v, j)]
        BY <3>1
      <4>. QED BY <2>0, <2>1, <4>1 DEF SubmitsOnce
    <3>3. i = j BY <3>1, <3>2 DEF At0
    <3>. QED BY <3>2, <3>3
  <2>. HIDE DEF old, new
  <2>2. SubmitsOnce(new) BY <2>1 DEF SubmitsOnce
  <2>. QED BY <2>2 DEF new
<1>4. Fresh'
  <2>1. SUFFICES ASSUME NEW u \in Caller, NEW i \in DOMAIN caller'[u].todo,
                        caller'[u].todo[i].op \in Enters, ~(i = 1 /\ caller'[u].at = "SUBMITTED")
                 PROVE  context'[caller'[u].todo[i].of].state = "NEW"
    BY DEF Fresh
  <2>. DEFINE j == IF caller'[u].todo = caller[u].todo THEN i ELSE i + 1
              o == caller[u].todo[j]
  <2>2. j \in DOMAIN caller[u].todo /\ caller'[u].todo[i] = o BY <1>1, <1>2 DEF Kept
  <2>3. ~(j = 1 /\ caller[u].at = "SUBMITTED")
    <3>1. CASE Kept(u) BY <2>1, <3>1 DEF Kept
    <3>2. CASE ~Kept(u)
      <4>1. Done(u) BY <1>2, <3>2
      <4>. QED BY <1>1, <1>5, <4>1
    <3>. QED BY <3>1, <3>2
  <2>4. o.op \in Enters /\ o.of \in Context /\ context[o.of].state = "NEW"
    <3>1. caller[u].todo \in Seq(Operation) BY DEF TypeOK, CallerType, CallerRecord
    <3>2. o \in Operation BY <2>2, <3>1, LenProperties, ElementOfSeq
    <3>. QED BY <2>1, <2>2, <2>3, <3>2 DEF Recorded, Fresh, Operation
  <2>5. ASSUME Enlists(o.of) PROVE FALSE
    <3>1. PICK v \in Caller : (Register(v) \/ RegisterFromContext(v)) /\ Wants(v).of = o.of
      BY <2>5 DEF Enlists
    <3>2. At(v, {"REGISTER", "NOTIFY"}) BY <3>1 DEF Register, RegisterFromContext, At
    <3>3. u = v /\ j = 1 BY <2>2, <2>4, <3>1, <3>2, Entering
    <3>4. caller[u].todo # << >> BY <3>2, <3>3 DEF Occupied, At
    <3>5. CASE Register(u)
      <4>1. caller'[u].at = "SUBMITTED" /\ caller'[u].todo = caller[u].todo
        BY <3>5, Going DEF Register, Phase
      <4>. QED BY <2>1, <3>3, <4>1
    <3>6. CASE RegisterFromContext(u)
      <4>1. caller'[u].todo = Tail(caller[u].todo) /\ Done(u)
        BY <3>4, <3>6, Returning DEF RegisterFromContext, Done
      <4>2. i + 1 \in DOMAIN caller[u].todo /\ i \in Nat /\ i # 0 BY <1>1, <4>1
      <4>. QED BY <1>5, <3>3, <4>1, <4>2
    <3>. QED BY <3>1, <3>3, <3>5, <3>6
  <2>6. ASSUME NEW c \in Context, context[c].state = "NEW", ~Enlists(c) PROVE context'[c].state = "NEW"
    BY <2>6 DEF Advanced
  <2>. HIDE DEF o
  <2>. QED BY <2>2, <2>4, <2>5, <2>6
<1>. QED BY <1>3, <1>4

-----------------------------------------------------------------------------
(* Contexts and the registry                                                 *)

\* Whatever has begun and not ended is registered, and only that.
Agree ==
    /\ \A c \in Context : c \notin registry.contexts => context[c].state \in {"NEW"} \cup Terminal
    /\ \A c \in Context : c \in registry.contexts => context[c].state # "NEW"
    /\ turn.at = "FINALIZE" => turn.of \in Context /\ context[turn.of].state \in Terminal

LEMMA AgreeKept ==
    ASSUME TypeOK, Occupied, Recorded, Advanced, [Next]_vars
    PROVE  Agree'
<1>1. registry.contexts \subseteq Context /\ Agree
  BY DEF TypeOK, ContextType, RegistryRecord, Recorded, Agree
<1>2. ASSUME NEW c \in Context
      PROVE  /\ Forward(context[c], context'[c]) /\ Sound(context'[c])
             /\ context[c].state # "NEW" => context'[c].state # "NEW"
             /\ context[c].state \in Terminal => context'[c].state \in Terminal
             /\ context[c].state = "NEW" => context'[c].state = "NEW" \/ Enlists(c)
  <2>1. /\ Forward(context[c], context'[c]) /\ Sound(context'[c])
        /\ context[c].state = "NEW" => context'[c].state = "NEW" \/ Enlists(c)
    BY DEF Advanced
  <2>. QED BY <2>1 DEF Forward, Waiting, Terminal
<1>3. UNCHANGED turn => (turn'.at = "FINALIZE" => turn'.of \in Context /\ context'[turn'.of].state \in Terminal)
  BY <1>1, <1>2 DEF Agree
\* Registrations
<1>4. ASSUME NEW u \in Caller, Register(u) \/ RegisterFromContext(u) PROVE Agree'
  <2>1. At(u, {"REGISTER", "NOTIFY"}) /\ UNCHANGED turn BY <1>4 DEF Register, RegisterFromContext, At
  <2>2. Wants(u).of \in Context /\ Wants(u).of \notin registry.contexts BY <2>1, Entering
  <2>3. Engine \in Capability /\ Capable(u) \in Capability BY Planned DEF Capability
  <2>4. PICK k \in Capability, e \in Bases : Enrol(Wants(u).of, k, e) \/ Reject(Wants(u).of, k, e) \/ Refuse(Wants(u).of, k, e)
    BY <1>4, <2>3 DEF Bases, Register, RegisterFromContext
  <2>. DEFINE c == Wants(u).of
  <2>. HIDE DEF c
  <2>5. CASE Enrol(c, k, e)
    <3>1. /\ registry'.contexts = registry.contexts \cup {c} /\ context'[c].state \in Waiting
          /\ \A d \in Context : d # c => context'[d] = context[d]
      BY <2>2, <2>5, Enrolled DEF c
    <3>. QED BY <1>1, <1>3, <2>1, <3>1 DEF Agree, Waiting
  <2>6. CASE Reject(c, k, e)
    <3>1. /\ UNCHANGED registry /\ context'[c].state = "REJECTED"
          /\ \A d \in Context : d # c => context'[d] = context[d]
      BY <2>2, <2>6, Rejected DEF c
    <3>. QED BY <1>1, <1>3, <2>1, <3>1 DEF Agree, Terminal
  <2>7. CASE Refuse(c, k, e)
    <3>1. UNCHANGED <<registry, context>> BY <2>7 DEF Refuse
    <3>. QED BY <1>1, <1>3, <2>1, <3>1 DEF Agree
  <2>. QED BY <2>4, <2>5, <2>6, <2>7 DEF c
<1>6. ASSUME HandleShutdown \/ StopAuthority \/ Prepare PROVE Agree'
  <2>1. \E forced \in BOOLEAN : ShutDown(forced) BY <1>6 DEF HandleShutdown, StopAuthority, Prepare
  <2>2. /\ registry'.contexts = {c \in registry.contexts : ~context'[c].finalized}
        /\ \A c \in Context : c \notin registry.contexts => context'[c] = context[c]
    BY <2>1, Shutting
  <2>3. UNCHANGED turn BY <1>6 DEF HandleShutdown, StopAuthority, Prepare
  <2>. QED BY <1>1, <1>2, <1>3, <2>2, <2>3 DEF Agree, Sound
<1>7. ASSUME Drain PROVE Agree'
  <2>1. registry'.contexts = {} /\ UNCHANGED turn
    BY <1>7 DEF Drain, TypeOK, ContextType, RegistryRecord
  <2>2. ASSUME NEW c \in Context PROVE context'[c].state \in {"NEW"} \cup Terminal
    <3>1. CASE c \in registry.contexts
      <4>1. context'[c] = [context[c] EXCEPT !.state = Outcome(c), !.finalized = TRUE]
        BY <1>7, <3>1 DEF Drain, Become
      <4>2. context[c] \in Record BY DEF TypeOK, ContextType
      <4>. QED BY <4>1, <4>2 DEF Outcome, Record, Terminal
    <3>2. CASE c \notin registry.contexts
      <4>1. context'[c] = context[c] BY <1>7, <3>2 DEF Drain, Become
      <4>. QED BY <1>1, <3>2, <4>1 DEF Agree
    <3>. QED BY <3>1, <3>2
  <2>. QED BY <1>3, <2>1, <2>2 DEF Agree
<1>8. ASSUME Finalize PROVE Agree'
  <2>. DEFINE c == turn.of
  <2>1. c \in Context /\ context[c].state \in Terminal BY <1>1, <1>8 DEF Finalize, Agree
  <2>2. registry'.contexts = registry.contexts \ {c}
    BY <1>8 DEF Finalize, TypeOK, ContextType, RegistryRecord
  <2>3. context' = [context EXCEPT ![c].finalized = TRUE] BY <1>8 DEF Finalize, Become
  <2>4. context'[c].state = context[c].state /\ \A d \in Context : d # c => context'[d] = context[d]
    BY <2>1, <2>3 DEF TypeOK, ContextType, Record
  <2>5. turn'.at # "FINALIZE" BY <1>8 DEF Finalize, Then, NoTurn
  <2>. HIDE DEF c
  <2>. QED BY <1>1, <2>1, <2>2, <2>4, <2>5 DEF Agree
\* Nothing enters or leaves the registry, and every context goes forward.
<1>9. ASSUME registry'.contexts = registry.contexts, UNCHANGED context,
             turn' = turn \/ turn'.at # "FINALIZE"
      PROVE  Agree'
  BY <1>1, <1>9 DEF Agree
<1>10. ASSUME UNCHANGED registry, NEW c \in Context, \A d \in Context : d # c => context'[d] = context[d],
              context[c].state # "NEW", c \notin registry.contexts => context[c].state \in Terminal,
              turn' = turn \/ (turn'.of = c /\ context'[c].state \in Terminal)
       PROVE  Agree'
  BY <1>1, <1>2, <1>10 DEF Agree
<1>11. ASSUME NEW c \in Context, context[c].state # "NEW"
       PROVE  c \notin registry.contexts => context[c].state \in Terminal
  BY <1>1, <1>11 DEF Agree
<1>12. ASSUME NEW c \in Context, EndWork(c) PROVE Agree'
  <2>1. context[c].state # "NEW" /\ UNCHANGED <<registry, turn>> BY <1>12 DEF EndWork
  <2>2. \A d \in Context : d # c => context'[d] = context[d] BY <1>12 DEF EndWork, TypeOK, ContextType
  <2>. QED BY <1>10, <1>11, <2>1, <2>2
<1>13. ASSUME HandleRegistered \/ HandleTerminated PROVE Agree'
  <2>. DEFINE c == Due.of
  <2>0. ~QueueEmpty BY <1>13 DEF HandleRegistered, HandleTerminated, Handles
  <2>1. c \in Context /\ UNCHANGED registry
    BY <1>13, Targets DEF HandleRegistered, HandleTerminated, Handles, Targeted
  <2>2. CASE UNCHANGED context /\ UNCHANGED turn BY <1>9, <2>1, <2>2
  <2>3. CASE ~(UNCHANGED context /\ UNCHANGED turn)
    <3>1. context[c].state # "NEW"
      <4>1. CASE HandleRegistered BY <2>3, <4>1 DEF HandleRegistered, Waiting
      <4>2. CASE HandleTerminated
        <5>1. queue \in QueueOf(Known) /\ ~QueueEmpty /\ Due.type = "Terminated"
          BY <4>2 DEF Recorded, HandleTerminated, Handles
        <5>. QED BY <5>1, Collected DEF Known
      <4>. QED BY <1>13, <4>1, <4>2
    <3>2. /\ \A d \in Context : d # c => context'[d] = context[d]
          /\ turn' = turn \/ (turn'.of = c /\ context'[c].state \in Terminal)
      <4>1. CASE HandleRegistered
        BY <2>3, <4>1 DEF HandleRegistered, Become, TypeOK, ContextType
      <4>2. CASE HandleTerminated
        <5>1. context' = [context EXCEPT ![c].state = Outcome(c)] /\ turn'.of = c
          BY <4>2 DEF HandleTerminated, Become, Then
        <5>2. context'[c].state = Outcome(c) /\ \A d \in Context : d # c => context'[d] = context[d]
          BY <2>1, <5>1 DEF TypeOK, ContextType, Record
        <5>. QED BY <5>1, <5>2 DEF Outcome, Terminal
      <4>. QED BY <1>13, <4>1, <4>2
    <3>. HIDE DEF c
    <3>. QED BY <1>10, <1>11, <2>1, <3>1, <3>2
  <2>. QED BY <2>2, <2>3
<1>14. ASSUME HandleControl PROVE Agree'
  <2>. DEFINE c == Due.of
              r == IF Due.type = "Abort" THEN Aborted(context[c]) ELSE Stopped(context[c])
  <2>1. c \in Context /\ UNCHANGED registry BY <1>14, Targets DEF HandleControl, Handles, Targeted
  <2>2. context' = [context EXCEPT ![c] = r] BY <1>14 DEF HandleControl, Become
  <2>3. turn' = turn \/ (r.state \in Terminal /\ turn'.of = c) BY <1>14 DEF HandleControl, Then
  <2>4. Sound(context[c]) BY <2>1 DEF TypeOK, ContextType, Recorded, Sound
  <2>5. context[c].state \in {"NEW"} \cup Terminal => r = context[c] BY <2>4, Ended
  <2>. HIDE DEF c, r
  <2>6. context'[c] = r /\ \A d \in Context : d # c => context'[d] = context[d]
    BY <2>1, <2>2 DEF TypeOK, ContextType
  <2>7. CASE context[c].state = "NEW"
    <3>1. context' = context BY <2>1, <2>2, <2>5, <2>7 DEF TypeOK, ContextType
    <3>2. turn' = turn BY <2>3, <2>5, <2>7 DEF Terminal
    <3>. QED BY <1>9, <2>1, <3>1, <3>2
  <2>8. CASE context[c].state # "NEW" BY <1>10, <1>11, <2>1, <2>3, <2>6, <2>8
  <2>. QED BY <2>7, <2>8
<1>15. ASSUME Decide \/ Lose \/ ReportLoss PROVE Agree'
  <2>1. UNCHANGED <<registry, context>> /\ turn'.at # "FINALIZE"
    BY <1>15 DEF Decide, Lose, ReportLoss, Then, NoTurn
  <2>. QED BY <1>9, <2>1
<1>16. ASSUME CloseModules PROVE Agree'
  <2>1. UNCHANGED <<context, turn>> BY <1>16 DEF CloseModules
  <2>2. registry'.contexts = registry.contexts
    BY <1>16 DEF CloseModules, TypeOK, ContextType, RegistryRecord
  <2>. QED BY <1>9, <2>1, <2>2
<1>17. ASSUME UNCHANGED <<registry, context, turn>> PROVE Agree' BY <1>9, <1>17
<1>18. ASSUME NEW u \in Caller,
              \/ Start(u) \/ Submit(u) \/ SubmitFromContext(u) \/ Wait(u) \/ Control(u) \/ List(u)
              \/ RequestShutdown(u) \/ Serve(u) \/ Shutdown(u) \/ Started(u) \/ Build(u) \/ BuildFails(u)
              \/ Wake(u) \/ Submitted(u) \/ StartAwaited(u) \/ Joined(u) \/ Own(u)
       PROVE  Agree'
  BY <1>17, <1>18 DEF Start, Submit, SubmitFromContext, Wait, Control, List, RequestShutdown, Serve, Shutdown,
     Started, Build, BuildFails, Wake, Submitted, StartAwaited, Joined, Own
<1>19. ASSUME Deliver \/ HandleIdle \/ Discard \/ Complete \/ FinishRun PROVE Agree'
  BY <1>17, <1>19 DEF Deliver, HandleIdle, Discard, Complete, FinishRun
<1>20. ASSUME FailerStarts \/ FailerNotStarted \/ Coordinate \/ Coordinated \/ Escalate \/ GiveUp
              \/ DrainTimesOut \/ CloseLoop \/ FinishCleanup
       PROVE  Agree'
  BY <1>17, <1>20 DEF FailerStarts, FailerNotStarted, Coordinate, Coordinated, Escalate, GiveUp,
     DrainTimesOut, CloseLoop, FinishCleanup
<1>21. ASSUME UNCHANGED vars PROVE Agree' BY <1>17, <1>21 DEF vars
<1>. QED
  BY <1>4, <1>6, <1>7, <1>8, <1>12, <1>13, <1>14, <1>15, <1>16, <1>18, <1>19, <1>20, <1>21
     DEF Next, Begin, Continue, Coordinator, Cleanup

LEMMA RecordedKept ==
    ASSUME TypeOK, Occupied, Locked, Recorded, Advanced, [Next]_vars
    PROVE  Recorded'
<1>1. Agree' BY AgreeKept
<1>2. calls' \in Seq(Known') /\ queue' \in QueueOf(Known') BY MailKept
<1>3. SubmitsOnce([u \in Caller |-> caller[u].todo])' /\ Fresh' BY SubmissionsKept
<1>4. \A c \in Context : context'[c].finalized => context'[c].state \in Terminal BY DEF Advanced, Sound
<1>. QED BY <1>1, <1>2, <1>3, <1>4 DEF Recorded, Agree

-----------------------------------------------------------------------------
(* Waits tell the truth                                                      *)

LEMMA NobodyElseWaits ==
    ASSUME TypeOK, Occupied, Locked, [Next]_vars, NEW v \in Caller, caller'[v].at = "WAITS", ~Wait(v)
    PROVE  caller[v].at = "WAITS"
<1>1. ASSUME UNCHANGED caller PROVE caller[v].at = "WAITS" BY <1>1
<1>2. ASSUME NEW u \in Caller, NEW at \in Phase, To(u, at), u # v \/ at # "WAITS" PROVE caller[v].at = "WAITS"
  BY <1>2, Going
<1>3. ASSUME NEW u \in Caller, Return(u), caller[u].todo # << >> PROVE caller[v].at = "WAITS"
  BY <1>3, Returning
<1>4. ASSUME NEW u \in Caller, NEW op, Calls(u, op) PROVE caller[u].todo # << >> BY <1>4 DEF Calls
<1>5. ASSUME NEW u \in Caller, Begin(u) PROVE caller[v].at = "WAITS"
  <2>1. caller[u].todo # << >>
    BY <1>4, <1>5 DEF Begin, Start, Submit, SubmitFromContext, Wait, List, Control, RequestShutdown, Serve, Shutdown
  <2>2. CASE Wait(u)
    <3>1. Return(u) \/ To(u, "WAITS") BY <2>2 DEF Wait
    <3>2. u # v BY <2>2
    <3>. QED BY <1>2, <1>3, <2>1, <3>1, <3>2 DEF Phase
  <2>3. CASE ~Wait(u)
    <3>1. Return(u) \/ \E at \in Phase \ {"WAITS"} : To(u, at)
      BY <1>5, <2>3 DEF Phase, Begin, Start, Submit, SubmitFromContext, List, Control, RequestShutdown, Serve, Shutdown
    <3>. QED BY <1>2, <1>3, <2>1, <3>1
  <2>. QED BY <2>2, <2>3
<1>6. ASSUME NEW u \in Caller, Continue(u) \/ BuildFails(u) PROVE caller[v].at = "WAITS"
  <2>1. caller[u].todo # << >>
    BY <1>6 DEF Continue, Build, Started, Wake, Register, Submitted, RegisterFromContext, StartAwaited, Joined,
                Own, BuildFails, Occupied
  <2>2. Return(u) \/ \E at \in Phase \ {"WAITS"} : To(u, at)
    BY <1>6 DEF Phase, Continue, Build, Started, Wake, Register, Submitted, RegisterFromContext, StartAwaited,
                Joined, Own, BuildFails
  <2>. QED BY <1>2, <1>3, <2>1, <2>2
<1>7. ASSUME FinishCleanup PROVE caller[v].at = "WAITS"
  <2>1. CASE cleanup.by = Failer BY <1>1, <1>7, <2>1 DEF FinishCleanup
  <2>2. CASE cleanup.by # Failer
    <3>1. cleanup.by \in Caller /\ caller[cleanup.by].todo # << >> BY <1>7, <2>2, Cleans DEF FinishCleanup
    <3>. QED BY <1>3, <1>7, <2>2, <3>1 DEF FinishCleanup
  <2>. QED BY <2>1, <2>2
<1>8. ASSUME (\E c \in Context : EndWork(c)) \/ Deliver \/ Coordinator \/ Lose PROVE caller[v].at = "WAITS"
  BY <1>1, <1>8 DEF EndWork, Deliver, Coordinator, HandleRegistered, HandleTerminated, HandleIdle,
     HandleControl, Discard, HandleShutdown, Finalize, Decide, StopAuthority, Complete, FinishRun,
     ReportLoss, Lose
<1>9. ASSUME FailerStarts \/ FailerNotStarted \/ Coordinate \/ Coordinated \/ Escalate \/ GiveUp \/ Prepare
             \/ Drain \/ DrainTimesOut \/ CloseModules \/ CloseLoop
      PROVE  caller[v].at = "WAITS"
  BY <1>1, <1>9 DEF FailerStarts, FailerNotStarted, Coordinate, Coordinated, Escalate, GiveUp, Prepare, Drain,
     DrainTimesOut, CloseModules, CloseLoop
<1>10. ASSUME UNCHANGED vars PROVE caller[v].at = "WAITS" BY <1>1, <1>10 DEF vars
<1>. QED BY <1>5, <1>6, <1>7, <1>8, <1>9, <1>10 DEF Next, Cleanup

\* What a waiter may have been told of a context.
ToldTrue(event, for, record) ==
    /\ Matches(record, for) => event
    /\ event => record.finalized \/ (for # "NONE" /\ record.state \notin Before(for))

\* What was true of a context stays true as it goes forward.
LEMMA TruthLasts ==
    ASSUME NEW before, NEW after, Sound(before), Sound(after), Forward(before, after), NEW for \in Awaitable
    PROVE  /\ (before.finalized \/ (for # "NONE" /\ before.state \notin Before(for)))
                  => (after.finalized \/ (for # "NONE" /\ after.state \notin Before(for)))
           /\ Matches(after, for) => after.finalized \/ (for # "NONE" /\ after.state \notin Before(for))
<1>1. before.state \in {"NEW"} \cup Live \cup Terminal /\ after.state \in {"NEW"} \cup Live \cup Terminal
  BY DEF Sound, Record
<1>2. (before.finalized \/ (for # "NONE" /\ before.state \notin Before(for)))
          => (after.finalized \/ (for # "NONE" /\ after.state \notin Before(for)))
  BY <1>1 DEF Forward, Before, Waiting, Terminal, Live, Awaitable
<1>3. Matches(after, for) => after.finalized \/ (for # "NONE" /\ after.state \notin Before(for))
  BY <1>1 DEF Matches, Before, Waiting, Terminal, Live, Awaitable
<1>. QED BY <1>2, <1>3

LEMMA WaitsKept ==
    ASSUME TypeOK, Occupied, Locked, Recorded, Advanced, WaitsTrue, [Next]_vars
    PROVE  WaitsTrue'
<1>1. SUFFICES ASSUME NEW v \in Caller, caller'[v].at = "WAITS"
               PROVE  ToldTrue(waiter'[v].event, waiter'[v].for, context'[waiter'[v].of])
  BY DEF WaitsTrue, ToldTrue
<1>. DEFINE c == waiter[v].of
            for == waiter[v].for
<1>2. ASSUME caller[v].at = "WAITS"
      PROVE  /\ c \in Context /\ for \in Awaitable /\ ToldTrue(waiter[v].event, for, context[c])
             /\ Sound(context[c]) /\ Sound(context'[c]) /\ Forward(context[c], context'[c])
  <2>1. c \in Context BY <1>2 DEF Occupied, At
  <2>2. for \in Awaitable BY DEF TypeOK, CallerType, WaiterRecord
  <2>3. ToldTrue(waiter[v].event, for, context[c]) BY <1>2 DEF WaitsTrue, ToldTrue
  <2>4. Sound(context[c]) BY <2>1 DEF Sound, TypeOK, ContextType, Recorded
  <2>5. Sound(context'[c]) /\ Forward(context[c], context'[c]) BY <2>1 DEF Advanced
  <2>. QED BY <2>1, <2>2, <2>3, <2>4, <2>5
<1>3. ASSUME caller[v].at = "WAITS", waiter'[v] = waiter[v],
             context'[c].state = context[c].state, context'[c].finalized = context[c].finalized
      PROVE  ToldTrue(waiter'[v].event, waiter'[v].for, context'[waiter'[v].of])
  BY <1>2, <1>3 DEF ToldTrue, Matches
<1>4. ASSUME caller[v].at = "WAITS", waiter' = Notified(context')
      PROVE  ToldTrue(waiter'[v].event, waiter'[v].for, context'[waiter'[v].of])
  <2>1. /\ waiter'[v].of = c /\ waiter'[v].for = for
        /\ waiter'[v].event <=> waiter[v].event \/ Matches(context'[c], for)
    BY <1>2, <1>4, Noticing
  <2>. HIDE DEF c, for
  <2>2. ToldTrue(waiter'[v].event, for, context'[c])
    BY <1>2, <1>4, <2>1, TruthLasts DEF ToldTrue
  <2>. QED BY <2>1, <2>2
<1>. DEFINE Told == ToldTrue(waiter'[v].event, waiter'[v].for, context'[waiter'[v].of])
<1>. HIDE DEF Told
<1>5. CASE Wait(v)
  <2>1. caller[v].todo # << >> /\ caller[v].at # "WAITS" /\ Wants(v).op = "WAIT" BY <1>5 DEF Wait, Calls, Wants
  <2>2. Wants(v).of \in Context BY <2>1, Wanted
  <2>3. ~Return(v)
    <3>1. Return(v) => caller'[v].at = "IDLE" BY <2>1, Returning
    <3>. QED BY <1>1, <3>1
  <2>4. /\ ~Matches(context[Wants(v).of], Wants(v).for)
        /\ waiter' = [waiter EXCEPT ![v] = [of |-> Wants(v).of, for |-> Wants(v).for, event |-> FALSE]]
        /\ UNCHANGED context
    BY <1>5, <2>3 DEF Wait
  <2>5. waiter'[v].of = Wants(v).of /\ waiter'[v].for = Wants(v).for /\ ~waiter'[v].event
    BY <2>4 DEF TypeOK, CallerType
  <2>. QED BY <2>4, <2>5 DEF Told, ToldTrue
<1>6. CASE ~Wait(v)
  <2>1. caller[v].at = "WAITS" BY <1>1, <1>6, NobodyElseWaits
  <2>2. ASSUME UNCHANGED <<context, waiter>> PROVE Told BY <1>3, <2>1, <2>2 DEF Told
  <2>3. ASSUME NEW contexts, Become(contexts) PROVE Told BY <1>4, <2>1, <2>3 DEF Told, Become
  <2>4. ASSUME NEW u \in Caller, Register(u) \/ RegisterFromContext(u) PROVE Told
    <3>1. \E x, k, e : Enrol(x, k, e) \/ Reject(x, k, e) \/ Refuse(x, k, e)
      BY <2>4 DEF Register, RegisterFromContext
    <3>. QED BY <2>2, <2>3, <3>1 DEF Enrol, Reject, Refuse
  <2>5. ASSUME NEW u \in Caller, u # v, Wait(u) \/ Wake(u) PROVE Told
    <3>1. UNCHANGED context /\ waiter'[v] = waiter[v] BY <2>5 DEF Wait, Wake, TypeOK, CallerType
    <3>. QED BY <1>3, <2>1, <3>1 DEF Told
  <2>6. ASSUME Wake(v) PROVE Told
    <3>1. caller'[v].at = "IDLE"
      BY <2>6, Returning DEF Wake, Occupied
    <3>. QED BY <1>1, <3>1
  <2>7. ASSUME NEW d \in Context, EndWork(d) PROVE Told
    <3>1. context' = [context EXCEPT ![d].ended = TRUE] /\ UNCHANGED waiter BY <2>7 DEF EndWork
    <3>2. c \in Context BY <1>2, <2>1
    <3>3. context'[c].state = context[c].state /\ context'[c].finalized = context[c].finalized
      BY <3>1, <3>2 DEF TypeOK, ContextType, Record
    <3>. QED BY <1>3, <2>1, <3>1, <3>3 DEF Told
  <2>8. ASSUME HandleTerminated \/ Finalize \/ HandleShutdown \/ StopAuthority \/ Prepare \/ Drain PROVE Told
    BY <2>3, <2>8 DEF HandleTerminated, Finalize, HandleShutdown, StopAuthority, Prepare, Drain, ShutDown
  <2>9. ASSUME HandleRegistered \/ HandleControl PROVE Told
    BY <2>2, <2>3, <2>9 DEF HandleRegistered, HandleControl
  <2>10. ASSUME NEW u \in Caller,
                \/ Start(u) \/ Submit(u) \/ SubmitFromContext(u) \/ Control(u) \/ List(u)
                \/ RequestShutdown(u) \/ Serve(u) \/ Shutdown(u) \/ Started(u) \/ Build(u) \/ BuildFails(u)
                \/ Submitted(u) \/ StartAwaited(u) \/ Joined(u) \/ Own(u)
         PROVE  Told
    BY <2>2, <2>10 DEF Start, Submit, SubmitFromContext, Control, List, RequestShutdown, Serve, Shutdown,
       Started, Build, BuildFails, Submitted, StartAwaited, Joined, Own
  <2>11. ASSUME Deliver \/ HandleIdle \/ Discard \/ Decide \/ Complete \/ FinishRun \/ Lose \/ ReportLoss PROVE Told
    BY <2>2, <2>11 DEF Deliver, HandleIdle, Discard, Decide, Complete, FinishRun, Lose, ReportLoss
  <2>12. ASSUME FailerStarts \/ FailerNotStarted \/ Coordinate \/ Coordinated \/ Escalate \/ GiveUp
                \/ DrainTimesOut \/ CloseModules \/ CloseLoop \/ FinishCleanup
         PROVE  Told
    BY <2>2, <2>12 DEF FailerStarts, FailerNotStarted, Coordinate, Coordinated, Escalate, GiveUp,
       DrainTimesOut, CloseModules, CloseLoop, FinishCleanup
  <2>13. ASSUME UNCHANGED vars PROVE Told BY <2>2, <2>13 DEF vars
  <2>14. ASSUME NEW u \in Caller, Wait(u) \/ Wake(u) PROVE Told BY <1>6, <2>5, <2>6, <2>14
  <2>15. Told
    BY <2>4, <2>7, <2>8, <2>9, <2>10, <2>11, <2>12, <2>13, <2>14
       DEF Next, Begin, Continue, Coordinator, Cleanup
  <2>. QED BY <2>15 DEF Told
<1>. QED BY <1>5, <1>6

-----------------------------------------------------------------------------
(* Locks and the owner of the cleanup                                        *)

\* What a thread does to a lock: nothing, take it while it is free, or free its own.
Passes(before, after, u, held, holds) ==
    \/ after = before /\ (held <=> holds)
    \/ before = Nobody /\ after = u /\ ~held /\ holds
    \/ after = Nobody /\ held /\ ~holds

LEMMA Handed ==
    ASSUME TypeOK, Locked, NEW u \in Caller,
           \A v \in Caller : v # u => caller'[v] = caller[v],
           Passes(lock.state, lock'.state, u, At(u, {"REGISTER", "SUBMITTED"}), At(u, {"REGISTER", "SUBMITTED"})'),
           Passes(lock.registry, lock'.registry, u, At(u, {"NOTIFY"}), At(u, {"NOTIFY"})'),
           Passes(lock.lifecycle, lock'.lifecycle, u, At(u, {"BUILD", "BUILT", "CLEANS"}),
                  At(u, {"BUILD", "BUILT", "CLEANS"})'),
           Passes(cleanup.by, cleanup'.by, u, At(u, {"CLEANS"}), At(u, {"CLEANS"})'),
           cleanup'.by = Nobody <=> cleanup'.at = "NONE", failer' = "RUNNING" <=> failer = "RUNNING"
    PROVE  Locked'
<1>1. ASSUME NEW v \in Caller, v # u, NEW phases PROVE At(v, phases)' <=> At(v, phases) BY <1>1 DEF At
<1>2. \A v \in Caller : v # Nobody /\ v # Failer /\ Failer # Nobody BY ServiceAssumption
<1>3. \A v \in Caller : lock'.state = v <=> At(v, {"REGISTER", "SUBMITTED"})'
  BY <1>1, <1>2 DEF Passes, Locked
<1>4. \A v \in Caller : lock'.registry = v <=> At(v, {"NOTIFY"})' BY <1>1, <1>2 DEF Passes, Locked
<1>5. \A v \in Caller : lock'.lifecycle = v <=> At(v, {"BUILD", "BUILT", "CLEANS"})'
  BY <1>1, <1>2 DEF Passes, Locked
<1>6. \A v \in Caller : cleanup'.by = v <=> At(v, {"CLEANS"})' BY <1>1, <1>2 DEF Passes, Locked
<1>7. lock'.state # Failer /\ lock'.registry # Failer BY <1>2 DEF Passes, Locked
<1>8. lock'.lifecycle = Failer <=> failer' = "RUNNING" BY <1>2 DEF Passes, Locked
<1>9. cleanup'.by = Failer <=> failer' = "RUNNING" BY <1>2 DEF Passes, Locked
<1>. QED BY <1>3, <1>4, <1>5, <1>6, <1>7, <1>8, <1>9 DEF Locked

\* A thread that neither takes nor frees a lock.
Roaming == {"IDLE", "WAITS", "AWAITS_START", "JOINS", "OWNS"}

LEMMA Unhanded ==
    ASSUME TypeOK, Locked, NEW u \in Caller, caller[u].at \in Roaming, caller'[u].at \in Roaming,
           \A v \in Caller : v # u => caller'[v] = caller[v], UNCHANGED <<lock, cleanup, failer>>
    PROVE  Locked'
<1>1. \A phases \in SUBSET {"REGISTER", "SUBMITTED", "NOTIFY", "BUILD", "BUILT", "CLEANS"} :
         ~At(u, phases) /\ ~At(u, phases)'
  BY DEF At, Roaming
<1>2. cleanup'.by = Nobody <=> cleanup'.at = "NONE" BY DEF Locked
<1>. QED BY <1>1, <1>2, Handed DEF Passes

LEMMA Unmoved ==
    ASSUME Locked, UNCHANGED <<caller, lock>>, cleanup'.by = cleanup.by,
           cleanup'.at = "NONE" <=> cleanup.at = "NONE", failer' = "RUNNING" <=> failer = "RUNNING"
    PROVE  Locked'
BY DEF Locked, At

LEMMA OwnerStays ==
    ASSUME Owned, \A u \in Cleaner : Owns(u)' <=> Owns(u),
           engine'.cleaning = engine.cleaning, engine'.complete = engine.complete
    PROVE  Owned'
BY DEF Owned

LEMMA OwnerComes ==
    ASSUME Owned, ~(engine.cleaning /\ ~engine.complete), NEW u \in Cleaner, Owns(u)',
           \A v \in Cleaner : v # u => (Owns(v)' <=> Owns(v)), engine'.cleaning, ~engine'.complete
    PROVE  Owned'
BY DEF Owned

LEMMA OwnerGoes ==
    ASSUME Owned, NEW u \in Cleaner, Owns(u), ~Owns(u)',
           \A v \in Cleaner : v # u => (Owns(v)' <=> Owns(v)), engine'.complete
    PROVE  Owned'
BY DEF Owned

\* The engine as a report of failure leaves it.
LEMMA Reporting ==
    ASSUME NEW e \in EngineRecord
    PROVE  LET r == Reported(e)
           IN /\ r.runtime = e.runtime /\ r.activity = e.activity /\ r.failed
              /\ StartsCleanup(e) => r.state = "STOPPING" /\ r.cleaning /\ ~r.complete
              /\ ~StartsCleanup(e) => /\ r.cleaning = e.cleaning
                                      /\ e.state = "STOPPED" => r.state = "FAILED" /\ r.complete
                                      /\ e.state # "STOPPED" => r.state = e.state /\ r.complete = e.complete
<1>1. CASE e.state = "STOPPED" BY <1>1 DEF Reported, StartsCleanup, EngineRecord
<1>2. CASE StartsCleanup(e) BY <1>2 DEF Reported, StartsCleanup, EngineRecord
<1>3. CASE e.state # "STOPPED" /\ ~StartsCleanup(e) BY <1>3 DEF Reported, EngineRecord
<1>. QED BY <1>1, <1>2, <1>3

\* What the supervisor holds the engine to be, apart from its activity.
Alike(e, f) == e.state = f.state /\ e.cleaning = f.cleaning /\ e.complete = f.complete /\ e.runtime = f.runtime

LEMMA Activating ==
    ASSUME NEW e \in EngineRecord, NEW a \in {"IDLE", "ACTIVE"}
    PROVE  /\ SetActivity(e, a) \in EngineRecord /\ Alike(SetActivity(e, a), e)
           /\ SetActivity(e, a).failed = e.failed
           /\ e.state = "RUNNING" => SetActivity(e, a).activity = a
           /\ StartsCleanup(SetActivity(e, a)) <=> StartsCleanup(e)
BY DEF SetActivity, Alike, EngineRecord, StartsCleanup

\* The first to report that the engine failed makes the failing thread the owner.
LEMMA OwnerReports ==
    ASSUME TypeOK, Owned, engine.state = "STOPPED" => engine.complete,
           \A u \in Caller : At(u, {"OWNS", "CLEANS"})' <=> At(u, {"OWNS", "CLEANS"}),
           NEW e \in EngineRecord, Alike(e, engine), engine' = Reported(e),
           failer' = IF StartsCleanup(e) THEN "STARTING" ELSE failer
    PROVE  Owned' /\ (failer' = "RUNNING" <=> failer = "RUNNING")
<1>1. \A u \in Caller : u # Failer BY ServiceAssumption
<1>2. \A u \in Cleaner : u # Failer => (Owns(u)' <=> Owns(u)) BY <1>1 DEF Cleaner, Owns
<1>3. CASE StartsCleanup(e)
  <2>1. ~engine.cleaning BY <1>3 DEF StartsCleanup, Alike
  <2>2. engine'.cleaning /\ ~engine'.complete BY <1>3, Reporting
  <2>3. Owns(Failer)' /\ ~Owns(Failer)
    <3>1. Failer \in Cleaner BY DEF Cleaner
    <3>. QED BY <1>3, <2>1, <3>1 DEF Owns, Owned
  <2>4. Owned' BY <1>2, <2>1, <2>2, <2>3, OwnerComes DEF Cleaner
  <2>. QED BY <1>3, <2>3, <2>4 DEF Owns
<1>4. CASE ~StartsCleanup(e)
  <2>1. engine'.cleaning = engine.cleaning /\ engine'.complete = engine.complete
    <3>1. engine.complete \in BOOLEAN BY DEF TypeOK, EngineType, EngineRecord
    <3>2. engine'.complete \in BOOLEAN BY DEF Reported, EngineRecord
    <3>3. engine'.cleaning = engine.cleaning BY <1>4, Reporting DEF Alike
    <3>4. CASE e.state = "STOPPED"
      <4>1. engine'.complete BY <1>4, <3>4, Reporting
      <4>. QED BY <3>1, <3>2, <3>3, <3>4, <4>1 DEF Alike
    <3>5. CASE e.state # "STOPPED" BY <1>4, <3>3, <3>5, Reporting DEF Alike
    <3>. QED BY <3>4, <3>5
  <2>2. \A u \in Cleaner : Owns(u)' <=> Owns(u) BY <1>2, <1>4 DEF Owns
  <2>3. Owned' BY <2>1, <2>2, OwnerStays
  <2>. QED BY <1>4, <2>3
<1>. QED BY <1>3, <1>4

LEMMA LocksKept ==
    ASSUME TypeOK, Occupied, Locked, Owned, Staged, [Next]_vars
    PROVE  Locked' /\ Owned'
<1>. DEFINE G == Locked' /\ Owned'
<1>1. /\ EngineType /\ engine \in EngineRecord /\ lock \in LockRecord
      /\ \A u \in Caller : u # Failer /\ u # Nobody
      /\ Failer # Nobody
      /\ cleanup.by = Nobody <=> cleanup.at = "NONE"
  BY ServiceAssumption DEF TypeOK, EngineType, Locked
<1>2. ASSUME UNCHANGED <<caller, engine, lock, cleanup, failer>> PROVE G
  BY <1>2 DEF Locked, Owned, Owns, At
\* Threads on their way
<1>3. ASSUME NEW u \in Caller, caller[u].todo # << >>, Return(u) \/ \E at \in Phase : To(u, at)
      PROVE  /\ \A v \in Caller : v # u => caller'[v] = caller[v]
             /\ Return(u) => caller'[u].at = "IDLE"
             /\ \A at \in Phase : To(u, at) => caller'[u].at = at
  BY <1>3, Going, Returning
<1>4. ASSUME NEW u \in Caller, \A v \in Caller : v # u => caller'[v] = caller[v], UNCHANGED failer,
             At(u, {"OWNS", "CLEANS"})' <=> At(u, {"OWNS", "CLEANS"}),
             engine'.cleaning = engine.cleaning, engine'.complete = engine.complete
      PROVE  Owned'
  <2>1. \A v \in Cleaner : Owns(v)' <=> Owns(v) BY <1>4 DEF Cleaner, Owns, At
  <2>. QED BY <1>4, <2>1, OwnerStays
<1>5. ASSUME NEW u \in Caller, caller[u].todo # << >>, Return(u) \/ \E at \in Roaming \ {"OWNS"} : To(u, at),
             caller[u].at \in Roaming \ {"OWNS"}, UNCHANGED <<lock, cleanup, failer>>,
             engine'.cleaning = engine.cleaning, engine'.complete = engine.complete
      PROVE  G
  <2>0. \A at \in Roaming : at \in Phase BY DEF Roaming, Phase
  <2>1. /\ \A v \in Caller : v # u => caller'[v] = caller[v]
        /\ caller'[u].at \in Roaming \ {"OWNS"}
    BY <1>3, <1>5, <2>0 DEF Roaming
  <2>2. Locked' BY <1>5, <2>1, Unhanded
  <2>3. Owned' BY <1>4, <1>5, <2>1 DEF At, Roaming
  <2>. QED BY <2>2, <2>3
<1>6. ASSUME NEW u \in Caller, NEW op, Calls(u, op) PROVE caller[u].todo # << >> /\ caller[u].at = "IDLE"
  BY <1>6 DEF Calls
<1>7. ASSUME NEW u \in Caller, caller[u].at # "IDLE" PROVE caller[u].todo # << >>
  BY <1>7 DEF Occupied
<1>8. ASSUME NEW u \in Caller, NEW at, caller[u].at = at
      PROVE  \A phases : At(u, phases) <=> at \in phases
  BY <1>8 DEF At
<1>9. ASSUME NEW u \in Caller, NEW at, caller'[u].at = at
      PROVE  \A phases : At(u, phases)' <=> at \in phases
  BY <1>9 DEF At
<1>10. ASSUME NEW u \in Caller, Start(u) PROVE G
  <2>1. caller[u].todo # << >> /\ caller[u].at = "IDLE" BY <1>6, <1>10 DEF Start
  <2>2. CASE engine.state = "CREATED"
    <3>1. To(u, "BUILD") /\ lock.lifecycle = Nobody /\ lock' = [lock EXCEPT !.lifecycle = u]
          /\ engine' = [engine EXCEPT !.state = "STARTING", !.startup = FALSE] /\ UNCHANGED <<cleanup, failer>>
      BY <1>10, <2>2 DEF Start, Hold, Free
    <3>2. caller'[u].at = "BUILD" /\ \A v \in Caller : v # u => caller'[v] = caller[v]
      BY <3>1, Going DEF Phase
    <3>3. lock'.lifecycle = u /\ lock'.state = lock.state /\ lock'.registry = lock.registry
      BY <1>1, <3>1 DEF LockRecord
    <3>4. engine'.cleaning = engine.cleaning /\ engine'.complete = engine.complete
      BY <1>1, <3>1 DEF EngineRecord
    <3>5. Locked' BY <1>1, <1>8, <1>9, <2>1, <3>1, <3>2, <3>3, Handed DEF Passes
    <3>6. Owned' BY <1>4, <1>8, <1>9, <2>1, <3>1, <3>2, <3>4
    <3>. QED BY <3>5, <3>6
  <2>3. CASE engine.state # "CREATED"
    <3>1. Return(u) /\ UNCHANGED <<engine, lock, cleanup, failer>> BY <1>10, <2>3 DEF Start
    <3>. QED BY <1>5, <2>1, <3>1 DEF Roaming
  <2>. QED BY <2>2, <2>3
<1>11. ASSUME NEW u \in Caller, Build(u) \/ BuildFails(u) PROVE G
  <2>1. caller[u].at = "BUILD" /\ caller[u].todo # << >> /\ To(u, "BUILT") /\ UNCHANGED <<lock, cleanup, failer>>
    BY <1>7, <1>11 DEF Build, BuildFails
  <2>2. caller'[u].at = "BUILT" /\ \A v \in Caller : v # u => caller'[v] = caller[v]
    BY <2>1, Going DEF Phase
  <2>3. engine'.cleaning = engine.cleaning /\ engine'.complete = engine.complete
    BY <1>1, <1>11 DEF Build, BuildFails, EngineRecord
  <2>4. Locked' BY <1>1, <1>8, <1>9, <2>1, <2>2, Handed DEF Passes
  <2>5. Owned' BY <1>4, <1>8, <1>9, <2>1, <2>2, <2>3
  <2>. QED BY <2>4, <2>5
<1>12. ASSUME NEW u \in Caller, Started(u) PROVE G
  <2>1. /\ caller[u].at = "BUILT" /\ caller[u].todo # << >> /\ UNCHANGED failer
        /\ engine.state = "STARTING" /\ engine.complete
    BY <1>7, <1>12 DEF Started, Staged, At
  <2>2. lock.lifecycle = u /\ cleanup.by = Nobody
    <3>1. lock.lifecycle = u BY <1>8, <2>1 DEF Locked
    <3>2. ASSUME NEW v \in Caller, cleanup.by = v PROVE FALSE
      <4>1. lock.lifecycle = v /\ caller[v].at = "CLEANS" BY <3>2 DEF Locked, At
      <4>. QED BY <2>1, <3>1, <4>1
    <3>3. cleanup.by # Failer BY <1>1, <3>1 DEF Locked
    <3>. QED BY <3>1, <3>2, <3>3 DEF TypeOK, EngineType, CleanupRecord, Owner
  <2>3. CASE engine.failed
    <3>1. /\ BeginCleanup(u, "PREPARE", TRUE, FALSE) /\ To(u, "CLEANS")
          /\ engine' = [engine EXCEPT !.state = "STOPPING", !.cleaning = TRUE, !.complete = FALSE]
      BY <1>12, <2>3 DEF Started
    <3>2. caller'[u].at = "CLEANS" /\ \A v \in Caller : v # u => caller'[v] = caller[v]
      BY <3>1, Going DEF Phase
    <3>3. /\ lock'.lifecycle = u /\ lock'.state = lock.state /\ lock'.registry = lock.registry
          /\ cleanup'.by = u /\ cleanup'.at = "PREPARE"
      BY <1>1, <3>1 DEF LockRecord, BeginCleanup, Hold
    <3>4. engine'.cleaning /\ ~engine'.complete
      BY <1>1, <3>1 DEF EngineRecord
    <3>5. Locked' BY <1>1, <1>8, <1>9, <2>1, <2>2, <3>2, <3>3, Handed DEF Passes
    <3>6. u \in Cleaner /\ Owns(u)' BY <1>1, <3>2 DEF Cleaner, Owns, At
    <3>7. \A v \in Cleaner : v # u => (Owns(v)' <=> Owns(v)) BY <2>1, <3>2 DEF Cleaner, Owns, At
    <3>8. Owned' BY <2>1, <3>4, <3>6, <3>7, OwnerComes
    <3>. QED BY <3>5, <3>8
  <2>4. CASE ~engine.failed
    <3>1. /\ Release("lifecycle") /\ Return(u) /\ UNCHANGED cleanup
          /\ engine' = [engine EXCEPT !.state = "RUNNING", !.activity = "IDLE", !.startup = TRUE]
      BY <1>12, <2>4 DEF Started
    <3>2. caller'[u].at = "IDLE" /\ \A v \in Caller : v # u => caller'[v] = caller[v]
      BY <2>1, <3>1, Returning
    <3>3. lock'.lifecycle = Nobody /\ lock'.state = lock.state /\ lock'.registry = lock.registry
      BY <1>1, <3>1 DEF LockRecord, Release, Hold
    <3>4. engine'.cleaning = engine.cleaning /\ engine'.complete = engine.complete
      BY <1>1, <3>1 DEF EngineRecord
    <3>5. Locked' BY <1>1, <1>8, <1>9, <2>1, <3>1, <3>2, <3>3, Handed DEF Passes
    <3>6. Owned' BY <1>4, <1>8, <1>9, <2>1, <3>2, <3>4
    <3>. QED BY <3>5, <3>6
  <2>. QED BY <2>3, <2>4
<1>13. ASSUME NEW u \in Caller,
              \/ Wait(u) \/ List(u) \/ Control(u) \/ RequestShutdown(u) \/ Serve(u)
              \/ Wake(u) \/ StartAwaited(u) \/ Joined(u)
       PROVE  G
  <2>1. UNCHANGED <<engine, lock, cleanup, failer>>
    BY <1>13 DEF Wait, List, Control, RequestShutdown, Serve, Wake, StartAwaited, Joined
  <2>2. caller[u].todo # << >> /\ caller[u].at \in Roaming \ {"OWNS"}
    BY <1>6, <1>7, <1>13 DEF Wait, List, Control, RequestShutdown, Serve, Wake, StartAwaited, Joined, Roaming
  <2>3. Return(u) \/ To(u, "WAITS") \/ To(u, "IDLE")
    BY <1>13 DEF Wait, List, Control, RequestShutdown, Serve, Wake, StartAwaited, Joined
  <2>. QED BY <1>5, <2>1, <2>2, <2>3 DEF Roaming
<1>14. ASSUME NEW u \in Caller, Shutdown(u) PROVE G
  <2>1. /\ caller[u].todo # << >> /\ caller[u].at = "IDLE" /\ UNCHANGED <<lock, cleanup, failer>>
    BY <1>6, <1>14 DEF Shutdown
  <2>2. \/ To(u, "AWAITS_START") /\ UNCHANGED engine
        \/ To(u, "JOINS") /\ UNCHANGED engine
        \/ Return(u) /\ UNCHANGED engine
        \/ Return(u) /\ engine' = [engine EXCEPT !.state = "STOPPED"]
        \/ /\ To(u, "OWNS") /\ ~engine.cleaning
           /\ engine' = [engine EXCEPT !.cleaning = TRUE, !.complete = FALSE, !.state = "STOPPING"]
    <3>. DEFINE over == engine.state = "STOPPED"
                            \/ (engine.state = "FAILED" /\ (~engine.runtime \/ engine.cleaning))
    <3>1. CASE engine.state = "STARTING" BY <1>14, <3>1 DEF Shutdown
    <3>2. CASE engine.state = "CREATED" BY <1>14, <3>2 DEF Shutdown
    <3>3. CASE engine.state \notin {"STARTING", "CREATED"} /\ over BY <1>14, <3>3 DEF Shutdown
    <3>4. CASE engine.state \notin {"STARTING", "CREATED"} /\ ~over /\ engine.cleaning
      BY <1>14, <3>4 DEF Shutdown
    <3>5. CASE engine.state \notin {"STARTING", "CREATED"} /\ ~over /\ ~engine.cleaning
      BY <1>14, <3>5 DEF Shutdown
    <3>. QED BY <3>1, <3>2, <3>3, <3>4, <3>5
  <2>3. CASE Return(u) \/ To(u, "AWAITS_START") \/ To(u, "JOINS")
    <3>1. CASE engine'.cleaning = engine.cleaning /\ engine'.complete = engine.complete
      BY <1>5, <2>1, <2>3, <3>1 DEF Roaming
    <3>2. CASE ~(engine'.cleaning = engine.cleaning /\ engine'.complete = engine.complete)
      <4>1. To(u, "OWNS") BY <1>1, <2>2, <3>2 DEF EngineRecord
      <4>2. caller'[u].at = "OWNS" BY <4>1, Going DEF Phase
      <4>3. caller'[u].at \in {"IDLE", "AWAITS_START", "JOINS"}
        BY <2>1, <2>3, Going, Returning DEF Phase
      <4>. QED BY <4>2, <4>3
    <3>. QED BY <3>1, <3>2
  <2>4. CASE /\ To(u, "OWNS") /\ ~engine.cleaning
             /\ engine' = [engine EXCEPT !.cleaning = TRUE, !.complete = FALSE, !.state = "STOPPING"]
    <3>1. caller'[u].at = "OWNS" /\ \A v \in Caller : v # u => caller'[v] = caller[v]
      BY <2>4, Going DEF Phase
    <3>2. Locked' BY <2>1, <3>1, Unhanded DEF Roaming
    <3>3. u \in Cleaner /\ Owns(u)' BY <1>1, <3>1 DEF Cleaner, Owns, At
    <3>4. \A v \in Cleaner : v # u => (Owns(v)' <=> Owns(v)) BY <2>1, <3>1 DEF Cleaner, Owns, At
    <3>5. engine'.cleaning /\ ~engine'.complete BY <1>1, <2>4 DEF EngineRecord
    <3>6. Owned' BY <2>4, <3>3, <3>4, <3>5, OwnerComes
    <3>. QED BY <3>2, <3>6
  <2>. QED BY <2>2, <2>3, <2>4
<1>15. ASSUME NEW u \in Caller, Own(u) PROVE G
  <2>1. /\ caller[u].todo # << >> /\ caller[u].at = "OWNS" /\ To(u, "CLEANS") /\ lock.lifecycle = Nobody
        /\ UNCHANGED <<engine, failer>> /\ BeginCleanup(u, "COORDINATE", Wants(u).forced, Wants(u).bounded)
    BY <1>7, <1>15 DEF Own, Free
  <2>2. caller'[u].at = "CLEANS" /\ \A v \in Caller : v # u => caller'[v] = caller[v]
    BY <2>1, Going DEF Phase
  <2>3. /\ lock'.lifecycle = u /\ lock'.state = lock.state /\ lock'.registry = lock.registry
        /\ cleanup'.by = u /\ cleanup'.at = "COORDINATE"
    BY <1>1, <2>1 DEF LockRecord, BeginCleanup, Hold
  <2>4. cleanup.by = Nobody
    <3>1. ASSUME NEW v \in Caller, cleanup.by = v PROVE FALSE
      <4>1. lock.lifecycle = v BY <3>1 DEF Locked, At
      <4>. QED BY <1>1, <2>1, <4>1
    <3>2. cleanup.by # Failer BY <1>1, <2>1 DEF Locked
    <3>. QED BY <3>1, <3>2 DEF TypeOK, EngineType, CleanupRecord, Owner
  <2>5. Locked' BY <1>1, <1>8, <1>9, <2>1, <2>2, <2>3, <2>4, Handed DEF Passes
  <2>6. Owned' BY <1>4, <1>8, <1>9, <2>1, <2>2
  <2>. QED BY <2>5, <2>6
\* Submissions
<1>16. ASSUME NEW u \in Caller, Submit(u) \/ SubmitFromContext(u) PROVE G
  <2>1. caller[u].todo # << >> /\ caller[u].at = "IDLE" /\ UNCHANGED <<engine, cleanup, failer>>
    BY <1>6, <1>16 DEF Submit, SubmitFromContext
  <2>2. \/ Return(u) /\ UNCHANGED lock
        \/ lock.state = Nobody /\ lock' = [lock EXCEPT !.state = u] /\ To(u, "REGISTER")
        \/ lock.registry = Nobody /\ lock' = [lock EXCEPT !.registry = u] /\ To(u, "NOTIFY")
    BY <1>16 DEF Submit, SubmitFromContext, Hold, Free
  <2>3. CASE Return(u) /\ UNCHANGED lock BY <1>5, <2>1, <2>3 DEF Roaming
  <2>4. CASE lock.state = Nobody /\ lock' = [lock EXCEPT !.state = u] /\ To(u, "REGISTER")
    <3>1. caller'[u].at = "REGISTER" /\ \A v \in Caller : v # u => caller'[v] = caller[v]
      BY <2>4, Going DEF Phase
    <3>2. lock'.state = u /\ lock'.lifecycle = lock.lifecycle /\ lock'.registry = lock.registry
      BY <1>1, <2>4 DEF LockRecord
    <3>3. Locked' BY <1>1, <1>8, <1>9, <2>1, <2>4, <3>1, <3>2, Handed DEF Passes
    <3>4. Owned' BY <1>4, <1>8, <1>9, <2>1, <3>1
    <3>. QED BY <3>3, <3>4
  <2>5. CASE lock.registry = Nobody /\ lock' = [lock EXCEPT !.registry = u] /\ To(u, "NOTIFY")
    <3>1. caller'[u].at = "NOTIFY" /\ \A v \in Caller : v # u => caller'[v] = caller[v]
      BY <2>5, Going DEF Phase
    <3>2. lock'.registry = u /\ lock'.lifecycle = lock.lifecycle /\ lock'.state = lock.state
      BY <1>1, <2>5 DEF LockRecord
    <3>3. Locked' BY <1>1, <1>8, <1>9, <2>1, <2>5, <3>1, <3>2, Handed DEF Passes
    <3>4. Owned' BY <1>4, <1>8, <1>9, <2>1, <3>1
    <3>. QED BY <3>3, <3>4
  <2>. QED BY <2>2, <2>3, <2>4, <2>5
<1>17. engine.state = "STOPPED" => engine.complete BY DEF Staged
<1>18. ASSUME NEW u \in Caller, \A v \in Caller : v # u => caller'[v] = caller[v],
              At(u, {"OWNS", "CLEANS"})' <=> At(u, {"OWNS", "CLEANS"}),
              NEW e \in EngineRecord, Alike(e, engine),
              \/ engine' = e /\ UNCHANGED failer
              \/ engine' = Reported(e) /\ failer' = IF StartsCleanup(e) THEN "STARTING" ELSE failer
       PROVE  Owned' /\ (failer' = "RUNNING" <=> failer = "RUNNING")
  <2>1. CASE engine' = e /\ UNCHANGED failer BY <1>4, <1>18, <2>1 DEF Alike
  <2>2. CASE engine' = Reported(e) /\ failer' = IF StartsCleanup(e) THEN "STARTING" ELSE failer
    <3>1. \A v \in Caller : At(v, {"OWNS", "CLEANS"})' <=> At(v, {"OWNS", "CLEANS"}) BY <1>18 DEF At
    <3>. QED BY <1>17, <1>18, <2>2, <3>1, OwnerReports
  <2>. QED BY <1>18, <2>1, <2>2
<1>19. ASSUME NEW c, NEW k, NEW e \in EngineRecord, Enrol(c, k, e) \/ Reject(c, k, e) \/ Refuse(c, k, e)
       PROVE  \/ engine' = e /\ UNCHANGED failer
              \/ engine' = Reported(e) /\ failer' = IF StartsCleanup(e) THEN "STARTING" ELSE failer
  BY <1>19 DEF Enrol, Reject, Refuse
<1>20. ASSUME NEW u \in Caller, Register(u) PROVE G
  <2>1. /\ caller[u].at = "REGISTER" /\ To(u, "SUBMITTED") /\ UNCHANGED <<lock, cleanup>>
    BY <1>20 DEF Register
  <2>2. caller'[u].at = "SUBMITTED" /\ \A v \in Caller : v # u => caller'[v] = caller[v]
    BY <2>1, Going DEF Phase
  <2>3. \/ engine' = engine /\ UNCHANGED failer
        \/ engine' = Reported(engine) /\ failer' = IF StartsCleanup(engine) THEN "STARTING" ELSE failer
    BY <1>1, <1>19, <1>20 DEF Register
  <2>4. Owned' /\ (failer' = "RUNNING" <=> failer = "RUNNING")
    BY <1>1, <1>8, <1>9, <1>18, <2>1, <2>2, <2>3 DEF Alike
  <2>5. Locked' BY <1>1, <1>8, <1>9, <2>1, <2>2, <2>4, Handed DEF Passes
  <2>. QED BY <2>4, <2>5
<1>21. ASSUME NEW u \in Caller, Submitted(u) PROVE G
  <2>1. /\ caller[u].at = "SUBMITTED" /\ caller[u].todo # << >> /\ Return(u) /\ UNCHANGED <<cleanup, failer>>
        /\ lock' = [lock EXCEPT !.state = Nobody]
        /\ engine' = SetActivity(engine, IF registry.contexts = {} THEN "IDLE" ELSE "ACTIVE")
    BY <1>7, <1>21 DEF Submitted, Release, Hold
  <2>2. caller'[u].at = "IDLE" /\ \A v \in Caller : v # u => caller'[v] = caller[v]
    BY <2>1, Returning
  <2>3. lock'.state = Nobody /\ lock'.lifecycle = lock.lifecycle /\ lock'.registry = lock.registry
    BY <1>1, <2>1 DEF LockRecord
  <2>4. engine'.cleaning = engine.cleaning /\ engine'.complete = engine.complete
    BY <1>1, <2>1, Activating DEF Alike
  <2>5. Locked' BY <1>1, <1>8, <1>9, <2>1, <2>2, <2>3, Handed DEF Passes
  <2>6. Owned' BY <1>4, <1>8, <1>9, <2>1, <2>2, <2>4
  <2>. QED BY <2>5, <2>6
<1>22. ASSUME NEW u \in Caller, RegisterFromContext(u) PROVE G
  <2>. DEFINE e == SetActivity(engine, "ACTIVE")
  <2>1. /\ caller[u].at = "NOTIFY" /\ caller[u].todo # << >> /\ Return(u) /\ UNCHANGED cleanup
        /\ lock' = [lock EXCEPT !.registry = Nobody]
    BY <1>7, <1>22 DEF RegisterFromContext, Release, Hold
  <2>2. caller'[u].at = "IDLE" /\ \A v \in Caller : v # u => caller'[v] = caller[v]
    BY <2>1, Returning
  <2>3. lock'.registry = Nobody /\ lock'.lifecycle = lock.lifecycle /\ lock'.state = lock.state
    BY <1>1, <2>1 DEF LockRecord
  <2>4. e \in EngineRecord /\ Alike(e, engine) BY <1>1, Activating
  <2>5. \E c, k : Enrol(c, k, e) \/ Reject(c, k, e) \/ Refuse(c, k, e)
    BY <1>22 DEF RegisterFromContext
  <2>. HIDE DEF e
  <2>6. \/ engine' = e /\ UNCHANGED failer
        \/ engine' = Reported(e) /\ failer' = IF StartsCleanup(e) THEN "STARTING" ELSE failer
    BY <1>19, <2>4, <2>5
  <2>7. Owned' /\ (failer' = "RUNNING" <=> failer = "RUNNING")
    BY <1>8, <1>9, <1>18, <2>1, <2>2, <2>4, <2>6
  <2>8. Locked' BY <1>1, <1>8, <1>9, <2>1, <2>2, <2>3, <2>7, Handed DEF Passes
  <2>. QED BY <2>7, <2>8
\* The loop
<1>23. ASSUME Decide \/ ReportLoss PROVE G
  <2>1. /\ UNCHANGED <<caller, lock, cleanup>> /\ engine' = Reported(engine)
        /\ failer' = IF StartsCleanup(engine) THEN "STARTING" ELSE failer
    BY <1>23 DEF Decide, ReportLoss, NotifyFailed, ReportFailure
  <2>2. Owned' /\ (failer' = "RUNNING" <=> failer = "RUNNING")
    BY <1>1, <1>17, <2>1, OwnerReports DEF Alike, At
  <2>. QED BY <2>1, <2>2, Unmoved
<1>24. ASSUME HandleIdle PROVE G
  <2>1. UNCHANGED <<caller, lock, cleanup, failer>> /\ engine' = SetActivity(engine, "IDLE")
    BY <1>24 DEF HandleIdle
  <2>2. engine'.cleaning = engine.cleaning /\ engine'.complete = engine.complete
    BY <1>1, <2>1, Activating DEF Alike
  <2>3. Owned' BY <2>1, <2>2, OwnerStays DEF Owns, At
  <2>. QED BY <2>1, <2>3, Unmoved
<1>25. ASSUME \/ \E c \in Context : EndWork(c)
              \/ Deliver \/ HandleRegistered \/ HandleTerminated \/ HandleControl \/ Discard \/ HandleShutdown
              \/ Finalize \/ StopAuthority \/ Complete \/ FinishRun \/ Lose
       PROVE  G
  BY <1>2, <1>25 DEF EndWork, Deliver, HandleRegistered, HandleTerminated, HandleControl, Discard, HandleShutdown,
     Finalize, StopAuthority, Complete, FinishRun, Lose
\* Cleanups
<1>26. ASSUME FailerNotStarted PROVE G
  <2>1. /\ failer = "STARTING" /\ failer' = "NONE" /\ engine' = FailedStart(engine)
        /\ UNCHANGED <<caller, lock, cleanup>>
    BY <1>26 DEF FailerNotStarted
  <2>2. Failer \in Cleaner /\ Owns(Failer) /\ ~Owns(Failer)' BY <2>1 DEF Cleaner, Owns
  <2>3. \A v \in Cleaner : v # Failer => (Owns(v)' <=> Owns(v)) BY <2>1 DEF Cleaner, Owns, At
  <2>4. engine'.complete BY <1>1, <2>1 DEF FailedStart, EngineRecord
  <2>5. Owned' BY <2>2, <2>3, <2>4, OwnerGoes
  <2>. QED BY <2>1, <2>5, Unmoved
<1>27. ASSUME FailerStarts PROVE G
  <2>1. /\ failer = "STARTING" /\ failer' = "RUNNING" /\ lock.lifecycle = Nobody /\ UNCHANGED <<caller, engine>>
        /\ BeginCleanup(Failer, "COORDINATE", TRUE, FALSE)
    BY <1>27 DEF FailerStarts, Free
  <2>2. /\ lock'.lifecycle = Failer /\ lock'.state = lock.state /\ lock'.registry = lock.registry
        /\ cleanup'.by = Failer /\ cleanup'.at = "COORDINATE"
    BY <1>1, <2>1 DEF LockRecord, BeginCleanup, Hold
  <2>3. \A u \in Caller : ~At(u, {"BUILD", "BUILT", "CLEANS"}) /\ ~At(u, {"CLEANS"})
    BY <1>1, <2>1 DEF Locked, At
  <2>4. Locked' BY <1>1, <2>1, <2>2, <2>3 DEF Locked, At
  <2>5. \A v \in Cleaner : Owns(v)' <=> Owns(v) BY <2>1 DEF Cleaner, Owns, At
  <2>6. Owned' BY <2>1, <2>5, OwnerStays
  <2>. QED BY <2>4, <2>6
<1>28. ASSUME Coordinate \/ Coordinated \/ Escalate \/ GiveUp \/ Prepare \/ Drain \/ DrainTimesOut
              \/ CloseModules \/ CloseLoop
       PROVE  G
  <2>1. cleanup.at # "NONE" /\ UNCHANGED <<caller, lock, failer>>
    BY <1>28 DEF Coordinate, Coordinated, Escalate, GiveUp, Unanswered, Prepare, Drain, DrainTimesOut,
       CloseModules, CloseLoop
  <2>2. cleanup'.by = cleanup.by /\ cleanup'.at # "NONE"
    <3>1. \/ \E at \in {"PREPARE", "DRAIN", "CLOSE", "LOOP", "FINISH"} : Goes(at)
          \/ \E forced : cleanup' = [cleanup EXCEPT !.at = "AWAIT", !.forced = forced, !.revision = gateway.revision]
      BY <1>28 DEF Coordinate, Ask, Coordinated, Escalate, GiveUp, Prepare, Drain, DrainTimesOut, CloseModules,
         CloseLoop
    <3>2. cleanup \in CleanupRecord BY DEF TypeOK, EngineType
    <3>. QED BY <3>1, <3>2 DEF Goes, CleanupRecord
  <2>3. engine'.cleaning = engine.cleaning /\ engine'.complete = engine.complete
    <3>1. engine' = engine \/ CleanupFails \/ engine' = [engine EXCEPT !.runtime = FALSE]
      BY <1>28 DEF Coordinate, Ask, Coordinated, Escalate, GiveUp, Prepare, Drain, DrainTimesOut, CloseModules,
         CloseLoop
    <3>. QED BY <1>1, <3>1 DEF CleanupFails, EngineRecord
  <2>4. Owned' BY <2>1, <2>3, OwnerStays DEF Owns, At
  <2>. QED BY <2>1, <2>2, <2>4, Unmoved
<1>29. ASSUME FinishCleanup PROVE G
  <2>1. /\ cleanup.at # "NONE" /\ cleanup' = NoCleanup /\ lock' = [lock EXCEPT !.lifecycle = Nobody]
    BY <1>29 DEF FinishCleanup, Release, Hold
  <2>2. /\ lock'.lifecycle = Nobody /\ lock'.state = lock.state /\ lock'.registry = lock.registry
        /\ cleanup'.by = Nobody /\ cleanup'.at = "NONE"
    BY <1>1, <2>1 DEF LockRecord, NoCleanup
  <2>3. engine'.complete BY <1>1, <1>29 DEF FinishCleanup, EngineRecord
  <2>4. CASE cleanup.by = Failer
    <3>1. failer = "RUNNING" /\ failer' = "DONE" /\ UNCHANGED caller
      BY <1>29, <2>1, <2>4, Cleans DEF FinishCleanup
    <3>2. lock.lifecycle = Failer BY <3>1 DEF Locked
    <3>3. \A u \in Caller : ~At(u, {"BUILD", "BUILT", "CLEANS"}) /\ ~At(u, {"CLEANS"})
      BY <1>1, <3>2 DEF Locked, At
    <3>4. Locked' BY <1>1, <2>2, <3>1, <3>3 DEF Locked, At
    <3>5. Failer \in Cleaner /\ Owns(Failer) /\ ~Owns(Failer)' BY <3>1 DEF Cleaner, Owns
    <3>6. \A v \in Cleaner : v # Failer => (Owns(v)' <=> Owns(v)) BY <3>1 DEF Cleaner, Owns, At
    <3>7. Owned' BY <2>3, <3>5, <3>6, OwnerGoes
    <3>. QED BY <3>4, <3>7
  <2>5. CASE cleanup.by # Failer
    <3>1. PICK u \in Caller : u = cleanup.by /\ caller[u].at = "CLEANS" /\ caller[u].todo # << >>
      BY <2>1, <2>5, Cleans
    <3>2. Return(u) /\ UNCHANGED failer BY <1>29, <2>5, <3>1 DEF FinishCleanup
    <3>3. caller'[u].at = "IDLE" /\ \A v \in Caller : v # u => caller'[v] = caller[v]
      BY <3>1, <3>2, Returning
    <3>4. At(u, {"CLEANS"}) /\ ~At(u, {"CLEANS"})' BY <3>1, <3>3 DEF At
    <3>5. Locked' BY <1>1, <1>8, <1>9, <2>2, <3>1, <3>2, <3>3, <3>4, Handed DEF Passes
    <3>6. u \in Cleaner /\ Owns(u) /\ ~Owns(u)' BY <1>1, <3>1, <3>3 DEF Cleaner, Owns, At
    <3>7. \A v \in Cleaner : v # u => (Owns(v)' <=> Owns(v)) BY <3>2, <3>3 DEF Cleaner, Owns, At
    <3>8. Owned' BY <2>3, <3>6, <3>7, OwnerGoes
    <3>. QED BY <3>5, <3>8
  <2>. QED BY <2>4, <2>5
<1>30. ASSUME UNCHANGED vars PROVE G BY <1>2, <1>30 DEF vars
<1>. HIDE DEF G
<1>31. G
  BY <1>10, <1>11, <1>12, <1>13, <1>14, <1>15, <1>16, <1>20, <1>21, <1>22, <1>23, <1>24, <1>25, <1>26,
     <1>27, <1>28, <1>29, <1>30
     DEF Next, Begin, Continue, Coordinator, Cleanup
<1>. QED BY <1>31 DEF G
-----------------------------------------------------------------------------
(* The stages of the engine                                                  *)

\* What the runtime holds becomes less, or more while its messenger is open.
Shrinks ==
    /\ registry'.contexts \subseteq registry.contexts
    /\ \A c \in Context, k \in Capability : runs'[c][k] = "ATTACHED" => runs[c][k] = "ATTACHED"
    /\ auth'.closed = auth.closed
    /\ DOMAIN auth'.grants \subseteq DOMAIN auth.grants /\ DOMAIN auth'.scopes \subseteq DOMAIN auth.scopes
    /\ loop' = loop /\ (coordinator = "NONE" => coordinator' = "NONE")

Grows == ~auth.closed /\ ~auth'.closed /\ DOMAIN auth.grants # {} /\ loop' = loop

\* Nobody but the supervisor moves the engine from one stage to the next.
Waited ==
    /\ cleanup'.at \in {"LOOP", "FINISH"} => cleanup'.at = cleanup.at
    /\ \A u \in Caller : caller'[u].at \in {"BUILD", "BUILT"} => caller'[u].at = caller[u].at

Steady ==
    /\ Alike(engine', engine) /\ (engine.failed => engine'.failed)
    /\ failer' = "STARTING" => failer = "STARTING"
    /\ Waited

LEMMA Contents ==
    ASSUME Staged, Shrinks \/ Grows
    PROVE  /\ Untouched => Untouched'
           /\ auth'.closed = auth.closed
           /\ auth.closed => Shrinks
           /\ auth'.closed => DOMAIN auth'.grants = {} /\ DOMAIN auth'.scopes = {}
           /\ auth.closed /\ Emptied /\ (engine.failed => engine'.failed) => Emptied'
           /\ Over => Shrinks /\ loop' # "RUNNING" /\ DOMAIN auth'.grants = {}
<1>1. Untouched => Untouched' BY DEF Untouched, Shrinks, Grows
<1>2. ASSUME Grows PROVE ~auth.closed /\ ~auth'.closed /\ ~Over BY <1>2 DEF Grows, Staged
<1>3. ASSUME Shrinks
      PROVE  /\ auth'.closed = auth.closed
             /\ auth.closed => DOMAIN auth'.grants = {} /\ DOMAIN auth'.scopes = {}
             /\ Emptied /\ (engine.failed => engine'.failed) => Emptied'
             /\ Over => loop' # "RUNNING" /\ DOMAIN auth'.grants = {}
  <2>1. auth.closed => DOMAIN auth.grants = {} /\ DOMAIN auth.scopes = {} BY DEF Staged
  <2>2. Over => loop # "RUNNING" /\ DOMAIN auth.grants = {} BY DEF Staged
  <2>. QED BY <1>3, <2>1, <2>2 DEF Shrinks, Emptied
<1>4. CASE Shrinks BY <1>1, <1>3, <1>4
<1>5. CASE Grows /\ ~Shrinks
  <2>1. auth'.closed = auth.closed
    <3>1. auth.closed = FALSE /\ auth'.closed = FALSE BY <1>2, <1>5
    <3>. QED BY <3>1
  <2>. QED BY <1>1, <1>2, <1>5, <2>1
<1>. QED BY <1>4, <1>5

LEMMA StageStays ==
    ASSUME Staged, Steady, Shrinks \/ Grows
    PROVE  Staged'
<1>1. /\ Untouched => Untouched'
      /\ auth'.closed = auth.closed
      /\ auth'.closed => DOMAIN auth'.grants = {} /\ DOMAIN auth'.scopes = {}
      /\ auth.closed /\ Emptied => Emptied'
      /\ Over => Shrinks /\ loop' # "RUNNING" /\ DOMAIN auth'.grants = {}
  BY Contents DEF Steady
<1>2. loop' = loop BY DEF Shrinks, Grows
<1>3. /\ engine'.state = engine.state /\ engine'.cleaning = engine.cleaning
      /\ engine'.complete = engine.complete /\ engine'.runtime = engine.runtime
      /\ Over' <=> Over
  BY DEF Steady, Alike, Over
<1>4. Over' => /\ loop' # "RUNNING" /\ DOMAIN auth'.grants = {}
               /\ engine'.state = "STOPPED" =>
                      /\ registry'.contexts = {}
                      /\ \A c \in Context, k \in Capability : runs'[c][k] # "ATTACHED"
  BY <1>1, <1>3 DEF Staged, Shrinks
<1>5. cleanup'.at \in {"LOOP", "FINISH"} => auth'.closed /\ Emptied'
  BY <1>1 DEF Staged, Steady, Waited
<1>6. cleanup'.at = "FINISH" => loop' # "RUNNING" /\ ~engine'.runtime
  BY <1>2, <1>3 DEF Staged, Steady, Waited
<1>7. \A u \in Caller :
           /\ At(u, {"BUILD", "BUILT"})' => engine'.state = "STARTING"
           /\ At(u, {"BUILD"})' => Untouched'
           /\ At(u, {"BUILT"})' => engine'.runtime
  BY <1>1, <1>3 DEF Staged, Steady, Waited, At
<1>8. /\ engine'.cleaning => engine'.state \in {"STOPPING", "STOPPED", "FAILED"}
      /\ engine'.state \in {"CREATED", "STARTING", "STOPPED"} => engine'.complete
      /\ engine'.state = "CREATED" => Untouched'
      /\ engine'.state = "RUNNING" \/ failer' = "STARTING" => engine'.runtime
      /\ failer' = "STARTING" => ~auth'.closed
      /\ auth'.closed => engine'.cleaning /\ DOMAIN auth'.grants = {} /\ DOMAIN auth'.scopes = {}
  BY <1>1, <1>3 DEF Staged, Steady
<1>. QED BY <1>4, <1>5, <1>6, <1>7, <1>8 DEF Staged

LEMMA StageReported ==
    ASSUME TypeOK, Staged, Waited, Shrinks \/ Grows, NEW e \in EngineRecord, Alike(e, engine),
           engine' = Reported(e), failer' = IF StartsCleanup(e) THEN "STARTING" ELSE failer
    PROVE  Staged'
<1>0. /\ engine'.runtime = engine.runtime /\ engine'.failed
      /\ StartsCleanup(e) => engine'.state = "STOPPING" /\ engine'.cleaning /\ ~engine'.complete
      /\ ~StartsCleanup(e) => /\ engine'.cleaning = engine.cleaning
                              /\ engine.state = "STOPPED" => engine'.state = "FAILED" /\ engine'.complete
                              /\ engine.state # "STOPPED" => engine'.state = engine.state /\ engine'.complete = engine.complete
  BY Reporting DEF Alike
<1>1. /\ Untouched => Untouched'
      /\ auth'.closed = auth.closed
      /\ auth'.closed => DOMAIN auth'.grants = {} /\ DOMAIN auth'.scopes = {}
      /\ auth.closed /\ Emptied => Emptied'
      /\ Over => Shrinks /\ loop' # "RUNNING" /\ DOMAIN auth'.grants = {}
      /\ loop' = loop
  BY <1>0, Contents DEF Shrinks, Grows
<1>2. CASE ~StartsCleanup(e) /\ engine.state # "STOPPED"
  <2>1. Steady BY <1>0, <1>2 DEF Steady, Alike
  <2>. QED BY <2>1, StageStays
<1>3. \A u \in Caller : At(u, {"BUILD", "BUILT"})' => engine.state = "STARTING"
  BY DEF Staged, Waited, At
<1>4. \A u \in Caller : (At(u, {"BUILD"})' \/ At(u, {"BUILT"})') => At(u, {"BUILD", "BUILT"})'
  BY DEF At
<1>5. CASE StartsCleanup(e)
  <2>1. engine.state = "RUNNING" /\ ~engine.cleaning /\ ~auth.closed /\ engine.runtime
    BY <1>5 DEF StartsCleanup, Alike, Staged
  <2>2. cleanup'.at \notin {"LOOP", "FINISH"} BY <2>1 DEF Staged, Waited
  <2>. QED BY <1>0, <1>1, <1>3, <1>4, <1>5, <2>1, <2>2 DEF Staged, Over
<1>6. CASE ~StartsCleanup(e) /\ engine.state = "STOPPED"
  <2>1. engine'.state = "FAILED" /\ engine'.complete /\ engine'.cleaning = engine.cleaning
        /\ failer' = failer /\ engine.complete
    BY <1>0, <1>6 DEF Staged
  <2>2. Over' => Over BY <1>0, <1>6, <2>1 DEF Over
  <2>3. cleanup'.at \in {"LOOP", "FINISH"} => auth'.closed /\ Emptied'
    BY <1>1 DEF Staged, Waited
  <2>4. cleanup'.at = "FINISH" => loop' # "RUNNING" /\ ~engine'.runtime
    BY <1>0, <1>1 DEF Staged, Waited
  <2>5. auth'.closed => engine'.cleaning /\ DOMAIN auth'.grants = {} /\ DOMAIN auth'.scopes = {}
    BY <1>1, <2>1 DEF Staged
  <2>6. failer' = "STARTING" => engine'.runtime /\ ~auth'.closed BY <1>0, <1>1, <2>1 DEF Staged
  <2>. QED BY <1>1, <1>3, <1>4, <1>6, <2>1, <2>2, <2>3, <2>4, <2>5, <2>6 DEF Staged
<1>. QED BY <1>2, <1>5, <1>6

\* While somebody cleans up, nobody starts the engine or begins another cleanup.
LEMMA Cleaning ==
    ASSUME TypeOK, ThreadsInv, Staged, cleanup.at # "NONE"
    PROVE  /\ engine.cleaning /\ ~engine.complete /\ engine.state \in {"STOPPING", "STOPPED", "FAILED"}
           /\ failer # "STARTING"
           /\ \A u \in Caller : ~At(u, {"BUILD", "BUILT"}) /\ ~At(u, {"BUILD"}) /\ ~At(u, {"BUILT"})
           /\ cleanup.by \in Cleaner /\ Owns(cleanup.by)
<1>1. /\ cleanup.by \in Caller \cup {Failer}
      /\ cleanup.by # Failer => caller[cleanup.by].at = "CLEANS" /\ caller[cleanup.by].todo # << >>
      /\ cleanup.by = Failer => failer = "RUNNING"
  BY Cleans DEF ThreadsInv
<1>2. cleanup.by \in Cleaner /\ Owns(cleanup.by) BY <1>1 DEF Cleaner, Owns, At
<1>3. engine.cleaning /\ ~engine.complete BY <1>2 DEF ThreadsInv, Owned
<1>4. engine.state \in {"STOPPING", "STOPPED", "FAILED"} BY <1>3 DEF Staged
<1>5. failer # "STARTING"
  <2>1. ASSUME failer = "STARTING" PROVE FALSE
    <3>1. Failer \in Cleaner /\ Owns(Failer) BY <2>1 DEF Cleaner, Owns
    <3>2. cleanup.by = Failer BY <1>2, <3>1 DEF ThreadsInv, Owned
    <3>. QED BY <1>1, <2>1, <3>2
  <2>. QED BY <2>1
<1>6. \A u \in Caller : ~At(u, {"BUILD", "BUILT"}) BY <1>4 DEF Staged
<1>7. \A u \in Caller : ~At(u, {"BUILD"}) /\ ~At(u, {"BUILT"}) BY <1>6 DEF At
<1>. QED BY <1>2, <1>3, <1>4, <1>5, <1>6, <1>7

\* What each step does with what the runtime holds.
LEMMA ContentsKept ==
    ASSUME UNCHANGED <<registry, auth, runs, loop>>, coordinator = "NONE" => coordinator' = "NONE"
    PROVE  Shrinks
BY DEF Shrinks

LEMMA ContentsClosed ==
    ASSUME TypeOK, Recorded, Finalize \/ HandleShutdown \/ StopAuthority \/ Prepare \/ Drain
    PROVE  Shrinks
<1>1. registry \in RegistryRecord /\ registry.contexts \subseteq Context
  BY DEF TypeOK, ContextType, RegistryRecord
<1>2. UNCHANGED loop /\ (coordinator = "NONE" => coordinator' = "NONE")
  BY DEF Finalize, HandleShutdown, Handles, Coordinates, StopAuthority, Prepare, CoordinatorAvailable, Drain
<1>3. ASSUME NEW C \in SUBSET Context, Close(C), registry'.contexts \subseteq registry.contexts
      PROVE  Shrinks
  BY <1>2, <1>3, Closed DEF Shrinks
<1>4. CASE Finalize
  <2>1. turn.of \in Context /\ Close({turn.of}) BY <1>4 DEF Finalize, Recorded
  <2>2. registry'.contexts = registry.contexts \ {turn.of} BY <1>1, <1>4 DEF Finalize, RegistryRecord
  <2>. QED BY <1>3, <2>1, <2>2
<1>5. CASE HandleShutdown \/ StopAuthority \/ Prepare
  <2>1. PICK forced \in BOOLEAN : ShutDown(forced) BY <1>5 DEF HandleShutdown, StopAuthority, Prepare
  <2>2. registry'.contexts \subseteq registry.contexts BY <2>1, Shutting
  <2>3. \E C \in SUBSET Context : Close(C) BY <1>1, <2>1 DEF ShutDown
  <2>. QED BY <1>3, <2>2, <2>3
<1>6. CASE Drain
  <2>1. Close(registry.contexts) /\ registry'.contexts = {} BY <1>1, <1>6 DEF Drain, RegistryRecord
  <2>. QED BY <1>1, <1>3, <2>1
<1>. QED BY <1>4, <1>5, <1>6

LEMMA ContentsJoined ==
    ASSUME TypeOK, Occupied, Recorded, Granted, NEW u \in Caller, Register(u) \/ RegisterFromContext(u)
    PROVE  Shrinks \/ Grows
<1>1. At(u, {"REGISTER", "NOTIFY"}) /\ UNCHANGED <<loop, coordinator>>
  BY DEF Register, RegisterFromContext, At
<1>2. Wants(u).of \in Context BY <1>1, Entering
<1>3. Engine \in Capability /\ Capable(u) \in Capability BY Planned DEF Capability
<1>4. PICK k \in Capability, e \in Bases : Enrol(Wants(u).of, k, e) \/ Reject(Wants(u).of, k, e) \/ Refuse(Wants(u).of, k, e)
  BY <1>3 DEF Bases, Register, RegisterFromContext
<1>5. CASE Enrol(Wants(u).of, k, e)
  <2>1. ~auth.closed /\ auth'.closed = auth.closed /\ loop = "RUNNING" BY <1>2, <1>5, Enrolled
  <2>2. DOMAIN auth.grants # {} BY <2>1 DEF Granted, Active
  <2>. QED BY <1>1, <2>1, <2>2 DEF Grows
<1>6. CASE Reject(Wants(u).of, k, e)
  <2>1. /\ UNCHANGED <<registry, auth>>
        /\ \A d \in Context, g \in Capability : runs'[d][g] = "ATTACHED" => runs[d][g] = "ATTACHED"
    BY <1>2, <1>6, Rejected
  <2>. QED BY <1>1, <2>1 DEF Shrinks
<1>7. CASE Refuse(Wants(u).of, k, e) BY <1>1, <1>7, ContentsKept DEF Refuse
<1>. QED BY <1>4, <1>5, <1>6, <1>7

\* A list hands out runs of what is registered, while the authority is there.
LEMMA Listed ==
    ASSUME TypeOK, NEW u \in Caller, List(u)
    PROVE  /\ UNCHANGED <<registry, auth, loop, coordinator, context, engine>>
           /\ \A c \in Context, k \in Capability :
                 runs'[c][k] = "ATTACHED" =>
                     runs[c][k] = "ATTACHED" \/ (Active(auth, k) /\ c \in registry.contexts)
<1>. DEFINE g == Capable(u)
            seen == IF Active(auth, g)
                    THEN {c \in Visible(auth, g, registry.contexts) : MayAccess(auth, g, c)} ELSE {}
<1>1. runs' = [c \in Context |-> IF c \in seen /\ runs[c][g] = "NONE"
                                 THEN [runs[c] EXCEPT ![g] = "ATTACHED"] ELSE runs[c]]
      /\ UNCHANGED <<registry, auth, loop, coordinator, context, engine>>
  BY DEF List
<1>2. \A c \in seen : Active(auth, g) /\ c \in registry.contexts BY DEF Visible
<1>3. g \in Capability /\ runs \in RunTable BY Planned DEF TypeOK, ContextType
<1>. HIDE DEF seen, g
<1>4. ASSUME NEW c \in Context, NEW k \in Capability, runs'[c][k] = "ATTACHED", runs[c][k] # "ATTACHED"
      PROVE  Active(auth, k) /\ c \in registry.contexts
  <2>1. c \in seen /\ runs'[c] = [runs[c] EXCEPT ![g] = "ATTACHED"] BY <1>1, <1>4
  <2>2. k = g BY <1>3, <1>4, <2>1 DEF RunTable
  <2>. QED BY <1>2, <2>1, <2>2
<1>. QED BY <1>1, <1>4

LEMMA ContentsListed ==
    ASSUME TypeOK, Staged, NEW u \in Caller, List(u)
    PROVE  Shrinks \/ Grows
<1>1. CASE DOMAIN auth.grants = {} BY <1>1, Listed DEF Shrinks, Active
<1>2. CASE DOMAIN auth.grants # {}
  <2>1. ~auth.closed BY <1>2 DEF Staged
  <2>. QED BY <1>2, <2>1, Listed DEF Grows
<1>. QED BY <1>1, <1>2

LEMMA StagesKept ==
    ASSUME TypeOK, ThreadsInv, Staged, Recorded, Granted, [Next]_vars
    PROVE  Staged'
<1>1. Occupied /\ Locked /\ Owned /\ engine \in EngineRecord BY DEF ThreadsInv, TypeOK, EngineType
<1>2. ASSUME UNCHANGED <<engine, failer>> \/ (Alike(engine', engine) /\ engine'.failed = engine.failed /\ UNCHANGED failer),
             Waited, Shrinks \/ Grows
      PROVE  Staged'
  <2>1. Steady BY <1>2 DEF Steady, Alike
  <2>. QED BY <1>2, <2>1, StageStays
<1>3. ASSUME UNCHANGED <<caller, cleanup>> PROVE Waited BY <1>3 DEF Waited
<1>4. ASSUME NEW u \in Caller, caller[u].todo # << >>, Return(u) \/ \E at \in Phase \ {"BUILD", "BUILT"} : To(u, at),
             cleanup'.at \in {"LOOP", "FINISH"} => cleanup'.at = cleanup.at
      PROVE  Waited
  BY <1>4, Going, Returning DEF Waited
<1>5. ASSUME NEW u \in Caller, NEW op, Calls(u, op) PROVE caller[u].todo # << >> /\ caller[u].at = "IDLE"
  BY <1>5 DEF Calls
<1>6. ASSUME NEW u \in Caller, caller[u].at # "IDLE" PROVE caller[u].todo # << >>
  BY <1>1, <1>6 DEF Occupied
<1>7. ASSUME NEW u \in Caller, NEW v \in Caller, At(u, {"BUILD", "BUILT"}), At(v, {"BUILD", "BUILT"}) PROVE u = v
  <2>1. At(u, {"BUILD", "BUILT", "CLEANS"}) /\ At(v, {"BUILD", "BUILT", "CLEANS"}) BY <1>7 DEF At
  <2>. QED BY <1>1, <2>1 DEF Locked
\* Steps that leave the engine at its stage
<1>8. ASSUME NEW u \in Caller,
             \/ Submit(u) \/ SubmitFromContext(u) \/ Wait(u) \/ List(u) \/ Control(u) \/ RequestShutdown(u)
             \/ Serve(u) \/ Wake(u) \/ Submitted(u) \/ StartAwaited(u) \/ Joined(u) \/ Own(u)
      PROVE  Staged'
  <2>1. caller[u].todo # << >>
    BY <1>5, <1>6, <1>8 DEF Submit, SubmitFromContext, Wait, List, Control, RequestShutdown, Serve, Wake, Submitted,
       StartAwaited, Joined, Own
  <2>2. Return(u) \/ \E at \in Phase \ {"BUILD", "BUILT"} : To(u, at)
    BY <1>8 DEF Phase, Submit, SubmitFromContext, Wait, List, Control, RequestShutdown, Serve, Wake, Submitted,
       StartAwaited, Joined, Own
  <2>3. cleanup' = cleanup \/ cleanup'.at = "COORDINATE"
    BY <1>8 DEF Submit, SubmitFromContext, Wait, List, Control, RequestShutdown, Serve, Wake, Submitted,
       StartAwaited, Joined, Own, BeginCleanup
  <2>4. Waited BY <1>4, <2>1, <2>2, <2>3
  <2>5. Shrinks \/ Grows
    <3>1. CASE List(u) BY <3>1, ContentsListed
    <3>2. CASE ~List(u)
      <4>1. UNCHANGED <<registry, auth, runs, loop, coordinator>>
        BY <1>8, <3>2 DEF Submit, SubmitFromContext, Wait, Control, RequestShutdown, Serve, Wake, Submitted,
           StartAwaited, Joined, Own
      <4>. QED BY <4>1, ContentsKept
    <3>. QED BY <3>1, <3>2
  <2>6. UNCHANGED <<engine, failer>> \/ (Alike(engine', engine) /\ engine'.failed = engine.failed /\ UNCHANGED failer)
    <3>1. CASE Submitted(u)
      <4>1. engine' = SetActivity(engine, IF registry.contexts = {} THEN "IDLE" ELSE "ACTIVE") /\ UNCHANGED failer
        BY <3>1 DEF Submitted
      <4>. QED BY <1>1, <4>1, Activating
    <3>2. CASE ~Submitted(u)
      BY <1>8, <3>2 DEF Submit, SubmitFromContext, Wait, List, Control, RequestShutdown, Serve, Wake,
         StartAwaited, Joined, Own
    <3>. QED BY <3>1, <3>2
  <2>. QED BY <1>2, <2>4, <2>5, <2>6
<1>9. ASSUME \/ \E c \in Context : EndWork(c)
             \/ Deliver \/ HandleRegistered \/ HandleTerminated \/ HandleIdle \/ HandleControl \/ Discard
             \/ Complete \/ FinishRun \/ Lose
      PROVE  Staged'
  <2>1. Waited
    BY <1>3, <1>9 DEF EndWork, Deliver, HandleRegistered, HandleTerminated, HandleIdle, HandleControl, Discard,
       Complete, FinishRun, Lose
  <2>2. UNCHANGED <<registry, auth, runs, loop>> /\ (coordinator = "NONE" => coordinator' = "NONE")
    BY <1>9 DEF EndWork, Deliver, HandleRegistered, HandleTerminated, HandleIdle, HandleControl, Discard,
       Complete, FinishRun, Lose, Coordinates
  <2>3. UNCHANGED <<engine, failer>> \/ (Alike(engine', engine) /\ engine'.failed = engine.failed /\ UNCHANGED failer)
    <3>1. CASE HandleIdle BY <1>1, <3>1, Activating DEF HandleIdle
    <3>2. CASE ~HandleIdle
      BY <1>9, <3>2 DEF EndWork, Deliver, HandleRegistered, HandleTerminated, HandleControl, Discard,
         Complete, FinishRun, Lose
    <3>. QED BY <3>1, <3>2
  <2>. QED BY <1>2, <2>1, <2>2, <2>3, ContentsKept
<1>10. ASSUME Finalize \/ HandleShutdown \/ StopAuthority \/ Prepare \/ Drain PROVE Staged'
  <2>1. UNCHANGED <<engine, failer, caller>> BY <1>10 DEF Finalize, HandleShutdown, StopAuthority, Prepare, Drain
  <2>2. cleanup' = cleanup \/ Goes("DRAIN") \/ Goes("CLOSE")
    BY <1>10 DEF Finalize, HandleShutdown, StopAuthority, Prepare, Drain
  <2>3. cleanup'.at \in {"LOOP", "FINISH"} => cleanup'.at = cleanup.at
    BY <2>2 DEF Goes, TypeOK, EngineType, CleanupRecord
  <2>4. Waited BY <2>1, <2>3 DEF Waited
  <2>. QED BY <1>2, <1>10, <2>1, <2>4, ContentsClosed
<1>11. ASSUME Coordinate \/ Coordinated \/ Escalate \/ GiveUp \/ DrainTimesOut \/ FailerStarts PROVE Staged'
  <2>1. UNCHANGED <<registry, auth, runs, loop, coordinator, caller>>
    BY <1>11 DEF Coordinate, Coordinated, Escalate, GiveUp, DrainTimesOut, FailerStarts
  <2>2. ASSUME NEW forced, Ask(forced) PROVE cleanup'.at \in {"AWAIT", "PREPARE"}
    BY <2>2 DEF Ask, Goes, TypeOK, EngineType, CleanupRecord
  <2>3. cleanup'.at \notin {"LOOP", "FINISH"}
    <3>1. ASSUME NEW at \in {"PREPARE", "CLOSE"}, Goes(at) PROVE cleanup'.at = at
      BY <3>1 DEF Goes, TypeOK, EngineType, CleanupRecord
    <3>2. CASE FailerStarts BY <3>2 DEF FailerStarts, BeginCleanup
    <3>3. CASE Coordinate \/ Escalate BY <2>2, <3>1, <3>3 DEF Coordinate, Escalate
    <3>4. CASE Coordinated \/ GiveUp \/ DrainTimesOut BY <3>1, <3>4 DEF Coordinated, GiveUp, DrainTimesOut
    <3>. QED BY <1>11, <3>2, <3>3, <3>4
  <2>4. Waited BY <2>1, <2>3 DEF Waited
  <2>5. (engine' = engine \/ CleanupFails) /\ (failer' = "STARTING" => failer = "STARTING")
    BY <1>11 DEF Coordinate, Ask, Coordinated, Escalate, GiveUp, DrainTimesOut, FailerStarts
  <2>6. Alike(engine', engine) /\ (engine.failed => engine'.failed)
    BY <1>1, <2>5 DEF CleanupFails, Alike, EngineRecord
  <2>. QED BY <2>1, <2>4, <2>5, <2>6, ContentsKept, StageStays DEF Steady
\* Reports of failures
<1>12. ASSUME NEW u \in Caller, Register(u) \/ RegisterFromContext(u) PROVE Staged'
  <2>1. caller[u].todo # << >> /\ UNCHANGED cleanup BY <1>6, <1>12 DEF Register, RegisterFromContext
  <2>2. Return(u) \/ \E at \in Phase \ {"BUILD", "BUILT"} : To(u, at)
    BY <1>12 DEF Phase, Register, RegisterFromContext
  <2>3. Waited BY <1>4, <2>1, <2>2
  <2>. DEFINE c == Wants(u).of
  <2>4. PICK e \in EngineRecord, k \in Capability : Alike(e, engine) /\ e.failed = engine.failed
                                                  /\ (Enrol(c, k, e) \/ Reject(c, k, e) \/ Refuse(c, k, e))
    <3>1. /\ Alike(engine, engine)
          /\ SetActivity(engine, "ACTIVE") \in EngineRecord /\ Alike(SetActivity(engine, "ACTIVE"), engine)
          /\ SetActivity(engine, "ACTIVE").failed = engine.failed
      BY <1>1, Activating DEF Alike
    <3>2. Engine \in Capability /\ Capable(u) \in Capability BY Planned DEF Capability
    <3>. QED BY <1>1, <1>12, <3>1, <3>2 DEF Register, RegisterFromContext
  <2>5. \/ engine' = e /\ UNCHANGED failer
        \/ engine' = Reported(e) /\ failer' = IF StartsCleanup(e) THEN "STARTING" ELSE failer
    BY <2>4 DEF Enrol, Reject, Refuse
  <2>6. Shrinks \/ Grows BY <1>1, <1>12, ContentsJoined
  <2>. QED BY <1>2, <2>3, <2>4, <2>5, <2>6, StageReported
<1>13. ASSUME Decide \/ ReportLoss PROVE Staged'
  <2>1. /\ UNCHANGED <<caller, cleanup, registry, auth, runs, loop, coordinator>> /\ engine' = Reported(engine)
        /\ failer' = IF StartsCleanup(engine) THEN "STARTING" ELSE failer
    BY <1>13 DEF Decide, ReportLoss, NotifyFailed, ReportFailure
  <2>. QED BY <1>1, <1>3, <2>1, ContentsKept, StageReported DEF Alike
\* The engine starts
<1>14. ASSUME NEW u \in Caller, Start(u) PROVE Staged'
  <2>1. caller[u].todo # << >> /\ UNCHANGED <<registry, auth, runs, loop, coordinator, cleanup, failer>>
    BY <1>5, <1>14 DEF Start
  <2>2. CASE engine.state # "CREATED"
    <3>1. Return(u) /\ UNCHANGED engine BY <1>14, <2>2 DEF Start
    <3>2. Waited BY <1>4, <2>1, <3>1
    <3>. QED BY <1>2, <2>1, <3>1, <3>2, ContentsKept
  <2>3. CASE engine.state = "CREATED"
    <3>1. To(u, "BUILD") /\ engine' = [engine EXCEPT !.state = "STARTING", !.startup = FALSE]
      BY <1>14, <2>3 DEF Start
    <3>2. /\ engine'.state = "STARTING" /\ engine'.cleaning = engine.cleaning
          /\ engine'.complete = engine.complete /\ engine'.runtime = engine.runtime
      BY <1>1, <3>1 DEF EngineRecord
    <3>3. caller'[u].at = "BUILD" /\ \A v \in Caller : v # u => caller'[v] = caller[v]
      BY <3>1, Going DEF Phase
    <3>4. \A v \in Caller : ~At(v, {"BUILD", "BUILT"}) BY <2>3 DEF Staged
    <3>5. Untouched /\ engine.complete /\ ~engine.cleaning /\ ~auth.closed BY <2>3 DEF Staged
    <3>6. Untouched' BY <2>1, <3>5 DEF Untouched
    <3>7. \A v \in Caller : v # u => ~At(v, {"BUILD"})' /\ ~At(v, {"BUILT"})' BY <3>3, <3>4 DEF At
    <3>8. ~At(u, {"BUILT"})' BY <3>3 DEF At
    <3>9. \A v \in Caller : At(v, {"BUILD", "BUILT"})' => engine'.state = "STARTING" BY <3>2
    <3>10. failer' = "STARTING" => engine'.runtime BY <2>1, <3>2 DEF Staged
    <3>11. cleanup'.at \notin {"LOOP", "FINISH"} BY <2>1, <3>5 DEF Staged
    <3>. QED BY <2>1, <3>2, <3>5, <3>6, <3>7, <3>8, <3>9, <3>10, <3>11 DEF Staged, Over
  <2>. QED BY <2>2, <2>3
<1>15. ASSUME NEW u \in Caller, Build(u) \/ BuildFails(u) PROVE Staged'
  <2>1. /\ caller[u].at = "BUILD" /\ To(u, "BUILT") /\ auth' = Bootstrapped
        /\ UNCHANGED <<registry, runs, cleanup, failer>>
    BY <1>15 DEF Build, BuildFails
  <2>2. /\ engine'.state = engine.state /\ engine'.cleaning = engine.cleaning
        /\ engine'.complete = engine.complete /\ engine'.runtime
    BY <1>1, <1>15 DEF EngineRecord, Build, BuildFails
  <2>3. caller'[u].at = "BUILT" /\ \A v \in Caller : v # u => caller'[v] = caller[v]
    BY <2>1, Going DEF Phase
  <2>4. At(u, {"BUILD", "BUILT"}) /\ At(u, {"BUILD"}) BY <2>1 DEF At
  <2>5. Untouched /\ engine.state = "STARTING" /\ engine.complete /\ ~engine.cleaning /\ ~auth.closed
    BY <2>4 DEF Staged, Untouched
  <2>6. ~auth'.closed BY <2>1, Issuing
  <2>7. cleanup'.at \notin {"LOOP", "FINISH"} BY <2>1, <2>5 DEF Staged
  <2>8. \A v \in Caller : ~At(v, {"BUILD"})'
    <3>1. ASSUME NEW v \in Caller, v # u PROVE ~At(v, {"BUILD"})'
      <4>1. ~At(v, {"BUILD", "BUILT"}) BY <1>7, <2>4, <3>1
      <4>. QED BY <2>3, <3>1, <4>1 DEF At
    <3>. QED BY <2>3, <3>1 DEF At
  <2>. QED BY <2>2, <2>5, <2>6, <2>7, <2>8 DEF Staged, Over
<1>16. ASSUME NEW u \in Caller, Started(u) PROVE Staged'
  <2>1. /\ caller[u].at = "BUILT" /\ caller[u].todo # << >>
        /\ UNCHANGED <<registry, auth, runs, loop, coordinator, failer>>
    BY <1>6, <1>16 DEF Started
  <2>2. At(u, {"BUILD", "BUILT"}) /\ At(u, {"BUILT"}) BY <2>1 DEF At
  <2>3. engine.state = "STARTING" /\ engine.complete /\ engine.runtime /\ ~engine.cleaning /\ ~auth.closed
    BY <2>2 DEF Staged
  <2>4. caller'[u].at \in {"CLEANS", "IDLE"} /\ \A v \in Caller : v # u => caller'[v] = caller[v]
    <3>1. To(u, "CLEANS") \/ Return(u) BY <1>16 DEF Started
    <3>. QED BY <2>1, <3>1, Going, Returning DEF Phase
  <2>5. \A v \in Caller : ~At(v, {"BUILD", "BUILT"})' /\ ~At(v, {"BUILD"})' /\ ~At(v, {"BUILT"})'
    <3>1. ASSUME NEW v \in Caller, v # u PROVE ~At(v, {"BUILD", "BUILT"})'
      <4>1. ~At(v, {"BUILD", "BUILT"}) BY <1>7, <2>2, <3>1
      <4>. QED BY <2>4, <3>1, <4>1 DEF At
    <3>. QED BY <2>4, <3>1 DEF At
  <2>6. \/ engine' = [engine EXCEPT !.state = "STOPPING", !.cleaning = TRUE, !.complete = FALSE]
           /\ cleanup'.at = "PREPARE"
        \/ engine' = [engine EXCEPT !.state = "RUNNING", !.activity = "IDLE", !.startup = TRUE]
           /\ UNCHANGED cleanup
    BY <1>16 DEF Started, BeginCleanup
  <2>7. /\ engine'.runtime = engine.runtime
        /\ engine'.state \in {"STOPPING", "RUNNING"}
        /\ engine'.cleaning => engine'.state = "STOPPING"
        /\ cleanup'.at \notin {"LOOP", "FINISH"}
    <3>1. cleanup.at \notin {"LOOP", "FINISH"} BY <2>3 DEF Staged
    <3>. QED BY <1>1, <2>3, <2>6, <3>1 DEF EngineRecord
  <2>. QED BY <2>1, <2>3, <2>5, <2>7 DEF Staged, Over
<1>17. ASSUME NEW u \in Caller, Shutdown(u) PROVE Staged'
  <2>1. /\ caller[u].todo # << >> /\ UNCHANGED <<registry, auth, runs, loop, coordinator, cleanup, failer>>
    BY <1>5, <1>17 DEF Shutdown
  <2>2. Return(u) \/ \E at \in Phase \ {"BUILD", "BUILT"} : To(u, at) BY <1>17 DEF Shutdown, Phase
  <2>3. Waited BY <1>4, <2>1, <2>2
  <2>4. \/ UNCHANGED engine
        \/ engine.state = "CREATED" /\ engine' = [engine EXCEPT !.state = "STOPPED"]
        \/ /\ engine.state \notin {"STARTING", "CREATED"} /\ ~engine.cleaning
           /\ engine' = [engine EXCEPT !.cleaning = TRUE, !.complete = FALSE, !.state = "STOPPING"]
    <3>. DEFINE over == engine.state = "STOPPED"
                            \/ (engine.state = "FAILED" /\ (~engine.runtime \/ engine.cleaning))
    <3>1. CASE engine.state = "STARTING" BY <1>17, <3>1 DEF Shutdown
    <3>2. CASE engine.state = "CREATED" BY <1>17, <3>2 DEF Shutdown
    <3>3. CASE engine.state \notin {"STARTING", "CREATED"} /\ over BY <1>17, <3>3 DEF Shutdown
    <3>4. CASE engine.state \notin {"STARTING", "CREATED"} /\ ~over /\ engine.cleaning
      BY <1>17, <3>4 DEF Shutdown
    <3>5. CASE engine.state \notin {"STARTING", "CREATED"} /\ ~over /\ ~engine.cleaning
      BY <1>17, <3>5 DEF Shutdown
    <3>. QED BY <3>1, <3>2, <3>3, <3>4, <3>5
  <2>5. CASE UNCHANGED engine BY <1>2, <2>1, <2>3, <2>5, ContentsKept
  <2>6. \A v \in Caller : (At(v, {"BUILD", "BUILT"})' \/ At(v, {"BUILD"})' \/ At(v, {"BUILT"})')
                              => engine.state = "STARTING"
    <3>1. \A v \in Caller : At(v, {"BUILD", "BUILT"})' => At(v, {"BUILD", "BUILT"}) BY <2>3 DEF Waited, At
    <3>2. \A v \in Caller : At(v, {"BUILD"})' \/ At(v, {"BUILT"})' => At(v, {"BUILD", "BUILT"})' BY DEF At
    <3>. QED BY <3>1, <3>2 DEF Staged
  <2>7. CASE engine.state = "CREATED" /\ engine' = [engine EXCEPT !.state = "STOPPED"]
    <3>1. /\ engine'.state = "STOPPED" /\ engine'.cleaning = engine.cleaning
          /\ engine'.complete = engine.complete /\ engine'.runtime = engine.runtime
      BY <1>1, <2>7 DEF EngineRecord
    <3>2. Untouched /\ engine.complete /\ ~auth.closed /\ ~engine.cleaning BY <2>7 DEF Staged
    <3>3. cleanup'.at \notin {"LOOP", "FINISH"} BY <2>1, <3>2 DEF Staged
    <3>4. failer' = "STARTING" => engine'.runtime BY <2>1, <3>1 DEF Staged
    <3>5. ~auth'.closed /\ loop' # "RUNNING" /\ DOMAIN auth'.grants = {} /\ registry'.contexts = {}
          /\ \A c \in Context, k \in Capability : runs'[c][k] # "ATTACHED"
      BY <2>1, <3>2 DEF Untouched
    <3>. QED BY <2>6, <2>7, <3>1, <3>2, <3>3, <3>4, <3>5 DEF Staged
  <2>8. CASE /\ engine.state \notin {"STARTING", "CREATED"} /\ ~engine.cleaning
             /\ engine' = [engine EXCEPT !.cleaning = TRUE, !.complete = FALSE, !.state = "STOPPING"]
    <3>1. /\ engine'.state = "STOPPING" /\ engine'.cleaning /\ ~engine'.complete
          /\ engine'.runtime = engine.runtime
      BY <1>1, <2>8 DEF EngineRecord
    <3>2. ~auth.closed BY <2>8 DEF Staged
    <3>3. cleanup'.at \notin {"LOOP", "FINISH"} BY <2>1, <3>2 DEF Staged
    <3>4. failer' = "STARTING" => engine'.runtime BY <2>1, <3>1 DEF Staged
    <3>. QED BY <2>1, <2>6, <2>8, <3>1, <3>2, <3>3, <3>4 DEF Staged, Over
  <2>. QED BY <2>4, <2>5, <2>7, <2>8
\* The engine is cleaned up
<1>18. ASSUME FailerNotStarted PROVE Staged'
  <2>1. /\ failer = "STARTING" /\ failer' = "NONE" /\ engine' = FailedStart(engine)
        /\ UNCHANGED <<caller, cleanup, registry, auth, runs, loop, coordinator>>
    BY <1>18 DEF FailerNotStarted
  <2>2. engine.cleaning
    <3>1. Failer \in Cleaner /\ Owns(Failer) BY <2>1 DEF Cleaner, Owns
    <3>. QED BY <1>1, <3>1 DEF Owned
  <2>3. engine.runtime /\ ~auth.closed /\ engine.state \in {"STOPPING", "STOPPED", "FAILED"} BY <2>1, <2>2 DEF Staged
  <2>4. /\ engine'.state = "FAILED" /\ ~engine'.cleaning /\ engine'.complete /\ engine'.runtime
    BY <1>1, <2>1, <2>3 DEF FailedStart, EngineRecord
  <2>5. \A v \in Caller : ~At(v, {"BUILD", "BUILT"})' BY <2>1, <2>3 DEF Staged, At
  <2>6. \A v \in Caller : ~At(v, {"BUILD"})' /\ ~At(v, {"BUILT"})' BY <2>5 DEF At
  <2>7. cleanup'.at \notin {"LOOP", "FINISH"} BY <2>1, <2>3 DEF Staged
  <2>. QED BY <2>1, <2>3, <2>4, <2>5, <2>6, <2>7 DEF Staged, Over
<1>19. ASSUME CloseModules \/ CloseLoop \/ FinishCleanup
       PROVE  /\ cleanup.at # "NONE" /\ engine.cleaning /\ ~engine.complete
              /\ engine.state \in {"STOPPING", "STOPPED", "FAILED"} /\ failer # "STARTING"
              /\ \A v \in Caller : ~At(v, {"BUILD", "BUILT"})' /\ ~At(v, {"BUILD"})' /\ ~At(v, {"BUILT"})'
  <2>1. cleanup.at # "NONE" BY <1>19 DEF CloseModules, CloseLoop, FinishCleanup
  <2>2. CASE UNCHANGED caller BY <2>1, <2>2, Cleaning DEF At
  <2>3. CASE FinishCleanup /\ cleanup.by # Failer
    <3>1. cleanup.by \in Caller /\ caller[cleanup.by].todo # << >> BY <1>1, <2>1, <2>3, Cleans
    <3>2. Return(cleanup.by) BY <2>3 DEF FinishCleanup
    <3>3. /\ caller'[cleanup.by].at = "IDLE"
          /\ \A v \in Caller : v # cleanup.by => caller'[v] = caller[v]
      BY <3>1, <3>2, Returning
    <3>4. \A v \in Caller : caller'[v].at = caller[v].at \/ caller'[v].at = "IDLE" BY <3>3
    <3>. QED BY <2>1, <3>4, Cleaning DEF At
  <2>. QED BY <1>19, <2>2, <2>3 DEF CloseModules, CloseLoop, FinishCleanup
<1>20. ASSUME CloseModules PROVE Staged'
  <2>1. /\ cleanup.at = "CLOSE" /\ Goes("LOOP") /\ auth' = ClosedMessenger
        /\ UNCHANGED <<loop, coordinator, failer, caller>>
    BY <1>20 DEF CloseModules
  <2>2. cleanup'.at = "LOOP" BY <2>1 DEF Goes, TypeOK, EngineType, CleanupRecord
  <2>3. auth'.closed /\ DOMAIN auth'.grants = {} /\ DOMAIN auth'.scopes = {} BY <2>1, Closing
  <2>4. Alike(engine', engine) /\ Emptied'
    <3>1. CASE registry.contexts = {}
      <4>1. registry'.contexts = {} /\ UNCHANGED engine
        BY <1>20, <3>1 DEF CloseModules, TypeOK, ContextType, RegistryRecord
      <4>2. \A c \in Context, k \in Capability : runs'[c][k] # "ATTACHED"
        BY <1>20, <3>1 DEF CloseModules
      <4>. QED BY <4>1, <4>2 DEF Alike, Emptied
    <3>2. CASE registry.contexts # {}
      <4>1. CleanupFails BY <1>20, <3>2 DEF CloseModules
      <4>. QED BY <1>1, <4>1 DEF CleanupFails, Alike, Emptied, EngineRecord
    <3>. QED BY <3>1, <3>2
  <2>5. engine'.cleaning /\ ~engine'.complete /\ engine'.state \in {"STOPPING", "STOPPED", "FAILED"}
    BY <1>19, <1>20, <2>4 DEF Alike
  <2>6. engine'.state # "STOPPED" BY <2>5, <1>19, <1>20, <2>4 DEF Staged, Alike
  <2>. QED BY <1>19, <1>20, <2>1, <2>2, <2>3, <2>4, <2>5, <2>6 DEF Staged, Over
<1>21. ASSUME CloseLoop PROVE Staged'
  <2>1. /\ cleanup.at = "LOOP" /\ Goes("FINISH") /\ engine' = [engine EXCEPT !.runtime = FALSE]
        /\ UNCHANGED <<coordinator, failer, caller, auth, registry, runs>> /\ loop' # "RUNNING"
    BY <1>21 DEF CloseLoop
  <2>2. cleanup'.at = "FINISH" BY <2>1 DEF Goes, TypeOK, EngineType, CleanupRecord
  <2>3. /\ engine'.state = engine.state /\ engine'.cleaning = engine.cleaning
        /\ engine'.complete = engine.complete /\ engine'.failed = engine.failed /\ ~engine'.runtime
    BY <1>1, <2>1 DEF EngineRecord
  <2>4. auth.closed /\ Emptied BY <2>1 DEF Staged
  <2>5. Emptied' BY <2>1, <2>3, <2>4 DEF Emptied
  <2>6. engine'.state # "STOPPED" BY <2>3, <1>19, <1>21 DEF Staged
  <2>. QED BY <1>19, <1>21, <2>1, <2>2, <2>3, <2>4, <2>5, <2>6 DEF Staged, Over
<1>22. ASSUME FinishCleanup PROVE Staged'
  <2>1. /\ cleanup.at = "FINISH" /\ cleanup' = NoCleanup
        /\ UNCHANGED <<loop, coordinator, auth, registry, runs>>
        /\ engine' = [engine EXCEPT !.state = IF engine.failed THEN "FAILED" ELSE "STOPPED",
                                    !.activity = "IDLE", !.complete = TRUE, !.startup = TRUE]
        /\ failer' = "DONE" \/ UNCHANGED failer
    BY <1>22 DEF FinishCleanup
  <2>2. cleanup'.at = "NONE" BY <2>1 DEF NoCleanup
  <2>3. /\ engine'.state = IF engine.failed THEN "FAILED" ELSE "STOPPED"
        /\ engine'.cleaning /\ engine'.complete /\ engine'.runtime = engine.runtime
    BY <1>1, <1>19, <1>22, <2>1 DEF EngineRecord
  <2>4. auth.closed /\ Emptied /\ loop # "RUNNING" /\ DOMAIN auth.grants = {} /\ DOMAIN auth.scopes = {}
    BY <2>1 DEF Staged
  <2>5. engine'.state = "STOPPED" => /\ registry'.contexts = {}
                                     /\ \A c \in Context, k \in Capability : runs'[c][k] # "ATTACHED"
    BY <2>1, <2>3, <2>4 DEF Emptied
  <2>. QED BY <1>19, <1>22, <2>1, <2>2, <2>3, <2>4, <2>5 DEF Staged
<1>23. ASSUME UNCHANGED vars PROVE Staged'
  <2>1. UNCHANGED <<engine, failer, caller, cleanup, registry, auth, runs, loop, coordinator>> BY <1>23 DEF vars
  <2>. QED BY <1>2, <1>3, <2>1, ContentsKept
<1>. QED
  BY <1>8, <1>9, <1>10, <1>11, <1>12, <1>13, <1>14, <1>15, <1>16, <1>17, <1>18, <1>20, <1>21, <1>22, <1>23
     DEF Next, Begin, Continue, Coordinator, Cleanup
-----------------------------------------------------------------------------
(* Authority                                                                 *)

LEMMA GrantsStay ==
    ASSUME TypeOK, Granted, UNCHANGED <<plan, auth>>, registry'.contexts = registry.contexts,
           \A c \in Context, k \in Capability :
               runs'[c][k] = "ATTACHED" => runs[c][k] = "ATTACHED" \/ (Active(auth, k) /\ c \in registry.contexts),
           loop' = "RUNNING" => loop = "RUNNING",
           \A u \in Caller : caller'[u].at = "NOTIFY" => caller[u].at = "NOTIFY" \/ IsController(auth, Capable(u))
    PROVE  Granted'
<1>1. AccessAgrees' BY DEF Granted, AccessAgrees
<1>2. \A u \in Caller : At(u, {"NOTIFY"})' => auth.closed \/ IsController(auth, Capable(u))
  BY DEF Granted, At
<1>3. \A u \in Caller : Capable(u)' = Capable(u) BY DEF Capable
<1>. QED BY <1>1, <1>2, <1>3 DEF Granted

\* Contexts lose their capabilities when they leave the registry.
LEMMA GrantsRevoked ==
    ASSUME TypeOK, Granted, Locked, NEW C \in SUBSET Context, Close(C),
           registry'.contexts = registry.contexts \ C, UNCHANGED <<plan, loop, caller>>, lock.registry = Nobody
    PROVE  Granted'
<1>1. /\ auth'.closed = auth.closed
      /\ DOMAIN auth'.grants = DOMAIN auth.grants \ C /\ DOMAIN auth'.scopes = DOMAIN auth.scopes \ C
      /\ \A k \in DOMAIN auth'.grants : auth'.grants[k] = auth.grants[k]
      /\ \A c \in Context, k \in Capability :
            runs'[c][k] = "ATTACHED" => runs[c][k] = "ATTACHED" /\ c \notin C /\ k \notin C
  BY Closed
<1>2. AccessAgrees' BY <1>1 DEF Granted, AccessAgrees, Active
<1>3. ASSUME NEW k \in DOMAIN auth'.grants
      PROVE  /\ k \in {Engine, Modules} \cup DOMAIN auth'.scopes
             /\ auth'.grants[k].kind = "CONTEXT" => k \in DOMAIN auth'.scopes
  BY <1>1 DEF Granted
<1>4. loop' = "RUNNING" /\ ~auth'.closed => Active(auth', Engine)
  <2>1. Engine \notin C BY ServiceAssumption
  <2>. QED BY <1>1, <2>1 DEF Granted, Active
<1>5. \A u \in Caller : ~At(u, {"NOTIFY"})'
  <2>1. \A u \in Caller : lock.registry # u BY ServiceAssumption
  <2>. QED BY <2>1 DEF Locked, At
<1>. QED BY <1>2, <1>3, <1>4, <1>5 DEF Granted

\* A registration issues the capability of its context.
LEMMA GrantsJoined ==
    ASSUME TypeOK, Granted, NEW c \in Context, c \notin registry.contexts, NEW k \in Capability, NEW e,
           Enrol(c, k, e), UNCHANGED <<plan, loop>>, k = Engine \/ IsController(auth, k),
           \A u \in Caller : caller'[u].at = "NOTIFY" => caller[u].at = "NOTIFY"
    PROVE  Granted'
<1>1. /\ registry'.contexts = registry.contexts \cup {c}
      /\ ~auth.closed /\ auth'.closed = auth.closed /\ loop = "RUNNING"
      /\ DOMAIN auth'.grants = DOMAIN auth.grants \cup {c}
      /\ DOMAIN auth'.scopes = DOMAIN auth.scopes \cup {c}
      /\ \A g \in DOMAIN auth.grants : g # c => auth'.grants[g] = auth.grants[g]
      /\ \A d \in Context, g \in Capability :
            runs'[d][g] = "ATTACHED" => runs[d][g] = "ATTACHED" \/ (d = c /\ g = k)
  BY Enrolled
<1>2. Active(auth, k) /\ Active(auth, Engine) BY <1>1 DEF Granted, IsController
<1>3. AccessAgrees' BY <1>1, <1>2 DEF Granted, AccessAgrees, Active
<1>4. ASSUME NEW g \in DOMAIN auth'.grants
      PROVE  /\ g \in {Engine, Modules} \cup DOMAIN auth'.scopes
             /\ auth'.grants[g].kind = "CONTEXT" => g \in DOMAIN auth'.scopes
  BY <1>1 DEF Granted
<1>5. Active(auth', Engine) BY <1>1, <1>2 DEF Active
<1>6. ASSUME NEW u \in Caller, At(u, {"NOTIFY"})' PROVE IsController(auth', Capable(u)')
  <2>1. IsController(auth, Capable(u)) /\ Capable(u)' = Capable(u)
    BY <1>1, <1>6 DEF Granted, At, Capable
  <2>2. Capable(u) \in registry.contexts BY <1>1, <2>1 DEF Granted, AccessAgrees, IsController, Active
  <2>. QED BY <1>1, <2>1, <2>2 DEF IsController, Active
<1>. QED BY <1>3, <1>4, <1>5, <1>6 DEF Granted

LEMMA GrantsKept ==
    ASSUME TypeOK, ThreadsInv, Staged, Recorded, Granted, [Next]_vars
    PROVE  Granted'
<1>1. Occupied /\ Locked /\ registry \in RegistryRecord /\ registry.contexts \subseteq Context
  BY DEF ThreadsInv, TypeOK, ContextType, RegistryRecord
<1>2. ASSUME UNCHANGED <<plan, auth, registry, runs, loop>>,
             \A u \in Caller : caller'[u].at = "NOTIFY" => caller[u].at = "NOTIFY" \/ IsController(auth, Capable(u))
      PROVE  Granted'
  BY <1>2, GrantsStay
<1>3. ASSUME NEW u \in Caller, caller[u].todo # << >>, Return(u) \/ \E at \in Phase \ {"NOTIFY"} : To(u, at)
      PROVE  \A v \in Caller : caller'[v].at = "NOTIFY" => caller[v].at = "NOTIFY"
  BY <1>3, Going, Returning
<1>4. ASSUME NEW u \in Caller, NEW op, Calls(u, op) PROVE caller[u].todo # << >>
  BY <1>4 DEF Calls
<1>5. ASSUME NEW u \in Caller, caller[u].at # "IDLE" PROVE caller[u].todo # << >>
  BY <1>1, <1>5 DEF Occupied
<1>6. ASSUME UNCHANGED <<plan, auth, registry, runs, loop, caller>> PROVE Granted' BY <1>2, <1>6
\* Threads
<1>7. ASSUME NEW u \in Caller,
             \/ Start(u) \/ Submit(u) \/ Wait(u) \/ Control(u) \/ RequestShutdown(u) \/ Serve(u) \/ Shutdown(u)
             \/ Wake(u) \/ Submitted(u) \/ StartAwaited(u) \/ Joined(u) \/ Own(u) \/ Started(u)
      PROVE  Granted'
  <2>1. caller[u].todo # << >>
    BY <1>4, <1>5, <1>7 DEF Start, Submit, Wait, Control, RequestShutdown, Serve, Shutdown, Wake, Submitted,
       StartAwaited, Joined, Own, Started
  <2>2. Return(u) \/ \E at \in Phase \ {"NOTIFY"} : To(u, at)
    BY <1>7 DEF Phase, Start, Submit, Wait, Control, RequestShutdown, Serve, Shutdown, Wake, Submitted,
       StartAwaited, Joined, Own, Started
  <2>3. UNCHANGED <<plan, auth, registry, runs, loop>>
    BY <1>7 DEF Start, Submit, Wait, Control, RequestShutdown, Serve, Shutdown, Wake, Submitted,
       StartAwaited, Joined, Own, Started
  <2>. QED BY <1>2, <1>3, <2>1, <2>2, <2>3
<1>8. ASSUME NEW u \in Caller, SubmitFromContext(u) PROVE Granted'
  <2>1. caller[u].todo # << >> /\ UNCHANGED <<plan, auth, registry, runs, loop>>
    BY <1>4, <1>8 DEF SubmitFromContext
  <2>2. CASE Return(u) BY <1>2, <1>3, <2>1, <2>2
  <2>3. CASE ~Return(u)
    <3>1. To(u, "NOTIFY") /\ IsController(auth, Capable(u)) BY <1>8, <2>3 DEF SubmitFromContext
    <3>2. \A v \in Caller : caller'[v].at = "NOTIFY" => caller[v].at = "NOTIFY" \/ v = u
      BY <3>1, Going DEF Phase
    <3>. QED BY <1>2, <2>1, <3>1, <3>2
  <2>. QED BY <2>2, <2>3
<1>9. ASSUME NEW u \in Caller, List(u) PROVE Granted'
  <2>1. caller[u].todo # << >> /\ Return(u) /\ UNCHANGED plan BY <1>4, <1>9 DEF List
  <2>2. /\ UNCHANGED <<registry, auth, loop>>
        /\ \A c \in Context, k \in Capability :
              runs'[c][k] = "ATTACHED" =>
                  runs[c][k] = "ATTACHED" \/ (Active(auth, k) /\ c \in registry.contexts)
    BY <1>9, Listed
  <2>. QED BY <1>3, <2>1, <2>2, GrantsStay
<1>10. ASSUME NEW u \in Caller, Build(u) \/ BuildFails(u) PROVE Granted'
  <2>1. /\ caller[u].at = "BUILD" /\ caller[u].todo # << >> /\ To(u, "BUILT") /\ auth' = Bootstrapped
        /\ UNCHANGED <<plan, registry, runs>>
    BY <1>5, <1>10 DEF Build, BuildFails
  <2>2. Untouched
    <3>1. At(u, {"BUILD"}) BY <2>1 DEF At
    <3>. QED BY <3>1 DEF Staged
  <2>3. /\ ~auth'.closed /\ DOMAIN auth'.grants = {Engine, Modules} /\ DOMAIN auth'.scopes = {}
        /\ \A k \in {Engine, Modules} : auth'.grants[k].kind # "CONTEXT"
    BY <2>1, Issuing
  <2>4. AccessAgrees' BY <2>1, <2>2, <2>3 DEF AccessAgrees, Untouched
  <2>5. ASSUME NEW v \in Caller PROVE ~At(v, {"NOTIFY"})'
    <3>1. ~At(v, {"NOTIFY"}) BY <2>2 DEF Granted, Untouched, IsController, Active
    <3>2. caller'[v].at = "NOTIFY" => caller[v].at = "NOTIFY" BY <1>3, <2>1 DEF Phase
    <3>. QED BY <3>1, <3>2 DEF At
  <2>. QED BY <2>3, <2>4, <2>5 DEF Granted, Active
<1>11. ASSUME NEW u \in Caller, Register(u) \/ RegisterFromContext(u) PROVE Granted'
  <2>1. /\ At(u, {"REGISTER", "NOTIFY"}) /\ caller[u].todo # << >> /\ UNCHANGED <<plan, loop>>
        /\ Return(u) \/ To(u, "SUBMITTED")
    BY <1>5, <1>11 DEF Register, RegisterFromContext, At
  <2>2. Wants(u).of \in Context /\ Wants(u).of \notin registry.contexts BY <1>1, <2>1, Entering
  <2>3. \A v \in Caller : caller'[v].at = "NOTIFY" => caller[v].at = "NOTIFY" BY <1>3, <2>1 DEF Phase
  <2>4. PICK k \in Capability, e \in Bases :
           /\ Enrol(Wants(u).of, k, e) \/ Reject(Wants(u).of, k, e) \/ Refuse(Wants(u).of, k, e)
           /\ k = Engine \/ (k = Capable(u) /\ At(u, {"NOTIFY"}))
    BY <1>11, Planned DEF Bases, Register, RegisterFromContext, Capability, At
  <2>. DEFINE c == Wants(u).of
  <2>5. c \in Context /\ c \notin registry.contexts BY <2>2
  <2>6. Enrol(c, k, e) \/ Reject(c, k, e) \/ Refuse(c, k, e) BY <2>4
  <2>. HIDE DEF c
  <2>7. CASE Enrol(c, k, e)
    <3>1. ~auth.closed BY <2>5, <2>7, Enrolled
    <3>2. k = Engine \/ IsController(auth, k) BY <2>4, <3>1 DEF Granted
    <3>. QED BY <2>1, <2>3, <2>5, <2>7, <3>2, GrantsJoined
  <2>8. CASE Reject(c, k, e)
    <3>1. /\ UNCHANGED <<registry, auth>>
          /\ \A d \in Context, g \in Capability : runs'[d][g] = "ATTACHED" => runs[d][g] = "ATTACHED"
      BY <2>5, <2>8, Rejected
    <3>. QED BY <2>1, <2>3, <3>1, GrantsStay
  <2>9. CASE Refuse(c, k, e)
    <3>1. UNCHANGED <<registry, auth, runs>> BY <2>9 DEF Refuse
    <3>. QED BY <1>2, <2>1, <2>3, <3>1
  <2>. QED BY <2>6, <2>7, <2>8, <2>9
\* Contexts leave the registry
<1>12. ASSUME Finalize PROVE Granted'
  <2>1. turn.of \in Context /\ Close({turn.of}) /\ lock.registry = Nobody /\ UNCHANGED <<plan, loop, caller>>
    BY <1>12 DEF Finalize, Recorded, Free
  <2>2. registry'.contexts = registry.contexts \ {turn.of} BY <1>1, <1>12 DEF Finalize, RegistryRecord
  <2>. QED BY <1>1, <2>1, <2>2, GrantsRevoked
<1>13. ASSUME HandleShutdown \/ StopAuthority \/ Prepare PROVE Granted'
  <2>1. PICK forced \in BOOLEAN : ShutDown(forced) BY <1>13 DEF HandleShutdown, StopAuthority, Prepare
  <2>2. lock.registry = Nobody /\ UNCHANGED <<plan, loop, caller>>
    BY <1>13 DEF HandleShutdown, StopAuthority, Prepare, Free
  <2>3. PICK C \in SUBSET Context : Close(C) /\ registry' = [registry EXCEPT !.contexts = registry.contexts \ C,
                                        !.requested = TRUE, !.forced = registry.forced \/ forced]
    BY <1>1, <2>1 DEF ShutDown
  <2>4. registry'.contexts = registry.contexts \ C BY <1>1, <2>3 DEF RegistryRecord
  <2>. QED BY <1>1, <2>2, <2>3, <2>4, GrantsRevoked
<1>14. ASSUME Drain PROVE Granted'
  <2>1. Close(registry.contexts) /\ lock.registry = Nobody /\ UNCHANGED <<plan, loop, caller>>
    BY <1>14 DEF Drain, Free
  <2>2. registry'.contexts = registry.contexts \ registry.contexts BY <1>1, <1>14 DEF Drain, RegistryRecord
  <2>. QED BY <1>1, <2>1, <2>2, GrantsRevoked
<1>15. ASSUME CloseModules PROVE Granted'
  <2>1. auth'.closed /\ DOMAIN auth'.grants = {} BY <1>15, Closing DEF CloseModules
  <2>. QED BY <2>1 DEF Granted, AccessAgrees
<1>16. ASSUME CloseLoop PROVE Granted'
  <2>1. UNCHANGED <<plan, auth, registry, runs, caller>> /\ loop' # "RUNNING" BY <1>16 DEF CloseLoop
  <2>. QED BY <2>1, GrantsStay
<1>17. ASSUME FinishCleanup PROVE Granted'
  <2>1. UNCHANGED <<plan, auth, registry, runs, loop>> BY <1>17 DEF FinishCleanup
  <2>2. CASE cleanup.by = Failer BY <1>2, <1>17, <2>1, <2>2 DEF FinishCleanup
  <2>3. CASE cleanup.by # Failer
    <3>1. cleanup.by \in Caller /\ caller[cleanup.by].todo # << >> BY <1>1, <1>17, <2>3, Cleans DEF FinishCleanup
    <3>2. Return(cleanup.by) BY <1>17, <2>3 DEF FinishCleanup
    <3>. QED BY <1>2, <1>3, <2>1, <3>1, <3>2
  <2>. QED BY <2>2, <2>3
<1>18. ASSUME \/ \E c \in Context : EndWork(c)
              \/ Deliver \/ HandleRegistered \/ HandleTerminated \/ HandleIdle \/ HandleControl \/ Discard
              \/ Complete \/ FinishRun \/ Lose \/ Decide \/ ReportLoss
       PROVE  Granted'
  BY <1>6, <1>18 DEF EndWork, Deliver, HandleRegistered, HandleTerminated, HandleIdle, HandleControl, Discard,
     Complete, FinishRun, Lose, Decide, ReportLoss
<1>19. ASSUME FailerStarts \/ FailerNotStarted \/ Coordinate \/ Coordinated \/ Escalate \/ GiveUp \/ DrainTimesOut
       PROVE  Granted'
  BY <1>6, <1>19 DEF FailerStarts, FailerNotStarted, Coordinate, Coordinated, Escalate, GiveUp, DrainTimesOut
<1>20. ASSUME UNCHANGED vars PROVE Granted' BY <1>6, <1>20 DEF vars
<1>. QED
  BY <1>7, <1>8, <1>9, <1>10, <1>11, <1>12, <1>13, <1>14, <1>15, <1>16, <1>17, <1>18, <1>19, <1>20
     DEF Next, Begin, Continue, Coordinator, Cleanup
-----------------------------------------------------------------------------
(* The coordinator                                                           *)

LEMMA IdleDelivered ==
    ASSUME queue \in QueueOf(Mail), NEW m \in Mail, queue' = Put(queue, m), IdleIsComing
    PROVE  IdleIsComing'
<1>1. PICK i \in DOMAIN queue.active : queue.active[i].type = "Idle" BY DEF IdleIsComing
<1>2. queue'.active = queue.active \/ queue'.active = Append(queue.active, m)
  BY DEF QueueOf, Put, Lane
<1>3. queue.active \in Seq(Mail) BY DEF QueueOf
<1>4. i \in DOMAIN Append(queue.active, m) /\ Append(queue.active, m)[i] = queue.active[i]
  BY <1>3, Appending
<1>. QED BY <1>1, <1>2, <1>4 DEF IdleIsComing

LEMMA IdlePut ==
    ASSUME NEW q \in QueueOf(Mail), queue' = Put(q, Message("Idle", NoContext))
    PROVE  IdleIsComing'
<1>. DEFINE m == Message("Idle", NoContext)
<1>1. m.type = "Idle" /\ m \in Mail BY DEF Message, Mail, Targeted
<1>2. Lane(m) = "active" BY <1>1 DEF Lane
<1>3. queue'.active = Append(q.active, m) BY <1>2 DEF Put, QueueOf
<1>4. q.active \in Seq(Mail) BY DEF QueueOf
<1>. HIDE DEF m
<1>5. PICK i \in DOMAIN Append(q.active, m) : Append(q.active, m)[i] = m BY <1>1, <1>4, Appending
<1>. QED BY <1>1, <1>3, <1>5 DEF IdleIsComing

\* Only an idle message itself is taken before it.
LEMMA IdleNotTaken ==
    ASSUME queue \in QueueOf(Mail), ~QueueEmpty, Due.type # "Idle", queue' = Taken, IdleIsComing
    PROVE  IdleIsComing'
<1>1. PICK i \in DOMAIN queue.active : queue.active[i].type = "Idle" BY DEF IdleIsComing
<1>2. queue.active \in Seq(Mail) BY DEF QueueOf
<1>3. CASE queue.active = << >>
  <2>1. DueLane = "submissions" BY <1>3 DEF DueLane
  <2>2. queue'.active = queue.active BY <2>1 DEF Taken, QueueOf
  <2>. QED BY <1>1, <2>2 DEF IdleIsComing
<1>4. CASE queue.active # << >>
  <2>1. DueLane = "active" BY <1>4 DEF DueLane
  <2>2. queue'.active = Tail(queue.active) /\ Due = Head(queue.active) BY <2>1 DEF Taken, QueueOf, Due
  <2>3. Head(queue.active) = queue.active[1] BY <1>2, <1>4, Taking
  <2>4. i # 1 BY <1>1, <2>2, <2>3
  <2>5. i - 1 \in DOMAIN Tail(queue.active) /\ Tail(queue.active)[i - 1] = queue.active[i]
    BY <1>2, <1>4, <2>4, Taking
  <2>. QED BY <1>1, <2>2, <2>5 DEF IdleIsComing
<1>. QED BY <1>3, <1>4

Barrier ==
    /\ coordinator \in {"STOPPING", "STOPPED", "DONE"} => registry.requested
    /\ coordinator \in {"STOPPED", "DONE"} => registry.contexts = {}

LEMMA BarrierKept ==
    ASSUME TypeOK, Occupied, Recorded, Barrier, [Next]_vars
    PROVE  Barrier'
<1>1. registry \in RegistryRecord BY DEF TypeOK, ContextType
<1>2. ASSUME UNCHANGED coordinator \/ coordinator' \notin {"STOPPING", "STOPPED", "DONE"},
             registry'.requested = registry.requested, registry'.contexts \subseteq registry.contexts
      PROVE  Barrier'
  BY <1>2 DEF Barrier
<1>3. ASSUME NEW u \in Caller, Register(u) \/ RegisterFromContext(u) PROVE Barrier'
  <2>1. At(u, {"REGISTER", "NOTIFY"}) /\ UNCHANGED coordinator BY <1>3 DEF Register, RegisterFromContext, At
  <2>2. Wants(u).of \in Context BY <2>1, Entering
  <2>3. PICK k \in Capability, e \in Bases : Enrol(Wants(u).of, k, e) \/ Reject(Wants(u).of, k, e) \/ Refuse(Wants(u).of, k, e)
    BY <1>3, Planned DEF Bases, Register, RegisterFromContext, Capability
  <2>4. CASE Enrol(Wants(u).of, k, e)
    <3>1. ~registry.requested BY <2>2, <2>4, Enrolled
    <3>. QED BY <2>1, <3>1 DEF Barrier
  <2>5. CASE Reject(Wants(u).of, k, e) \/ Refuse(Wants(u).of, k, e)
    <3>1. UNCHANGED registry BY <2>5 DEF Reject, Refuse
    <3>. QED BY <1>2, <2>1, <3>1
  <2>. QED BY <2>3, <2>4, <2>5
<1>4. ASSUME HandleShutdown \/ StopAuthority \/ Prepare PROVE Barrier'
  <2>1. PICK forced \in BOOLEAN : ShutDown(forced) BY <1>4 DEF HandleShutdown, StopAuthority, Prepare
  <2>2. registry'.requested /\ registry'.contexts \subseteq registry.contexts BY <2>1, Shutting
  <2>3. coordinator' = "STOPPING" \/ coordinator' = "CANCELLED" \/ UNCHANGED coordinator
    BY <1>4 DEF HandleShutdown, StopAuthority, Prepare
  <2>. QED BY <2>2, <2>3 DEF Barrier
<1>5. ASSUME Finalize \/ Drain \/ CloseModules PROVE Barrier'
  <2>1. registry'.requested = registry.requested /\ registry'.contexts \subseteq registry.contexts
    <3>1. \/ \E C : registry' = [registry EXCEPT !.contexts = registry.contexts \ C]
          \/ registry' = [registry EXCEPT !.contexts = {}]
          \/ registry' = [registry EXCEPT !.closed = TRUE]
          \/ UNCHANGED registry
      BY <1>5 DEF Finalize, Drain, CloseModules
    <3>. QED BY <1>1, <3>1 DEF RegistryRecord
  <2>. QED BY <1>2, <1>5, <2>1 DEF Finalize, Drain, CloseModules
<1>6. ASSUME Complete \/ FinishRun PROVE Barrier' BY <1>6 DEF Complete, FinishRun, Barrier
<1>7. ASSUME NEW u \in Caller,
              \/ Start(u) \/ Submit(u) \/ SubmitFromContext(u) \/ Wait(u) \/ Control(u) \/ List(u)
              \/ RequestShutdown(u) \/ Serve(u) \/ Shutdown(u) \/ Started(u) \/ Build(u) \/ BuildFails(u)
              \/ Wake(u) \/ Submitted(u) \/ StartAwaited(u) \/ Joined(u) \/ Own(u)
      PROVE   Barrier'
  <2>1. UNCHANGED registry /\ (UNCHANGED coordinator \/ coordinator' = "RUNNING")
    BY <1>7 DEF Start, Submit, SubmitFromContext, Wait, Control, List, RequestShutdown, Serve, Shutdown,
       Started, Build, BuildFails, Wake, Submitted, StartAwaited, Joined, Own
  <2>. QED BY <1>2, <2>1
<1>8. ASSUME \/ \E c \in Context : EndWork(c)
             \/ Deliver \/ HandleRegistered \/ HandleTerminated \/ HandleIdle \/ HandleControl \/ Discard
             \/ Lose \/ Decide \/ ReportLoss
       PROVE  Barrier'
  <2>1. UNCHANGED registry /\ (UNCHANGED coordinator \/ coordinator' = "LOST")
    BY <1>8 DEF EndWork, Deliver, HandleRegistered, HandleTerminated, HandleIdle, HandleControl, Discard,
       Lose, Decide, ReportLoss
  <2>. QED BY <1>2, <2>1
<1>9. ASSUME FailerStarts \/ FailerNotStarted \/ Coordinate \/ Coordinated \/ Escalate \/ GiveUp \/ DrainTimesOut
              \/ CloseLoop \/ FinishCleanup
       PROVE  Barrier'
  <2>1. UNCHANGED <<registry, coordinator>>
    BY <1>9 DEF FailerStarts, FailerNotStarted, Coordinate, Coordinated, Escalate, GiveUp, DrainTimesOut,
       CloseLoop, FinishCleanup
  <2>. QED BY <1>2, <2>1
<1>10. ASSUME UNCHANGED vars PROVE Barrier' BY <1>2, <1>10 DEF vars
<1>. QED
  BY <1>3, <1>4, <1>5, <1>6, <1>7, <1>8, <1>9, <1>10 DEF Next, Begin, Continue, Coordinator, Cleanup

\* An engine whose owner would still see it as active.
Unsettled == engine.state = "RUNNING" /\ coordinator = "RUNNING" /\ engine.activity # "IDLE"

LEMMA SettlingKept ==
    ASSUME TypeOK, ThreadsInv, Staged, Recorded, Granted, Settling, [Next]_vars
    PROVE  Settling'
<1>1. /\ Occupied /\ Locked /\ engine \in EngineRecord /\ queue \in QueueOf(Mail)
      /\ registry \in RegistryRecord
  BY DEF ThreadsInv, TypeOK, EngineType, ContextType
<1>2. ASSUME ~Unsettled' PROVE Settling' BY <1>2 DEF Unsettled, Settling
<1>3. ASSUME Unsettled' => Unsettled, registry.contexts \subseteq registry'.contexts, IdleIsComing => IdleIsComing'
      PROVE  Settling'
  BY <1>3 DEF Unsettled, Settling
<1>4. ASSUME UNCHANGED <<engine, coordinator, registry, queue>> PROVE Settling'
  BY <1>3, <1>4 DEF Unsettled, IdleIsComing
<1>5. ASSUME NEW e \in EngineRecord, Reported(e).state = "RUNNING"
      PROVE  e.state = "RUNNING" /\ Reported(e).activity = e.activity
  BY <1>5, Reporting
<1>6. engine.state = "RUNNING" => ~auth.closed BY DEF Staged
\* Submissions
<1>7. ASSUME NEW u \in Caller, Register(u) \/ RegisterFromContext(u) PROVE Settling'
  <2>1. At(u, {"REGISTER", "NOTIFY"}) /\ UNCHANGED <<coordinator, queue>>
    BY <1>7 DEF Register, RegisterFromContext, At
  <2>2. Wants(u).of \in Context BY <1>1, <2>1, Entering
  <2>3. PICK k \in Capability, e \in Bases :
           /\ Enrol(Wants(u).of, k, e) \/ Reject(Wants(u).of, k, e) \/ Refuse(Wants(u).of, k, e)
           /\ e = engine \/ (At(u, {"NOTIFY"}) /\ e = SetActivity(engine, "ACTIVE"))
    BY <1>7, Planned DEF Bases, Register, RegisterFromContext, Capability, At
  <2>4. registry.contexts \subseteq registry'.contexts
    BY <2>2, <2>3, Enrolled DEF Reject, Refuse
  <2>5. engine' = e \/ engine' = Reported(e) BY <2>3 DEF Enrol, Reject, Refuse
  <2>6. e \in EngineRecord /\ (e.state = "RUNNING" => engine.state = "RUNNING")
    BY <1>1, <2>3, Activating DEF Alike
  <2>7. engine'.state = "RUNNING" => engine.state = "RUNNING" /\ engine'.activity = e.activity
    BY <1>5, <2>5, <2>6
  <2>8. CASE e = engine
    <3>1. Unsettled' => Unsettled BY <2>1, <2>7, <2>8 DEF Unsettled
    <3>2. IdleIsComing => IdleIsComing' BY <2>1 DEF IdleIsComing
    <3>. QED BY <1>3, <2>4, <3>1, <3>2
  <2>9. CASE At(u, {"NOTIFY"})
    <3>1. ASSUME engine'.state = "RUNNING" PROVE registry'.contexts # {}
      <4>1. ~auth.closed /\ IsController(auth, Capable(u)) BY <1>6, <2>7, <2>9, <3>1 DEF Granted
      <4>2. Capable(u) \in registry.contexts BY <4>1 DEF Granted, AccessAgrees, IsController, Active
      <4>. QED BY <2>4, <4>2
    <3>. QED BY <3>1 DEF Settling
  <2>. QED BY <2>3, <2>8, <2>9
<1>8. ASSUME NEW u \in Caller, Submitted(u) PROVE Settling'
  <2>1. UNCHANGED <<coordinator, registry, queue>>
        /\ engine' = SetActivity(engine, IF registry.contexts = {} THEN "IDLE" ELSE "ACTIVE")
    BY <1>8 DEF Submitted
  <2>2. CASE registry.contexts = {}
    <3>1. Alike(engine', engine) /\ (engine.state = "RUNNING" => engine'.activity = "IDLE")
      BY <1>1, <2>1, <2>2, Activating
    <3>. QED BY <1>2, <3>1 DEF Unsettled, Alike
  <2>3. CASE registry.contexts # {} BY <2>1, <2>3 DEF Settling
  <2>. QED BY <2>2, <2>3
\* Threads that move the engine
<1>9. ASSUME NEW u \in Caller, Start(u) \/ Build(u) \/ BuildFails(u) \/ Started(u) \/ Shutdown(u) PROVE Settling'
  <2>1. UNCHANGED <<registry, queue>> /\ (IdleIsComing => IdleIsComing')
    BY <1>9 DEF Start, Build, BuildFails, Started, Shutdown, IdleIsComing
  <2>2. CASE Build(u) \/ BuildFails(u)
    <3>1. At(u, {"BUILD", "BUILT"}) BY <2>2 DEF Build, BuildFails, At
    <3>2. engine.state = "STARTING" BY <3>1 DEF Staged
    <3>3. engine'.state = engine.state BY <1>1, <2>2 DEF Build, BuildFails, EngineRecord
    <3>. QED BY <1>2, <3>2, <3>3 DEF Unsettled
  <2>3. CASE Started(u)
    <3>1. engine'.state = "STOPPING" \/ engine'.activity = "IDLE" BY <1>1, <2>3 DEF Started, EngineRecord
    <3>. QED BY <1>2, <3>1 DEF Unsettled
  <2>4. CASE Start(u)
    <3>1. UNCHANGED <<engine, coordinator>> \/ engine'.state = "STARTING"
      BY <1>1, <2>4 DEF Start, EngineRecord
    <3>. QED BY <1>2, <1>4, <2>1, <3>1 DEF Unsettled
  <2>5. CASE Shutdown(u)
    <3>. DEFINE over == engine.state = "STOPPED"
                            \/ (engine.state = "FAILED" /\ (~engine.runtime \/ engine.cleaning))
    <3>1. UNCHANGED coordinator BY <2>5 DEF Shutdown
    <3>2. UNCHANGED engine \/ engine' = [engine EXCEPT !.state = "STOPPED"]
          \/ engine' = [engine EXCEPT !.cleaning = TRUE, !.complete = FALSE, !.state = "STOPPING"]
      <4>1. CASE engine.state = "STARTING" BY <2>5, <4>1 DEF Shutdown
      <4>2. CASE engine.state = "CREATED" BY <2>5, <4>2 DEF Shutdown
      <4>3. CASE engine.state \notin {"STARTING", "CREATED"} /\ over BY <2>5, <4>3 DEF Shutdown
      <4>4. CASE engine.state \notin {"STARTING", "CREATED"} /\ ~over /\ engine.cleaning
        BY <2>5, <4>4 DEF Shutdown
      <4>5. CASE engine.state \notin {"STARTING", "CREATED"} /\ ~over /\ ~engine.cleaning
        BY <2>5, <4>5 DEF Shutdown
      <4>. QED BY <4>1, <4>2, <4>3, <4>4, <4>5
    <3>3. UNCHANGED engine \/ engine'.state \in {"STOPPED", "STOPPING"} BY <1>1, <3>2 DEF EngineRecord
    <3>. QED BY <1>2, <1>4, <2>1, <3>1, <3>3 DEF Unsettled
  <2>. QED BY <1>9, <2>2, <2>3, <2>4, <2>5
\* The coordinator
<1>10. ASSUME Deliver PROVE Settling'
  <2>1. calls \in Seq(Mail) /\ calls # << >> /\ queue' = Put(queue, Head(calls))
        /\ UNCHANGED <<engine, coordinator, registry>>
    BY <1>10 DEF Deliver, TypeOK, ContextType
  <2>2. Head(calls) \in Mail BY <2>1, Taking
  <2>3. IdleIsComing => IdleIsComing' BY <1>1, <2>1, <2>2, IdleDelivered
  <2>. QED BY <1>3, <2>1, <2>3 DEF Unsettled
<1>11. ASSUME HandleRegistered \/ HandleTerminated \/ HandleControl \/ Discard PROVE Settling'
  <2>1. ~QueueEmpty /\ queue' = Taken /\ UNCHANGED <<engine, coordinator, registry>>
    BY <1>11 DEF HandleRegistered, HandleTerminated, HandleControl, Discard, Handles
  <2>2. CASE coordinator # "RUNNING" BY <1>2, <2>1, <2>2 DEF Unsettled
  <2>3. CASE coordinator = "RUNNING"
    <3>1. Due.type # "Idle"
      BY <1>11, <2>3 DEF HandleRegistered, HandleTerminated, HandleControl, Discard, Handles, Accepts
    <3>2. IdleIsComing => IdleIsComing' BY <1>1, <2>1, <3>1, IdleNotTaken
    <3>. QED BY <1>3, <2>1, <3>2 DEF Unsettled
  <2>. QED BY <2>2, <2>3
<1>12. ASSUME HandleIdle PROVE Settling'
  <2>1. engine' = SetActivity(engine, "IDLE") BY <1>12 DEF HandleIdle
  <2>2. Alike(engine', engine) /\ (engine.state = "RUNNING" => engine'.activity = "IDLE")
    BY <1>1, <2>1, Activating
  <2>. QED BY <1>2, <2>2 DEF Unsettled, Alike
<1>13. ASSUME HandleShutdown \/ StopAuthority \/ Complete \/ FinishRun \/ Lose PROVE Settling'
  <2>1. coordinator' # "RUNNING" BY <1>13 DEF HandleShutdown, StopAuthority, Complete, FinishRun, Lose
  <2>. QED BY <1>2, <2>1 DEF Unsettled
<1>14. ASSUME Finalize PROVE Settling'
  <2>. DEFINE left == registry.contexts \ {turn.of}
  <2>1. /\ queue' = WithIdle(queue, left) /\ registry'.contexts = left /\ loop = "RUNNING"
        /\ UNCHANGED coordinator
    BY <1>1, <1>14 DEF Finalize, RegistryRecord, LoopAvailable
  <2>. HIDE DEF left
  <2>2. CASE left = {} /\ coordinator = "RUNNING"
    <3>1. queue' = Put(queue, Message("Idle", NoContext))
      BY <2>1, <2>2 DEF WithIdle, Idle, CoordinatorAvailable, LoopAvailable
    <3>2. IdleIsComing' BY <1>1, <3>1, IdlePut
    <3>. QED BY <3>2 DEF Settling
  <2>3. CASE left # {} \/ coordinator # "RUNNING" BY <2>1, <2>3 DEF Settling
  <2>. QED BY <2>2, <2>3
<1>15. ASSUME Decide \/ ReportLoss PROVE Settling'
  <2>1. engine' = Reported(engine) /\ UNCHANGED <<coordinator, registry, queue>>
    BY <1>15 DEF Decide, ReportLoss, NotifyFailed, ReportFailure
  <2>2. Unsettled' => Unsettled BY <1>1, <1>5, <2>1 DEF Unsettled
  <2>. QED BY <1>3, <2>1, <2>2 DEF IdleIsComing
\* The cleanup
<1>16. ASSUME Prepare \/ Drain \/ CloseModules \/ CloseLoop \/ FinishCleanup \/ DrainTimesOut \/ Coordinate \/ Escalate
       PROVE  Settling'
  <2>1. cleanup.at # "NONE"
    BY <1>16 DEF Prepare, Drain, CloseModules, CloseLoop, FinishCleanup, DrainTimesOut, Coordinate, Escalate, Unanswered
  <2>2. engine.state # "RUNNING" BY <2>1, Cleaning
  <2>3. engine'.state = engine.state \/ engine'.state \in {"FAILED", "STOPPED"}
    <3>1. \/ UNCHANGED engine \/ CleanupFails \/ engine' = [engine EXCEPT !.runtime = FALSE]
          \/ engine' = [engine EXCEPT !.state = IF engine.failed THEN "FAILED" ELSE "STOPPED",
                                      !.activity = "IDLE", !.complete = TRUE, !.startup = TRUE]
      BY <1>16 DEF Prepare, Drain, CloseModules, CloseLoop, FinishCleanup, DrainTimesOut, Coordinate, Ask, Escalate
    <3>. QED BY <1>1, <3>1 DEF CleanupFails, EngineRecord
  <2>. QED BY <1>2, <2>2, <2>3 DEF Unsettled
<1>17. ASSUME FailerNotStarted PROVE Settling'
  <2>1. engine'.state = "FAILED" BY <1>1, <1>17 DEF FailerNotStarted, FailedStart, EngineRecord
  <2>. QED BY <1>2, <2>1 DEF Unsettled
<1>18. ASSUME \/ \E c \in Context : EndWork(c)
              \/ FailerStarts \/ Coordinated \/ GiveUp
       PROVE  Settling'
  BY <1>4, <1>18 DEF EndWork, FailerStarts, Coordinated, GiveUp
<1>19. ASSUME NEW u \in Caller,
              \/ Submit(u) \/ SubmitFromContext(u) \/ Wait(u) \/ Control(u) \/ List(u)
              \/ RequestShutdown(u) \/ Serve(u) \/ Wake(u) \/ StartAwaited(u) \/ Joined(u) \/ Own(u)
       PROVE  Settling'
  BY <1>4, <1>19 DEF Submit, SubmitFromContext, Wait, Control, List, RequestShutdown, Serve, Wake,
     StartAwaited, Joined, Own
<1>20. ASSUME UNCHANGED vars PROVE Settling' BY <1>4, <1>20 DEF vars
<1>. QED
  BY <1>7, <1>8, <1>9, <1>10, <1>11, <1>12, <1>13, <1>14, <1>15, <1>16, <1>17, <1>18, <1>19, <1>20
     DEF Next, Begin, Continue, Coordinator, Cleanup
-----------------------------------------------------------------------------
(* The engine's parts agree                                                  *)

LEMMA EngineBegins == Init => EngineInv /\ WaitsTrue
<1>. SUFFICES ASSUME Init PROVE EngineInv /\ WaitsTrue OBVIOUS
<1>1. TypeOK BY Initially
<1>2. /\ plan \in Instances /\ plan \in Setting
      /\ SubmitsOnce([u \in Caller |-> plan.callers[u].calls])
      /\ \A u \in Caller : u # Failer /\ u # Nobody
      /\ Failer # Nobody
  BY ServiceAssumption DEF Init
<1>3. DOMAIN << >> = {} /\ \A S : << >> \in Seq(S) BY EmptySeq
<1>4. \A u \in Caller : caller[u].at = "IDLE" BY DEF Init
<1>5. ThreadsInv
  <2>1. \A u \in Caller, phases \in SUBSET (Phase \ {"IDLE"}) : ~At(u, phases) BY <1>4 DEF At
  <2>2. /\ \A u \in Caller : ~At(u, {"REGISTER", "SUBMITTED"}) /\ ~At(u, {"NOTIFY"}) /\ ~At(u, {"WAITS"})
                             /\ ~At(u, {"BUILD", "BUILT", "CLEANS"}) /\ ~At(u, {"CLEANS"}) /\ ~At(u, {"OWNS", "CLEANS"})
    BY <1>4 DEF At
  <2>3. Occupied BY <1>4, <2>2 DEF Occupied
  <2>4. Locked BY <1>2, <2>2 DEF Locked, Init, NoCleanup
  <2>5. \A u \in Cleaner : ~Owns(u) BY <2>2 DEF Cleaner, Owns, Init
  <2>6. Owned BY <2>5 DEF Owned, Init
  <2>. QED BY <2>3, <2>4, <2>6 DEF ThreadsInv
<1>6. Staged
  <2>1. \A u \in Caller : ~At(u, {"BUILD", "BUILT"}) /\ ~At(u, {"BUILD"}) /\ ~At(u, {"BUILT"}) BY <1>4 DEF At
  <2>2. Untouched BY <1>3 DEF Untouched, Init, Unissued
  <2>. QED BY <2>1, <2>2 DEF Staged, Init, NoCleanup, Over, Untouched
<1>7. Recorded
  <2>1. SubmitsOnce([u \in Caller |-> caller[u].todo])
    <3>1. [u \in Caller |-> caller[u].todo] = [u \in Caller |-> plan.callers[u].calls] BY DEF Init
    <3>. QED BY <1>2, <3>1
  <2>2. \A c \in Context : context[c].state = "NEW" /\ ~context[c].finalized BY DEF Init
  <2>3. Fresh
    <3>1. ASSUME NEW u \in Caller, NEW i \in DOMAIN caller[u].todo, caller[u].todo[i].op \in Enters
          PROVE  caller[u].todo[i].of \in Context
      <4>1. caller[u].todo \in Seq(Operation) BY <1>1 DEF TypeOK, CallerType, CallerRecord
      <4>2. caller[u].todo[i] \in Operation
        <5>1. DOMAIN caller[u].todo = 1..Len(caller[u].todo) BY <4>1, LenProperties
        <5>. QED BY <4>1, <5>1, ElementOfSeq
      <4>. QED BY <3>1, <4>2 DEF Operation
    <3>. QED BY <2>2, <3>1 DEF Fresh
  <2>4. calls \in Seq(Known) /\ queue \in QueueOf(Known) BY <1>3 DEF Init, QueueOf
  <2>. QED BY <2>1, <2>2, <2>3, <2>4 DEF Recorded, Init, NoTurn
<1>8. Granted
  <2>1. \A u \in Caller : ~At(u, {"NOTIFY"}) BY <1>4 DEF At
  <2>2. DOMAIN auth.grants = {} /\ DOMAIN auth.scopes = {} BY <1>3 DEF Init, Unissued
  <2>. QED BY <2>1, <2>2 DEF Granted, AccessAgrees, Init
<1>9. Coordinating BY DEF Coordinating, Settling, Init
<1>10. WaitsTrue BY <1>4 DEF WaitsTrue
<1>. QED BY <1>1, <1>5, <1>6, <1>7, <1>8, <1>9, <1>10 DEF EngineInv

LEMMA EngineGoesOn == EngineInv /\ WaitsTrue /\ [Next]_vars => (EngineInv /\ WaitsTrue)'
<1>. SUFFICES ASSUME EngineInv, WaitsTrue, [Next]_vars PROVE EngineInv' /\ WaitsTrue' OBVIOUS
<1>1. /\ TypeOK /\ ThreadsInv /\ Occupied /\ Locked /\ Owned /\ Staged /\ Recorded /\ Granted
      /\ Barrier /\ Settling
  BY DEF EngineInv, ThreadsInv, Coordinating, Barrier
<1>2. TypeOK' /\ Occupied' /\ Advanced BY <1>1, TypesKept
<1>3. Locked' /\ Owned' BY <1>1, LocksKept
<1>4. Staged' BY <1>1, StagesKept
<1>5. Recorded' BY <1>1, <1>2, RecordedKept
<1>6. Granted' BY <1>1, GrantsKept
<1>7. Barrier' BY <1>1, BarrierKept
<1>8. Settling' BY <1>1, SettlingKept
<1>9. WaitsTrue' BY <1>1, <1>2, WaitsKept
<1>. QED BY <1>2, <1>3, <1>4, <1>5, <1>6, <1>7, <1>8, <1>9 DEF EngineInv, ThreadsInv, Coordinating, Barrier

LEMMA EngineAlways == Spec => [](EngineInv /\ WaitsTrue)
<1>. QED BY EngineBegins, EngineGoesOn, PTL DEF Spec

LEMMA OwnerIsOne == EngineInv => OneCleanup
<1>. SUFFICES ASSUME EngineInv PROVE OneCleanup OBVIOUS
<1>1. Locked /\ Owned /\ TypeOK BY DEF EngineInv, ThreadsInv
<1>2. cleanup.by # Nobody => lock.lifecycle = cleanup.by /\ engine.cleaning /\ ~engine.complete
  <2>. SUFFICES ASSUME cleanup.by # Nobody PROVE lock.lifecycle = cleanup.by /\ engine.cleaning /\ ~engine.complete
    OBVIOUS
  <2>1. cleanup.at # "NONE" BY <1>1 DEF Locked
  <2>2. engine.cleaning /\ ~engine.complete /\ cleanup.by \in Cleaner BY <2>1, Cleaning DEF EngineInv
  <2>3. CASE cleanup.by = Failer BY <1>1, <2>2, <2>3 DEF Locked
  <2>4. CASE cleanup.by \in Caller
    <3>1. At(cleanup.by, {"CLEANS"}) BY <1>1, <2>4 DEF Locked
    <3>2. At(cleanup.by, {"BUILD", "BUILT", "CLEANS"}) BY <3>1 DEF At
    <3>. QED BY <1>1, <2>2, <2>4, <3>2 DEF Locked
  <2>. QED BY <2>2, <2>3, <2>4 DEF Cleaner
<1>. DEFINE owners == {u \in Caller : caller[u].at \in {"OWNS", "CLEANS"}}
<1>3. \A u \in owners : u \in Cleaner /\ Owns(u) /\ u # Failer BY ServiceAssumption DEF Cleaner, Owns, At
<1>4. Cardinality(owners) + (IF failer \in {"STARTING", "RUNNING"} THEN 1 ELSE 0) <= 1
  <2>1. CASE owners = {}
    <3>1. Cardinality(owners) = 0 BY <2>1, FS_EmptySet
    <3>. HIDE DEF owners
    <3>. QED BY <3>1
  <2>2. CASE owners # {}
    <3>1. PICK u \in owners : TRUE BY <2>2
    <3>2. owners = {u} BY <1>1, <1>3, <3>1 DEF Owned
    <3>3. failer \notin {"STARTING", "RUNNING"}
      <4>1. ASSUME failer \in {"STARTING", "RUNNING"} PROVE FALSE
        <5>1. Failer \in Cleaner /\ Owns(Failer) BY <4>1 DEF Cleaner, Owns
        <5>. QED BY <1>1, <1>3, <3>1, <5>1 DEF Owned
      <4>. QED BY <4>1
    <3>. HIDE DEF owners
    <3>4. Cardinality(owners) = 1 BY <3>2, FS_Singleton
    <3>. QED BY <3>3, <3>4
  <2>. QED BY <2>1, <2>2
<1>. QED BY <1>2, <1>4 DEF OneCleanup

AfterCleanup ==
    /\ loop # "RUNNING" /\ lock.lifecycle = Nobody
    /\ \A k \in Capability : ~Active(auth, k)
    /\ engine.state = "STOPPED" =>
           /\ registry.contexts = {}
           /\ \A c \in Context : context[c].state \in {"NEW"} \cup Terminal
                                /\ \A k \in Capability : runs[c][k] # "ATTACHED"

LEMMA CleanupIsOver == EngineInv => CleanedUp
<1>. SUFFICES ASSUME EngineInv, Over PROVE AfterCleanup
  BY DEF CleanedUp, Over, AfterCleanup
<1>1. Staged /\ Recorded /\ Locked /\ Owned /\ TypeOK BY DEF EngineInv, ThreadsInv
<1>2. loop # "RUNNING" /\ \A k \in Capability : ~Active(auth, k) BY <1>1 DEF Staged, Active
<1>3. \A u \in Cleaner : ~Owns(u) BY <1>1 DEF Owned, Over
<1>4. failer # "RUNNING" BY <1>3 DEF Cleaner, Owns
<1>5. ASSUME NEW u \in Caller PROVE ~At(u, {"BUILD", "BUILT", "CLEANS"})
  <2>1. ~At(u, {"BUILD", "BUILT"}) BY <1>1 DEF Staged, Over
  <2>2. ~At(u, {"OWNS", "CLEANS"}) BY <1>3, ServiceAssumption DEF Cleaner, Owns
  <2>. QED BY <2>1, <2>2 DEF At
<1>6. lock.lifecycle = Nobody
  <2>1. lock.lifecycle \in Owner BY <1>1 DEF TypeOK, EngineType, LockRecord
  <2>. QED BY <1>1, <1>4, <1>5, <2>1 DEF Owner, Locked
<1>7. engine.state = "STOPPED" => /\ registry.contexts = {}
                                  /\ \A c \in Context : context[c].state \in {"NEW"} \cup Terminal
                                         /\ \A k \in Capability : runs[c][k] # "ATTACHED"
  BY <1>1 DEF Staged, Recorded
<1>. QED BY <1>2, <1>6, <1>7 DEF AfterCleanup

LEMMA EngineInvAgrees == EngineInv => EngineAgrees
<1>. SUFFICES ASSUME EngineInv PROVE EngineAgrees OBVIOUS
<1>1. AccessAgrees BY DEF EngineInv, Granted
<1>2. BarrierHolds BY DEF EngineInv, Coordinating, BarrierHolds
<1>3. SettlesIdle
  <2>1. Settling BY DEF EngineInv, Coordinating
  <2>2. DOMAIN << >> = {} BY EmptySeq
  <2>3. QueueEmpty => ~IdleIsComing BY <2>2 DEF QueueEmpty, IdleIsComing
  <2>. QED BY <2>1, <2>3 DEF SettlesIdle, Quiet, Settling
<1>. QED BY <1>1, <1>2, <1>3, OwnerIsOne, CleanupIsOver DEF EngineAgrees

\* Whatever threads call, in whatever order, and whatever fails: the supervisor,
\* the registry, the messenger, the coordinator and the runs that were handed
\* out agree after every step.  A run has control only over a registered
\* context and for an authority that holds, one owner cleans the engine up, an
\* engine that has stopped has finalized everything it registered, and an
\* engine without contexts is not left active (EngineSupervisor, EngineRuntime,
\* RuntimeRegistry, RuntimeMessenger, RuntimeCoordinator).
THEOREM EnginePartsAgree == Spec => []EngineAgrees
BY EngineAlways, EngineInvAgrees, PTL

\* Whoever waits for a context is told once what it waits for is the case, and
\* not before: of its end only when its report is there, of a state only when
\* the context reached it or can no longer reach it (ContextInstance.wait_for,
\* _resolve_waiters, _matches_wait).
THEOREM WaitsTellTheTruth == Spec => []WaitsTrue
BY EngineAlways, PTL
=====
