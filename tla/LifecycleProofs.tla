--------------------------- MODULE LifecycleProofs ---------------------------
(***************************************************************************)
(* What holds of the life of contexts in one engine for every set of        *)
(* contexts, every capacity and whatever users, timers and executors put in *)
(* the coordinator's queue: executions belong to contexts of this engine    *)
(* and their end is heard of once, a stop is final, authority goes last, a  *)
(* context that waits for its start is remembered in exactly one place, and *)
(* registry, scheduler and executions agree on who waits for a placement.   *)
(***************************************************************************)
EXTENDS ContextLifecycle, QueueFacts

-----------------------------------------------------------------------------
(* The invariant.                                                             *)

Ended(c) == <<"Terminated", c>>
RegisteredMessage == {"Registered"} \X Context

(* Only registrations wait in the queue of submissions.                       *)
Registrations == submissions \in Seq(RegisteredMessage) /\ plan \in Instances

(* The context manager holds contexts of this engine only, and a context      *)
(* whose execution has begun never waits for its start again.                 *)
Begun(c) == session[c] # "NONE" \/ c \in terminating

ExecutionOwned ==
    \A c \in Context :
        /\ c \in executing => context[c].local
        /\ Begun(c) => c \in executing /\ context[c].state \notin Waiting \cup {"NEW"}

(* An outcome that is still to be heard of is in the queue, once.             *)
OutcomeOnce ==
    Coordinating =>
        \A c \in Context :
            /\ Once(active, Ended(c))
            /\ Holds(active, Ended(c)) <=> c \in terminating
            /\ c \in terminating => session[c] = "NONE"

LifecycleInv == TypeOK /\ Registrations /\ ExecutionOwned /\ OutcomeOnce

(* The variables whose types no other fact depends on.                        *)
Surroundings ==
    /\ unfinalized \subseteq Context /\ pending \subseteq Context
    /\ queued \in Seq(Context) /\ admitted \subseteq Context
    /\ scheduled \in BOOLEAN /\ timer \in BOOLEAN
    /\ coordinator \in {"RUNNING", "STOPPING", "STOPPED", "LOST", "LOST_STOPPING",
                        "EMERGENCY", "CLOSED"}
    /\ batch \in BOOLEAN
    /\ shutdown \in {"NO", "GRACEFUL", "FORCED"}
    /\ commands \in Nat /\ plan \in Instances

Quietly(s) == s \in Seq(Message) /\ \A c \in Context : ~ Holds(s, Ended(c))

-----------------------------------------------------------------------------
(* The message queue.                                                         *)

LEMMA RegisteredIsMessage ==
    /\ RegisteredMessage \subseteq Message
    /\ \A s \in Seq(RegisteredMessage) : s \in Seq(Message)
<1>1. RegisteredMessage \subseteq Message
  BY DEF RegisteredMessage, Message, MessageType, AcceptedDuringShutdown
<1>. QED BY <1>1

LEMMA EmptyIsQuiet == Quietly(<< >>) /\ << >> \in Seq(RegisteredMessage)
<1>1. << >> \in Seq(Message) /\ << >> \in Seq(RegisteredMessage) BY EmptySeq
<1>2. \A m : ~ Holds(<< >>, m) BY DEF Holds
<1>. QED BY <1>1, <1>2 DEF Quietly

(* A message that is no outcome, alone.                                       *)
LEMMA OneIsQuiet ==
    ASSUME NEW type \in MessageType \ {"Terminated"},
           NEW of \in Context \cup {"ALL", "GRACEFUL", "FORCED"}
    PROVE  Quietly(<< <<type, of>> >>)
<1>1. <<type, of>> \in Message BY DEF Message
<1>2. << <<type, of>> >> \in Seq(Message) BY <1>1
<1>3. ASSUME NEW c \in Context, Holds(<< <<type, of>> >>, Ended(c)) PROVE FALSE
  <2>1. <<type, of>> = Ended(c) BY <1>3 DEF Holds
  <2>2. type = "Terminated" BY <2>1 DEF Ended
  <2>. QED BY <2>2
<1>. QED BY <1>2, <1>3 DEF Quietly

(* What the message in hand leaves of the queues.                             *)
LEMMA ConsumeStep ==
    ASSUME TypeOK, Registrations, HasMessage,
           NEW sent \in Seq(Message), NEW more \in Seq(RegisteredMessage),
           Consume(sent, more)
    PROVE  /\ active' \in Seq(Message) /\ submissions' \in Seq(RegisteredMessage)
           /\ burst' \in 0..ActiveBurst
           /\ \A m : m # NextMessage =>
                        (Holds(active', m) <=> Holds(active, m) \/ Holds(sent, m))
           /\ \A m : Once(active, m) /\ Once(sent, m) /\ ~ (Holds(active, m) /\ Holds(sent, m))
                        => Once(active', m)
           /\ \A c \in Context : NextMessage = Ended(c) =>
                 /\ Holds(active, Ended(c))
                 /\ Once(active, Ended(c)) /\ ~ Holds(sent, Ended(c))
                        => ~ Holds(active', Ended(c)) /\ Once(active', Ended(c))
<1>1. active \in Seq(Message) /\ submissions \in Seq(RegisteredMessage)
  BY DEF TypeOK, Registrations
<1>2. CASE FromActive
  <2>1. active # << >> /\ NextMessage = Head(active) BY <1>2 DEF FromActive, NextMessage
  <2>2. active' = Tail(active) \o sent /\ submissions' = submissions \o more
    BY <1>2 DEF Consume
  <2>3. /\ Tail(active) \in Seq(Message)
        /\ Holds(active, Head(active))
        /\ \A m : Holds(active, m) <=> Holds(Tail(active), m) \/ m = Head(active)
        /\ \A m : Once(active, m) => Once(Tail(active), m)
        /\ Once(active, Head(active)) => ~ Holds(Tail(active), Head(active))
    BY <1>1, <2>1, TailHolds
  <2>4. /\ active' \in Seq(Message)
        /\ \A m : Holds(active', m) <=> Holds(Tail(active), m) \/ Holds(sent, m)
        /\ \A m : Once(Tail(active), m) /\ Once(sent, m) /\ ~ (Holds(Tail(active), m) /\ Holds(sent, m))
                    => Once(active', m)
    <3>. DEFINE rest == Tail(active)
    <3>1. rest \in Seq(Message) BY <2>3
    <3>. HIDE DEF rest
    <3>2. active' = rest \o sent BY <2>2 DEF rest
    <3>3. /\ rest \o sent \in Seq(Message)
          /\ \A m : Holds(rest \o sent, m) <=> Holds(rest, m) \/ Holds(sent, m)
          /\ \A m : Once(rest, m) /\ Once(sent, m) /\ ~ (Holds(rest, m) /\ Holds(sent, m))
                      => Once(rest \o sent, m)
      BY <3>1, ConcatHolds
    <3>4. \A m : Holds(active', m) <=> Holds(rest, m) \/ Holds(sent, m) BY <3>2, <3>3, Zenon
    <3>5. \A m : Once(rest, m) /\ Once(sent, m) /\ ~ (Holds(rest, m) /\ Holds(sent, m))
                   => Once(active', m)
      BY <3>2, <3>3, Zenon
    <3>. QED BY <3>2, <3>3, <3>4, <3>5 DEF rest
  <2>5. submissions' \in Seq(RegisteredMessage) BY <1>1, <2>2, ConcatHolds
  <2>6. burst' \in 0..ActiveBurst
    BY <1>2, ConstantsAssumption DEF Consume, TypeOK
  <2>7. \A m : ~ Holds(sent, m) => Once(sent, m) BY DEF Once, Holds
  <2>. QED BY <2>1, <2>3, <2>4, <2>5, <2>6, <2>7
<1>3. CASE ~ FromActive
  <2>1. submissions # << >> /\ NextMessage = Head(submissions)
    BY <1>3 DEF FromActive, NextMessage, HasMessage
  <2>2. active' = active \o sent /\ submissions' = Tail(submissions) \o more
    BY <1>3 DEF Consume
  <2>3. Tail(submissions) \in Seq(RegisteredMessage) /\ Head(submissions) \in RegisteredMessage
    BY <1>1, <2>1, TailHolds
  <2>4. \A c : NextMessage # Ended(c) BY <2>1, <2>3 DEF RegisteredMessage, Ended
  <2>5. /\ active' \in Seq(Message)
        /\ \A m : Holds(active', m) <=> Holds(active, m) \/ Holds(sent, m)
        /\ \A m : Once(active, m) /\ Once(sent, m) /\ ~ (Holds(active, m) /\ Holds(sent, m))
                    => Once(active', m)
    <3>1. /\ active \o sent \in Seq(Message)
          /\ \A m : Holds(active \o sent, m) <=> Holds(active, m) \/ Holds(sent, m)
          /\ \A m : Once(active, m) /\ Once(sent, m) /\ ~ (Holds(active, m) /\ Holds(sent, m))
                      => Once(active \o sent, m)
      BY <1>1, ConcatHolds
    <3>2. active' = active \o sent BY <2>2
    <3>. QED BY <3>1, <3>2, Zenon
  <2>6. submissions' \in Seq(RegisteredMessage) BY <2>2, <2>3, ConcatHolds
  <2>7. burst' \in 0..ActiveBurst BY <1>3, ConstantsAssumption DEF Consume
  <2>. QED BY <2>4, <2>5, <2>6, <2>7
<1>. QED BY <1>2, <1>3

(* A message that is no outcome is handled, and none is sent.                 *)
LEMMA QuietConsume ==
    ASSUME LifecycleInv, NEW m, Receive(m), \A c \in Context : m # Ended(c),
           NEW sent, Quietly(sent), NEW more \in Seq(RegisteredMessage),
           Consume(sent, more)
    PROVE  /\ active' \in Seq(Message) /\ submissions' \in Seq(RegisteredMessage)
           /\ burst' \in 0..ActiveBurst /\ batch' = TRUE
           /\ \A c \in Context : /\ Once(active', Ended(c))
                                 /\ Holds(active', Ended(c)) <=> c \in terminating
                                 /\ c \in terminating => session[c] = "NONE"
<1>1. TypeOK /\ Registrations /\ OutcomeOnce BY DEF LifecycleInv
<1>2. HasMessage /\ NextMessage = m /\ Coordinating /\ batch' = TRUE BY DEF Receive
<1>3. sent \in Seq(Message) /\ \A c \in Context : ~ Holds(sent, Ended(c)) BY DEF Quietly
<1>4. \A c \in Context : Once(sent, Ended(c)) BY <1>3 DEF Once, Holds
<1>5. \A c \in Context : /\ Once(active, Ended(c))
                         /\ Holds(active, Ended(c)) <=> c \in terminating
                         /\ c \in terminating => session[c] = "NONE"
  BY <1>1, <1>2 DEF OutcomeOnce
<1>6. /\ active' \in Seq(Message) /\ submissions' \in Seq(RegisteredMessage)
      /\ burst' \in 0..ActiveBurst
      /\ \A n : n # NextMessage =>
                   (Holds(active', n) <=> Holds(active, n) \/ Holds(sent, n))
      /\ \A n : Once(active, n) /\ Once(sent, n) /\ ~ (Holds(active, n) /\ Holds(sent, n))
                   => Once(active', n)
  BY <1>1, <1>2, <1>3, ConsumeStep
<1>. QED BY <1>2, <1>3, <1>4, <1>5, <1>6

-----------------------------------------------------------------------------
(* The scheduler.                                                             *)

LEMMA SlotsAreCounted ==
    ASSUME NEW adm \in SUBSET Context, NEW contexts
    PROVE  Slots(adm, contexts) \in Nat
<1>. DEFINE busy == {c \in adm : contexts[c].state \notin {"PAUSED", "PLACEMENT_WAITING"}}
<1>1. IsFiniteSet(busy) BY ConstantsAssumption, FS_Subset
<1>2. Cardinality(busy) \in Nat BY <1>1, FS_CardinalityType
<1>. HIDE DEF busy
<1>3. Slots(adm, contexts) = IF Capacity - Cardinality(busy) > 0
                             THEN Capacity - Cardinality(busy) ELSE 0
  BY DEF Slots, busy
<1>. QED BY <1>2, <1>3, ConstantsAssumption

(* What is admitted leaves the queue, and the coordinator is told of it.      *)
LEMMA AdmissionTyped ==
    ASSUME NEW q \in Seq(Context), NEW adm \in SUBSET Context, NEW contexts, NEW requests,
           NEW pressured
    PROVE  /\ Admission(q, adm, contexts, requests, pressured).queued \in Seq(Context)
           /\ Admission(q, adm, contexts, requests, pressured).admitted \in SUBSET Context
           /\ Quietly(Admission(q, adm, contexts, requests, pressured).sent)
           /\ Admission(q, adm, contexts, requests, pressured).watch \in BOOLEAN
<1>. DEFINE slots == Slots(adm, contexts)
            n == IF pressured \/ requests # {} THEN 0
                 ELSE IF slots < Len(q) THEN slots ELSE Len(q)
            sent == [i \in 1..n |-> <<"Admitted", q[i]>>]
<1>1. slots \in Nat /\ Len(q) \in Nat BY SlotsAreCounted
<1>. HIDE DEF slots
<1>2. n \in 0..Len(q) BY <1>1
<1>3. Admission(q, adm, contexts, requests, pressured) =
         [queued |-> SubSeq(q, n + 1, Len(q)), admitted |-> adm \cup {q[i] : i \in 1..n},
          sent |-> sent, watch |-> n < Len(q)]
  BY DEF Admission, slots
<1>. HIDE DEF n
<1>4. SubSeq(q, n + 1, Len(q)) \in Seq(Context) BY <1>1, <1>2
<1>5. \A i \in 1..n : q[i] \in Context BY <1>1, <1>2
<1>6. \A i \in 1..n : <<"Admitted", q[i]>> \in Message
  BY <1>5 DEF Message, MessageType, AcceptedDuringShutdown
<1>7. sent \in Seq(Message) /\ DOMAIN sent = 1..n BY <1>2, <1>6
<1>8. \A c \in Context : ~ Holds(sent, Ended(c)) BY <1>7 DEF Holds, Ended
<1>9. (n < Len(q)) \in BOOLEAN OBVIOUS
<1>. HIDE DEF sent
<1>. QED BY <1>3, <1>4, <1>5, <1>7, <1>8, <1>9 DEF Quietly

LEMMA AdmitTyped ==
    ASSUME TypeOK, NEW q \in Seq(Context), NEW adm \in SUBSET Context, NEW more,
           Admit(q, adm, more)
    PROVE  /\ queued' \in Seq(Context) /\ admitted' \in SUBSET Context
           /\ scheduled' \in BOOLEAN /\ timer' \in BOOLEAN
           /\ \E s : Quietly(s) /\ Consume(s, more)
<1>1. PICK pressured \in Pressure :
        /\ queued' = Admission(q, adm, context', pending', pressured).queued
        /\ admitted' = Admission(q, adm, context', pending', pressured).admitted
        /\ Watch(Admission(q, adm, context', pending', pressured).watch)
        /\ Consume(Admission(q, adm, context', pending', pressured).sent, more)
  BY DEF Admit
<1>2. /\ Admission(q, adm, context', pending', pressured).queued \in Seq(Context)
      /\ Admission(q, adm, context', pending', pressured).admitted \in SUBSET Context
      /\ Quietly(Admission(q, adm, context', pending', pressured).sent)
  BY AdmissionTyped
<1>3. scheduled' \in BOOLEAN /\ timer' \in BOOLEAN BY <1>1 DEF Watch, TypeOK
<1>. QED BY <1>1, <1>2, <1>3

LEMMA ReleaseTyped ==
    ASSUME TypeOK, NEW C, NEW more, Release(C, more)
    PROVE  /\ queued' \in Seq(Context) /\ admitted' \in SUBSET Context
           /\ scheduled' \in BOOLEAN /\ timer' \in BOOLEAN
           /\ \E s : Quietly(s) /\ Consume(s, more)
<1>. DEFINE q == Without(queued, C)
<1>1. q \in Seq(Context) /\ admitted \ C \in SUBSET Context BY WithoutKeeps DEF TypeOK
<1>2. CASE coordinator = "RUNNING" /\ q # << >>
  <2>1. Admit(q, admitted \ C, more) BY <1>2 DEF Release
  <2>. HIDE DEF q
  <2>. QED BY <1>1, <2>1, AdmitTyped
<1>3. CASE ~ (coordinator = "RUNNING" /\ q # << >>)
  <2>1. queued' = q /\ admitted' = admitted \ C /\ UNCHANGED <<scheduled, timer>> /\ Consume(<< >>, more)
    BY <1>3 DEF Release
  <2>. QED BY <1>1, <2>1, EmptyIsQuiet DEF TypeOK
<1>. QED BY <1>2, <1>3

-----------------------------------------------------------------------------
(* Steps of one kind.                                                         *)

LEMMA TypesAround ==
    TypeOK /\ Registrations => Surroundings /\ queued \in Seq(Context) /\ admitted \in SUBSET Context
BY DEF TypeOK, Registrations, Surroundings

(* What a step may do to a context record without harm to its execution.      *)
Harmless(d) ==
    \/ context'[d] = context[d]
    \/ /\ d \in executing => context'[d].local
       /\ Begun(d) => context'[d].state \notin Waiting \cup {"NEW"}

(* A handler that changes records and leaves the executions alone.            *)
LEMMA RecordStep ==
    ASSUME LifecycleInv, NEW m, Receive(m), \A c \in Context : m # Ended(c),
           NEW sent, Quietly(sent), NEW more \in Seq(RegisteredMessage),
           Consume(sent, more),
           context' \in [Context -> ContextRecord], \A d \in Context : Harmless(d),
           UNCHANGED managerVars, Surroundings'
    PROVE  LifecycleInv'
<1>1. TypeOK /\ ExecutionOwned BY DEF LifecycleInv
<1>2. /\ active' \in Seq(Message) /\ submissions' \in Seq(RegisteredMessage)
      /\ burst' \in 0..ActiveBurst
      /\ \A c \in Context : /\ Once(active', Ended(c))
                            /\ Holds(active', Ended(c)) <=> c \in terminating
                            /\ c \in terminating => session[c] = "NONE"
  BY QuietConsume
<1>3. submissions' \in Seq(Message) BY <1>2, RegisteredIsMessage
<1>4. TypeOK' BY <1>1, <1>2, <1>3 DEF TypeOK, Surroundings, managerVars
<1>5. Registrations' BY <1>2 DEF Registrations, Surroundings
<1>6. OutcomeOnce' BY <1>2 DEF OutcomeOnce, managerVars
<1>7. ExecutionOwned'
  <2>1. \A d \in Context : Begun(d)' <=> Begun(d) BY DEF Begun, managerVars
  <2>. QED BY <1>1, <2>1 DEF ExecutionOwned, Harmless, managerVars
<1>. QED BY <1>4, <1>5, <1>6, <1>7 DEF LifecycleInv

LEMMA IgnoreStep ==
    ASSUME LifecycleInv, NEW m, Receive(m), \A c \in Context : m # Ended(c), Ignore
    PROVE  LifecycleInv'
<1>1. Surroundings BY TypesAround DEF LifecycleInv
<1>2. context' \in [Context -> ContextRecord] /\ \A d \in Context : Harmless(d)
  BY DEF Ignore, registryVars, LifecycleInv, TypeOK, Harmless
<1>3. Surroundings'
  BY <1>1 DEF Surroundings, Ignore, Receive, registryVars, schedulerVars, engineVars
<1>4. Consume(<< >>, << >>) /\ UNCHANGED managerVars BY DEF Ignore
<1>. QED BY <1>2, <1>3, <1>4, RecordStep, EmptyIsQuiet

(* Once the coordinator is lost, the queue is not read any more.              *)
LEMMA FailStep ==
    ASSUME LifecycleInv, NEW m, Receive(m), Fail
    PROVE  LifecycleInv'
<1>1. TypeOK /\ Registrations /\ ExecutionOwned BY DEF LifecycleInv
<1>2. HasMessage /\ Coordinating /\ batch' = TRUE BY DEF Receive
<1>3. << >> \in Seq(Message) /\ << >> \in Seq(RegisteredMessage) BY EmptyIsQuiet DEF Quietly
<1>4. /\ active' \in Seq(Message) /\ submissions' \in Seq(RegisteredMessage)
      /\ burst' \in 0..ActiveBurst
  BY <1>1, <1>2, <1>3, ConsumeStep DEF Fail
<1>5. submissions' \in Seq(Message) BY <1>4, RegisteredIsMessage
<1>6. coordinator' \in {"LOST", "LOST_STOPPING"} BY DEF Fail, Lose
<1>7. TypeOK'
  BY <1>1, <1>2, <1>4, <1>5, <1>6 DEF TypeOK, Fail, registryVars, managerVars
<1>8. Registrations' BY <1>1, <1>4 DEF Registrations, Fail
<1>9. OutcomeOnce' BY <1>6 DEF OutcomeOnce, Coordinating
<1>10. ExecutionOwned'
  BY <1>1 DEF ExecutionOwned, Begun, Fail, registryVars, managerVars
<1>. QED BY <1>7, <1>8, <1>9, <1>10 DEF LifecycleInv

LEMMA SetKeeps ==
    ASSUME TypeOK, NEW c \in Context, NEW r \in ContextRecord, SetContext(c, r)
    PROVE  /\ context' \in [Context -> ContextRecord] /\ unfinalized' \subseteq Context
           /\ context'[c] = r /\ \A d \in Context \ {c} : context'[d] = context[d]
BY DEF TypeOK, SetContext

(* The record of c may become r.                                              *)
MayBecome(c, r) ==
    /\ r \in ContextRecord
    /\ c \in executing => r.local
    /\ Begun(c) => r.state \notin Waiting \cup {"NEW"}

LEMMA SetIsHarmless ==
    ASSUME LifecycleInv, NEW c \in Context, NEW r, MayBecome(c, r), SetContext(c, r)
    PROVE  /\ context' \in [Context -> ContextRecord] /\ unfinalized' \subseteq Context
           /\ \A d \in Context : Harmless(d)
<1>1. r \in ContextRecord /\ TypeOK BY DEF MayBecome, LifecycleInv
<1>2. /\ context' \in [Context -> ContextRecord] /\ unfinalized' \subseteq Context
      /\ context'[c] = r /\ \A d \in Context \ {c} : context'[d] = context[d]
  BY <1>1, SetKeeps
<1>. QED BY <1>2 DEF MayBecome, Harmless

LEMMA UpdateStep ==
    ASSUME LifecycleInv, NEW m, Receive(m), \A d \in Context : m # Ended(d),
           NEW c \in Context, NEW r, MayBecome(c, r), SetContext(c, r),
           NEW more \in Seq(RegisteredMessage), Consume(<< >>, more),
           UNCHANGED <<pending, schedulerVars, managerVars, engineVars>>
    PROVE  LifecycleInv'
<1>1. Surroundings BY TypesAround DEF LifecycleInv
<1>2. /\ context' \in [Context -> ContextRecord] /\ unfinalized' \subseteq Context
      /\ \A d \in Context : Harmless(d)
  BY SetIsHarmless
<1>3. Surroundings' BY <1>1, <1>2 DEF Surroundings, Receive, schedulerVars, engineVars
<1>. QED BY <1>2, <1>3, RecordStep, EmptyIsQuiet

LEMMA ReleaseStep ==
    ASSUME LifecycleInv, NEW m, Receive(m), \A d \in Context : m # Ended(d),
           NEW c \in Context, NEW r, MayBecome(c, r), SetContext(c, r), pending' = pending \ {c},
           NEW more \in Seq(RegisteredMessage), Release({c}, more),
           UNCHANGED <<managerVars, engineVars>>
    PROVE  LifecycleInv'
<1>1. Surroundings /\ TypeOK BY TypesAround DEF LifecycleInv
<1>2. /\ context' \in [Context -> ContextRecord] /\ unfinalized' \subseteq Context
      /\ \A d \in Context : Harmless(d)
  BY SetIsHarmless
<1>3. /\ queued' \in Seq(Context) /\ admitted' \in SUBSET Context
      /\ scheduled' \in BOOLEAN /\ timer' \in BOOLEAN
      /\ \E s : Quietly(s) /\ Consume(s, more)
  BY <1>1, ReleaseTyped
<1>4. Surroundings' BY <1>1, <1>2, <1>3 DEF Surroundings, Receive, engineVars
<1>. QED BY <1>2, <1>3, <1>4, RecordStep

LEMMA ConcludeStep ==
    ASSUME LifecycleInv, NEW m, Receive(m), \A d \in Context : m # Ended(d),
           NEW c \in Context, NEW r, MayBecome(c, r), Conclude(c, r),
           UNCHANGED <<managerVars, engineVars>>
    PROVE  LifecycleInv'
<1>1. SetContext(c, r) /\ pending' = pending \ {c} /\ Release({c}, << >>) BY DEF Conclude
<1>. QED BY <1>1, ReleaseStep, EmptyIsQuiet

(* A handler that admits contexts and changes no record.                      *)
LEMMA AdmitStep ==
    ASSUME LifecycleInv, NEW m, Receive(m), \A d \in Context : m # Ended(d),
           NEW q \in Seq(Context), Admit(q, admitted, << >>),
           UNCHANGED <<registryVars, managerVars, engineVars>>
    PROVE  LifecycleInv'
<1>1. Surroundings /\ TypeOK /\ admitted \in SUBSET Context BY TypesAround DEF LifecycleInv
<1>2. /\ queued' \in Seq(Context) /\ admitted' \in SUBSET Context
      /\ scheduled' \in BOOLEAN /\ timer' \in BOOLEAN
      /\ \E s : Quietly(s) /\ Consume(s, << >>)
  BY <1>1, AdmitTyped, EmptyIsQuiet
<1>3. context' \in [Context -> ContextRecord] /\ \A d \in Context : Harmless(d)
  BY <1>1 DEF registryVars, TypeOK, Harmless
<1>4. Surroundings' BY <1>1, <1>2 DEF Surroundings, Receive, registryVars, engineVars
<1>. QED BY <1>2, <1>3, <1>4, RecordStep, EmptyIsQuiet

-----------------------------------------------------------------------------
(* The handlers.                                                              *)

LEMMA StateOnly ==
    ASSUME NEW r \in ContextRecord, NEW s \in ContextState \cup {"NEW"}
    PROVE  /\ [r EXCEPT !.state = s] \in ContextRecord
           /\ [r EXCEPT !.state = s].state = s
           /\ [r EXCEPT !.state = s].local = r.local
           /\ [r EXCEPT !.state = s].stop = r.stop
           /\ [r EXCEPT !.state = s].iteration = r.iteration
BY DEF ContextRecord

(* A new state of a context that is not waiting again suits its execution.    *)
LEMMA StateMayBecome ==
    ASSUME LifecycleInv, NEW c \in Context, NEW s \in ContextState, s \notin Waiting
    PROVE  MayBecome(c, [context[c] EXCEPT !.state = s])
<1>1. context[c] \in ContextRecord /\ (c \in executing => context[c].local)
  BY DEF LifecycleInv, TypeOK, ExecutionOwned
<1>2. s # "NEW" BY DEF ContextState, Waiting, Running, Draining, Terminal
<1>. QED BY <1>1, <1>2, StateOnly DEF MayBecome

LEMMA RegisterStep ==
    ASSUME LifecycleInv, NEW m, Receive(m), \A d \in Context : m # Ended(d),
           NEW c \in Context, Local(c), Register(c)
    PROVE  LifecycleInv'
<1>1. CASE c \in executing BY <1>1, FailStep DEF Register
<1>2. CASE c \notin executing
  <2>1. /\ executing' = executing \cup {c}
        /\ Consume(<< <<"Start", c>> >>, << >>)
        /\ UNCHANGED <<registryVars, schedulerVars, terminating, session, done, engineVars>>
    BY <1>2 DEF Register
  <2>2. TypeOK /\ Registrations /\ ExecutionOwned /\ Surroundings BY TypesAround DEF LifecycleInv
  <2>3. Quietly(<< <<"Start", c>> >>)
    BY OneIsQuiet DEF MessageType, AcceptedDuringShutdown
  <2>4. /\ active' \in Seq(Message) /\ submissions' \in Seq(RegisteredMessage)
        /\ burst' \in 0..ActiveBurst /\ batch' = TRUE
        /\ \A d \in Context : /\ Once(active', Ended(d))
                              /\ Holds(active', Ended(d)) <=> d \in terminating
                              /\ d \in terminating => session[d] = "NONE"
    BY <2>1, <2>3, QuietConsume, EmptyIsQuiet
  <2>5. submissions' \in Seq(Message) BY <2>4, RegisteredIsMessage
  <2>6. TypeOK'
    BY <2>1, <2>2, <2>4, <2>5 DEF TypeOK, Surroundings, registryVars, schedulerVars, engineVars
  <2>7. Registrations' BY <2>1, <2>2, <2>4 DEF Registrations, engineVars
  <2>8. OutcomeOnce' BY <2>1, <2>4 DEF OutcomeOnce
  <2>9. ExecutionOwned'
    <3>1. context[c].local BY DEF Local
    <3>2. \A d \in Context : Begun(d)' <=> Begun(d) BY <2>1 DEF Begun
    <3>. QED BY <2>1, <2>2, <3>1, <3>2 DEF ExecutionOwned, registryVars
  <2>. QED BY <2>6, <2>7, <2>8, <2>9 DEF LifecycleInv
<1>. QED BY <1>1, <1>2

LEMMA RegisteredHandled ==
    ASSUME LifecycleInv, NEW c \in Context, HandleRegistered(c) PROVE LifecycleInv'
<1>. DEFINE m == <<"Registered", c>>
<1>1. Receive(m) /\ \A d \in Context : m # Ended(d) BY DEF HandleRegistered, Ended
<1>. HIDE DEF m
<1>2. CASE ~ Local(c) BY <1>1, <1>2, IgnoreStep DEF HandleRegistered
<1>3. CASE Local(c) /\ c \in Authority BY <1>1, <1>3, RegisterStep DEF HandleRegistered
<1>4. CASE Local(c) /\ c \notin Authority
  <2>1. AdmitContext(c) BY <1>4 DEF HandleRegistered
  <2>2. CASE context[c].state # "QUEUED" BY <1>1, <2>1, <2>2, FailStep DEF AdmitContext
  <2>3. CASE context[c].state = "QUEUED"
    <3>. DEFINE q == IF Contains(queued, c) THEN queued ELSE Append(queued, c)
    <3>1. q \in Seq(Context) BY AppendProperties DEF LifecycleInv, TypeOK
    <3>2. Admit(q, admitted, << >>) /\ UNCHANGED <<registryVars, managerVars, engineVars>>
      BY <2>1, <2>3 DEF AdmitContext
    <3>. HIDE DEF q
    <3>. QED BY <1>1, <3>1, <3>2, AdmitStep
  <2>. QED BY <2>2, <2>3
<1>. QED BY <1>2, <1>3, <1>4

LEMMA AdmittedHandled ==
    ASSUME LifecycleInv, NEW c \in Context, HandleAdmitted(c) PROVE LifecycleInv'
<1>. DEFINE m == <<"Admitted", c>>
<1>1. Receive(m) /\ \A d \in Context : m # Ended(d) BY DEF HandleAdmitted, Ended
<1>. HIDE DEF m
<1>2. CASE ~ Local(c) BY <1>1, <1>2, IgnoreStep DEF HandleAdmitted
<1>3. CASE Local(c) BY <1>1, <1>3, RegisterStep DEF HandleAdmitted
<1>. QED BY <1>2, <1>3

LEMMA StartHandled ==
    ASSUME LifecycleInv, NEW c \in Context, HandleStart(c) PROVE LifecycleInv'
<1>. DEFINE m == <<"Start", c>>
            r == [context[c] EXCEPT !.state = "RUNNING", !.iteration = @ + 1]
            ended == [context[c] EXCEPT !.state = "FINISHED"]
<1>1. Receive(m) /\ \A d \in Context : m # Ended(d) BY DEF HandleStart, Ended
<1>. HIDE DEF m
<1>2. CASE ~ Local(c) BY <1>1, <1>2, IgnoreStep DEF HandleStart
<1>3. CASE Local(c) /\ context[c].stop
  <2>1. Conclude(c, ended) /\ UNCHANGED <<managerVars, engineVars>>
    BY <1>3 DEF HandleStart, ConcludeAs
  <2>2. MayBecome(c, ended)
    BY StateMayBecome DEF ContextState, Terminal, Waiting
  <2>. HIDE DEF ended
  <2>. QED BY <1>1, <2>1, <2>2, ConcludeStep
<1>4. CASE Local(c) /\ ~ context[c].stop /\ "RUNNING" \notin Allowed[context[c].state]
  BY <1>1, <1>4, FailStep DEF HandleStart
<1>5. CASE Local(c) /\ ~ context[c].stop /\ "RUNNING" \in Allowed[context[c].state]
  <2>1. SetContext(c, r) /\ Consume(<< >>, << >>) /\ UNCHANGED <<pending, schedulerVars, managerVars, engineVars>>
    BY <1>5 DEF HandleStart
  <2>2. r \in ContextRecord /\ r.state = "RUNNING" /\ r.local = context[c].local
    <3>. DEFINE before == context[c]
                more == before.iteration + 1
    <3>1. before \in ContextRecord BY DEF LifecycleInv, TypeOK
    <3>. HIDE DEF before
    <3>2. more \in Nat BY <3>1 DEF ContextRecord
    <3>3. r = [before EXCEPT !.state = "RUNNING", !.iteration = before.iteration + 1]
      BY <3>1 DEF before
    <3>. HIDE DEF r, more
    <3>4. r = [before EXCEPT !.state = "RUNNING", !.iteration = more] BY <3>3 DEF more
    <3>5. r \in ContextRecord BY <3>1, <3>2, <3>4 DEF ContextRecord, ContextState, Running
    <3>6. r.state = "RUNNING" /\ r.local = before.local BY <3>1, <3>4 DEF ContextRecord
    <3>. QED BY <3>5, <3>6 DEF before
  <2>3. MayBecome(c, r)
    BY <1>5, <2>2 DEF MayBecome, Local, Waiting
  <2>. HIDE DEF r
  <2>. QED BY <1>1, <2>1, <2>3, UpdateStep, EmptyIsQuiet
<1>. QED BY <1>2, <1>3, <1>4, <1>5

LEMMA ReconcileHandled ==
    ASSUME LifecycleInv, HandleReconcile PROVE LifecycleInv'
<1>. DEFINE m == ReconcileMessage
<1>1. Receive(m) /\ \A d \in Context : m # Ended(d) BY DEF HandleReconcile, Ended, ReconcileMessage
<1>. HIDE DEF m
<1>2. Surroundings /\ TypeOK /\ queued \in Seq(Context) /\ admitted \in SUBSET Context
  BY TypesAround DEF LifecycleInv
<1>3. PICK pressured \in Pressure :
        /\ queued' = Admission(queued, admitted, context, pending, pressured).queued
        /\ admitted' = Admission(queued, admitted, context, pending, pressured).admitted
        /\ scheduled' = (Admission(queued, admitted, context, pending, pressured).watch
                            /\ TimersAccepted)
        /\ timer' = (timer \/ scheduled')
        /\ Consume(Admission(queued, admitted, context, pending, pressured).sent, << >>)
  BY DEF HandleReconcile
<1>4. /\ queued' \in Seq(Context) /\ admitted' \in SUBSET Context
      /\ Quietly(Admission(queued, admitted, context, pending, pressured).sent)
  BY <1>2, <1>3, AdmissionTyped
<1>5. UNCHANGED <<registryVars, managerVars, engineVars>> BY DEF HandleReconcile
<1>6. scheduled' \in BOOLEAN /\ timer' \in BOOLEAN BY <1>3
<1>7. Surroundings'
  BY <1>1, <1>2, <1>4, <1>5, <1>6 DEF Surroundings, Receive, registryVars, engineVars
<1>8. context' \in [Context -> ContextRecord] /\ \A d \in Context : Harmless(d)
  BY <1>2, <1>5 DEF registryVars, TypeOK, Harmless
<1>. QED BY <1>1, <1>3, <1>4, <1>5, <1>7, <1>8, RecordStep, EmptyIsQuiet

LEMMA StoppedKeeps ==
    ASSUME NEW c, NEW r \in ContextRecord, NEW requests
    PROVE  /\ Stopped(c, r, requests) \in ContextRecord
           /\ Stopped(c, r, requests).stop = TRUE
           /\ Stopped(c, r, requests).local = r.local
           /\ Stopped(c, r, requests).iteration = r.iteration
           /\ Stopped(c, r, requests).state \notin Waiting
           /\ r.state # "NEW" => Stopped(c, r, requests).state # "NEW"
<1>. DEFINE s == IF r.state \in Waiting THEN "FINISHED"
                 ELSE IF r.state = "PAUSED" THEN Resumed(c, requests) ELSE r.state
<1>1. Resumed(c, requests) \in Running BY DEF Resumed, Running
<1>2. s \in ContextState \cup {"NEW"} /\ s \notin Waiting /\ (r.state # "NEW" => s # "NEW")
  BY <1>1 DEF ContextRecord, ContextState, Waiting, Running, Draining, Terminal
<1>3. Stopped(c, r, requests) = [r EXCEPT !.stop = TRUE, !.state = s]
  BY DEF Stopped, ContextRecord
<1>. HIDE DEF s
<1>4. /\ Stopped(c, r, requests) \in ContextRecord /\ Stopped(c, r, requests).state = s
      /\ Stopped(c, r, requests).stop = TRUE /\ Stopped(c, r, requests).local = r.local
      /\ Stopped(c, r, requests).iteration = r.iteration
  BY <1>2, <1>3 DEF ContextRecord
<1>. QED BY <1>2, <1>4 DEF s

LEMMA AbortHandled ==
    ASSUME LifecycleInv, NEW c \in Context, HandleAbort(c) PROVE LifecycleInv'
<1>. DEFINE m == <<"Abort", c>>
            aborted == [context[c] EXCEPT !.state = "ABORTED"]
            aborting == [context[c] EXCEPT !.state = "ABORTING"]
<1>1. Receive(m) /\ \A d \in Context : m # Ended(d) BY DEF HandleAbort, Ended
<1>2. MayBecome(c, aborted) /\ MayBecome(c, aborting)
  BY StateMayBecome DEF ContextState, Terminal, Draining, Waiting
<1>. HIDE DEF m
<1>3. CASE ~ Local(c) \/ context[c].state \in Draining
  BY <1>1, <1>3, IgnoreStep DEF HandleAbort
<1>4. CASE ~ (~ Local(c) \/ context[c].state \in Draining) /\ context[c].state \in Waiting
  <2>1. Conclude(c, aborted) /\ UNCHANGED <<managerVars, engineVars>>
    BY <1>4 DEF HandleAbort, ConcludeAs
  <2>. HIDE DEF aborted
  <2>. QED BY <1>1, <1>2, <2>1, ConcludeStep
<1>5. CASE ~ (~ Local(c) \/ context[c].state \in Draining) /\ context[c].state \notin Waiting
  <2>1. /\ SetContext(c, aborting) /\ pending' = pending \ {c} /\ Consume(<< >>, << >>)
        /\ UNCHANGED <<managerVars, engineVars>> /\ UNCHANGED schedulerVars
    BY <1>5 DEF HandleAbort, SetState
  <2>. HIDE DEF aborting, aborted
  <2>2. /\ context' \in [Context -> ContextRecord] /\ unfinalized' \subseteq Context
        /\ \A d \in Context : Harmless(d)
    BY <1>2, <2>1, SetIsHarmless
  <2>3. Surroundings'
    BY <1>1, <2>1, <2>2, TypesAround DEF LifecycleInv, Surroundings, Receive, schedulerVars, engineVars
  <2>. QED BY <1>1, <2>1, <2>2, <2>3, RecordStep, EmptyIsQuiet
<1>. QED BY <1>3, <1>4, <1>5

LEMMA PauseHandled ==
    ASSUME LifecycleInv, NEW c \in Context, HandlePause(c) PROVE LifecycleInv'
<1>. DEFINE m == <<"Pause", c>>
            paused == [context[c] EXCEPT !.state = "PAUSED"]
<1>1. Receive(m) /\ \A d \in Context : m # Ended(d) BY DEF HandlePause, Ended
<1>2. MayBecome(c, paused) BY StateMayBecome DEF ContextState, Waiting
<1>. HIDE DEF m
<1>3. CASE ~ Local(c) \/ context[c].state \notin Running
  BY <1>1, <1>3, IgnoreStep DEF HandlePause
<1>4. CASE ~ (~ Local(c) \/ context[c].state \notin Running)
  <2>1. SetContext(c, paused) /\ Consume(<< >>, << >>) /\ UNCHANGED <<pending, schedulerVars, managerVars, engineVars>>
    BY <1>4 DEF HandlePause, Update
  <2>. HIDE DEF paused
  <2>. QED BY <1>1, <1>2, <2>1, UpdateStep, EmptyIsQuiet
<1>. QED BY <1>3, <1>4

LEMMA ResumeHandled ==
    ASSUME LifecycleInv, NEW c \in Context, HandleResume(c) PROVE LifecycleInv'
<1>. DEFINE m == <<"Resume", c>>
            resumed == [context[c] EXCEPT !.state = Resumed(c, pending)]
<1>1. Receive(m) /\ \A d \in Context : m # Ended(d) BY DEF HandleResume, Ended
<1>2. MayBecome(c, resumed)
  <2>1. Resumed(c, pending) \in ContextState \ Waiting BY DEF Resumed, ContextState, Running, Waiting
  <2>. QED BY <2>1, StateMayBecome
<1>. HIDE DEF m
<1>3. CASE ~ Local(c) \/ context[c].state # "PAUSED"
  BY <1>1, <1>3, IgnoreStep DEF HandleResume
<1>4. CASE ~ (~ Local(c) \/ context[c].state # "PAUSED")
  <2>1. SetContext(c, resumed) /\ Consume(<< >>, << >>) /\ UNCHANGED <<pending, schedulerVars, managerVars, engineVars>>
    BY <1>4 DEF HandleResume, Update
  <2>. HIDE DEF resumed
  <2>. QED BY <1>1, <1>2, <2>1, UpdateStep, EmptyIsQuiet
<1>. QED BY <1>3, <1>4

LEMMA StopHandled ==
    ASSUME LifecycleInv, NEW c \in Context, HandleStop(c) PROVE LifecycleInv'
<1>. DEFINE m == <<"Stop", c>>
            stopped == Stopped(c, context[c], pending)
<1>1. Receive(m) /\ \A d \in Context : m # Ended(d) BY DEF HandleStop, Ended
<1>. HIDE DEF m
<1>2. ASSUME Local(c) PROVE MayBecome(c, stopped)
  <2>1. /\ context[c] \in ContextRecord /\ (c \in executing => context[c].local)
        /\ context[c].state # "NEW"
    BY <1>2 DEF LifecycleInv, TypeOK, ExecutionOwned, Local, Registered
  <2>. QED BY <2>1, StoppedKeeps DEF MayBecome
<1>3. CASE ~ Local(c) \/ context[c].state \in Draining \/ context[c].stop
  BY <1>1, <1>3, IgnoreStep DEF HandleStop
<1>4. CASE ~ (~ Local(c) \/ context[c].state \in Draining \/ context[c].stop) /\ context[c].state \in Waiting
  <2>1. Conclude(c, stopped) /\ UNCHANGED <<managerVars, engineVars>> BY <1>4 DEF HandleStop
  <2>. HIDE DEF stopped
  <2>. QED BY <1>1, <1>2, <1>4, <2>1, ConcludeStep
<1>5. CASE ~ (~ Local(c) \/ context[c].state \in Draining \/ context[c].stop) /\ context[c].state \notin Waiting
  <2>1. SetContext(c, stopped) /\ Consume(<< >>, << >>) /\ UNCHANGED <<pending, schedulerVars, managerVars, engineVars>>
    BY <1>5 DEF HandleStop, Update
  <2>. HIDE DEF stopped
  <2>. QED BY <1>1, <1>2, <1>5, <2>1, UpdateStep, EmptyIsQuiet
<1>. QED BY <1>3, <1>4, <1>5

(* An execution context without a session leaves, after its outcome has been  *)
(* heard of if it has one.                                                    *)
LEMMA LeaveStep ==
    ASSUME LifecycleInv, NEW m, Receive(m), NEW c \in Context,
           \A d \in Context \ {c} : m # Ended(d), c \in terminating => m = Ended(c),
           session[c] = "NONE", Leave({c}),
           NEW sent, Quietly(sent), Consume(sent, << >>),
           context' \in [Context -> ContextRecord], \A d \in Context \ {c} : Harmless(d),
           Surroundings'
    PROVE  LifecycleInv'
<1>1. TypeOK /\ Registrations /\ ExecutionOwned /\ OutcomeOnce BY DEF LifecycleInv
<1>2. HasMessage /\ NextMessage = m /\ Coordinating /\ batch' = TRUE BY DEF Receive
<1>3. sent \in Seq(Message) /\ (\A d \in Context : ~ Holds(sent, Ended(d))) /\ << >> \in Seq(RegisteredMessage)
  BY EmptyIsQuiet DEF Quietly
<1>4. \A d \in Context : Once(sent, Ended(d)) BY <1>3 DEF Once, Holds
<1>5. \A d \in Context : /\ Once(active, Ended(d))
                         /\ Holds(active, Ended(d)) <=> d \in terminating
                         /\ d \in terminating => session[d] = "NONE"
  BY <1>1, <1>2 DEF OutcomeOnce
<1>6. /\ active' \in Seq(Message) /\ submissions' \in Seq(RegisteredMessage)
      /\ burst' \in 0..ActiveBurst
      /\ \A n : n # NextMessage =>
                   (Holds(active', n) <=> Holds(active, n) \/ Holds(sent, n))
      /\ \A n : Once(active, n) /\ Once(sent, n) /\ ~ (Holds(active, n) /\ Holds(sent, n))
                   => Once(active', n)
      /\ \A d \in Context : NextMessage = Ended(d) =>
            /\ Holds(active, Ended(d))
            /\ Once(active, Ended(d)) /\ ~ Holds(sent, Ended(d))
                   => ~ Holds(active', Ended(d)) /\ Once(active', Ended(d))
  BY <1>1, <1>2, <1>3, ConsumeStep
<1>7. /\ executing' = executing \ {c} /\ terminating' = terminating \ {c} /\ done' = done \ {c}
      /\ session' \in [Context -> SessionState]
      /\ session'[c] = "NONE" /\ \A d \in Context \ {c} : session'[d] = session[d]
  BY <1>1 DEF Leave, TypeOK, SessionState
<1>8. \A d \in Context : /\ Once(active', Ended(d))
                         /\ Holds(active', Ended(d)) <=> d \in terminating'
  <2>1. ASSUME NEW d \in Context, d # c
        PROVE  Once(active', Ended(d)) /\ (Holds(active', Ended(d)) <=> d \in terminating')
    <3>1. Ended(d) # NextMessage BY <1>2, <2>1
    <3>. QED BY <1>3, <1>4, <1>5, <1>6, <1>7, <2>1, <3>1
  <2>2. Once(active', Ended(c)) /\ ~ Holds(active', Ended(c)) /\ c \notin terminating'
    <3>1. CASE m = Ended(c) BY <1>2, <1>3, <1>5, <1>6, <1>7, <3>1
    <3>2. CASE m # Ended(c) BY <1>2, <1>3, <1>4, <1>5, <1>6, <1>7, <3>2
    <3>. QED BY <3>1, <3>2
  <2>. QED BY <2>1, <2>2
<1>9. submissions' \in Seq(Message) BY <1>6, RegisteredIsMessage
<1>10. TypeOK'
  BY <1>1, <1>2, <1>6, <1>7, <1>9 DEF TypeOK, Surroundings
<1>11. Registrations' BY <1>6 DEF Registrations, Surroundings
<1>12. OutcomeOnce' BY <1>5, <1>7, <1>8 DEF OutcomeOnce
<1>13. ExecutionOwned'
  <2>1. ~ Begun(c)' BY <1>7 DEF Begun
  <2>2. \A d \in Context \ {c} : Begun(d)' <=> Begun(d) BY <1>7 DEF Begun
  <2>. QED BY <1>1, <1>7, <2>1, <2>2 DEF ExecutionOwned, Harmless
<1>. QED BY <1>10, <1>11, <1>12, <1>13 DEF LifecycleInv

(* A context that waits again, or is known here only: its execution, if any,  *)
(* has not begun.                                                             *)
LEMMA NotBegun ==
    ASSUME LifecycleInv, NEW c \in Context,
           ~ context[c].local \/ context[c].state \in Waiting
    PROVE  ~ Begun(c) /\ session[c] = "NONE" /\ c \notin terminating
BY DEF LifecycleInv, ExecutionOwned, Begun

LEMMA KnownRecord ==
    ASSUME TypeOK, NEW c \in Context PROVE context[c] \in ContextRecord
BY DEF TypeOK

LEMMA ReassignedIsRecord ==
    ASSUME NEW c \in Context, NEW r \in ContextRecord, NEW here \in BOOLEAN
    PROVE  /\ Reassigned(c, r, here) \in ContextRecord
           /\ Reassigned(c, r, here).state = "QUEUED" /\ Reassigned(c, r, here).local = here
           /\ Reassigned(c, r, here).iteration = r.iteration
           /\ Reassigned(c, r, here).stop = r.stop
<1>. DEFINE overtaken == here /\ Overtakes(c)
<1>1. Reassigned(c, r, here)
        = [r EXCEPT !.state = "QUEUED", !.local = here, !.stale = r.stale \/ overtaken]
  BY DEF ContextRecord, Reassigned
<1>2. (r.stale \/ overtaken) \in BOOLEAN OBVIOUS
<1>. DEFINE mark == r.stale \/ overtaken
<1>3. Reassigned(c, r, here) = [r EXCEPT !.state = "QUEUED", !.local = here, !.stale = mark]
  BY <1>1
<1>4. mark \in BOOLEAN BY <1>2
<1>. HIDE DEF mark
<1>. QED BY <1>3, <1>4 DEF ContextRecord, ContextState, Waiting

LEMMA TransferOutHandled ==
    ASSUME LifecycleInv, NEW c \in Context, HandleTransferOut(c) PROVE LifecycleInv'
<1>. DEFINE m == <<"TransferOut", c>>
            away == Reassigned(c, context[c], FALSE)
            kept == ~ Transferable(c) \/ (context[c].local /\ context[c].state \notin {"ROUTING", "QUEUED"})
<1>1. Receive(m) /\ \A d \in Context : m # Ended(d) BY DEF HandleTransferOut, Ended
<1>. HIDE DEF m
<1>2. CASE kept BY <1>1, <1>2, IgnoreStep DEF HandleTransferOut
<1>3. CASE ~ kept
  <2>1. /\ SetContext(c, away) /\ pending' = pending \ {c} /\ Leave({c})
        /\ Release({c}, << >>) /\ UNCHANGED engineVars
    BY <1>3 DEF HandleTransferOut
  <2>2. ~ context[c].local \/ context[c].state \in Waiting BY <1>3 DEF Waiting
  <2>3. ~ Begun(c) /\ session[c] = "NONE" /\ c \notin terminating BY <2>2, NotBegun
  <2>4. TypeOK /\ Surroundings BY TypesAround DEF LifecycleInv
  <2>5. away \in ContextRecord BY <2>4, KnownRecord, ReassignedIsRecord
  <2>. HIDE DEF away
  <2>6. /\ context' \in [Context -> ContextRecord] /\ unfinalized' \subseteq Context
        /\ \A d \in Context \ {c} : Harmless(d)
    BY <2>1, <2>4, <2>5, SetKeeps DEF Harmless
  <2>7. /\ queued' \in Seq(Context) /\ admitted' \in SUBSET Context
        /\ scheduled' \in BOOLEAN /\ timer' \in BOOLEAN
        /\ \E s : Quietly(s) /\ Consume(s, << >>)
    BY <2>1, <2>4, ReleaseTyped, EmptyIsQuiet
  <2>8. Surroundings' BY <1>1, <2>1, <2>4, <2>6, <2>7 DEF Surroundings, Receive, engineVars
  <2>. QED BY <1>1, <2>1, <2>3, <2>6, <2>7, <2>8, LeaveStep
<1>. QED BY <1>2, <1>3

LEMMA TransferInHandled ==
    ASSUME LifecycleInv, NEW c \in Context, HandleTransferIn(c) PROVE LifecycleInv'
<1>. DEFINE m == <<"TransferIn", c>>
            back == Reassigned(c, context[c], TRUE)
            kept == ~ Transferable(c) \/ (context[c].local /\ context[c].state # "ROUTING")
            more == << <<"Registered", c>> >>
<1>1. Receive(m) /\ \A d \in Context : m # Ended(d) BY DEF HandleTransferIn, Ended
<1>2. more \in Seq(RegisteredMessage) BY DEF RegisteredMessage
<1>. HIDE DEF m
<1>3. CASE kept BY <1>1, <1>3, IgnoreStep DEF HandleTransferIn
<1>4. CASE ~ kept
  <2>1. /\ SetContext(c, back) /\ UNCHANGED <<managerVars, engineVars>>
        /\ \/ Consume(<< >>, more) /\ UNCHANGED <<pending, schedulerVars>>
           \/ pending' = pending \ {c} /\ Release({c}, more)
    BY <1>4 DEF HandleTransferIn
  <2>2. ~ Begun(c) BY <1>4, NotBegun DEF Waiting
  <2>3. MayBecome(c, back) BY <2>2, KnownRecord, ReassignedIsRecord DEF MayBecome, LifecycleInv
  <2>. HIDE DEF back, more
  <2>4. CASE Consume(<< >>, more) /\ UNCHANGED <<pending, schedulerVars>>
    BY <1>1, <1>2, <2>1, <2>3, <2>4, UpdateStep
  <2>5. CASE pending' = pending \ {c} /\ Release({c}, more)
    BY <1>1, <1>2, <2>1, <2>3, <2>5, ReleaseStep
  <2>. QED BY <2>1, <2>4, <2>5
<1>. QED BY <1>3, <1>4

LEMMA SnapshotHandled ==
    ASSUME LifecycleInv, NEW c \in Context, HandleSnapshot(c) PROVE LifecycleInv'
<1>. DEFINE m == <<"Snapshot", c>>
            more == << <<"Registered", c>> >>
<1>1. Receive(m) /\ \A d \in Context : m # Ended(d) BY DEF HandleSnapshot, Ended
<1>2. more \in Seq(RegisteredMessage) BY DEF RegisteredMessage
<1>. HIDE DEF m
<1>3. CASE ~ Registered(c) \/ context[c].local BY <1>1, <1>3, IgnoreStep DEF HandleSnapshot
<1>4. CASE ~ (~ Registered(c) \/ context[c].local)
  <2>1. ~ Begun(c) /\ c \notin executing
    BY <1>4, NotBegun DEF LifecycleInv, ExecutionOwned
  <2>2. context[c] \in ContextRecord BY DEF LifecycleInv, TypeOK
  <2>3. ASSUME NEW r \in ContextRecord PROVE MayBecome(c, r) BY <2>1, <2>3 DEF MayBecome
  <2>4. PICK stop \in {s \in BOOLEAN : context[c].stop => s}, state \in {"RUNNING", "ABORTING"} :
          LET owner == [context[c] EXCEPT !.stop = stop] IN
          \/ Update(c, [owner EXCEPT !.state = state])
          \/ /\ Conclude(c, [owner EXCEPT !.state = "FINISHED"])
             /\ UNCHANGED <<managerVars, engineVars>>
          \/ /\ SetContext(c, Reassigned(c, owner, TRUE))
             /\ Consume(<< >>, more)
             /\ UNCHANGED <<pending, schedulerVars, managerVars, engineVars>>
    BY <1>4 DEF HandleSnapshot
  <2>. DEFINE owner == [context[c] EXCEPT !.stop = stop]
              runs == [owner EXCEPT !.state = state]
              ends == [owner EXCEPT !.state = "FINISHED"]
              here == Reassigned(c, owner, TRUE)
  <2>5. owner \in ContextRecord BY <2>2, <2>4 DEF ContextRecord
  <2>6. Update(c, runs) \/ (Conclude(c, ends) /\ UNCHANGED <<managerVars, engineVars>>)
          \/ (SetContext(c, here) /\ Consume(<< >>, more)
                 /\ UNCHANGED <<pending, schedulerVars, managerVars, engineVars>>)
    BY <2>4
  <2>. HIDE DEF owner, more
  <2>7. runs \in ContextRecord /\ ends \in ContextRecord /\ here \in ContextRecord
    BY <2>5, ReassignedIsRecord DEF ContextRecord, ContextState, Waiting, Running, Draining, Terminal
  <2>. HIDE DEF runs, ends, here
  <2>8. CASE Update(c, runs)
    <3>1. SetContext(c, runs) /\ Consume(<< >>, << >>) /\ UNCHANGED <<pending, schedulerVars, managerVars, engineVars>>
      BY <2>8 DEF Update
    <3>. QED BY <1>1, <2>3, <2>7, <3>1, UpdateStep, EmptyIsQuiet
  <2>9. CASE Conclude(c, ends) /\ UNCHANGED <<managerVars, engineVars>>
    BY <1>1, <2>3, <2>7, <2>9, ConcludeStep
  <2>10. CASE /\ SetContext(c, here) /\ Consume(<< >>, more)
              /\ UNCHANGED <<pending, schedulerVars, managerVars, engineVars>>
    BY <1>1, <1>2, <2>3, <2>7, <2>10, UpdateStep
  <2>. QED BY <2>6, <2>8, <2>9, <2>10
<1>. QED BY <1>3, <1>4

-----------------------------------------------------------------------------
(* Collecting sessions, and hearing of the end.                               *)

(* One message of a type about each context of D.                             *)
Messages(type, D) == {<<type, c>> : c \in D}

LEMMA MessagesAreFinite ==
    ASSUME NEW type, NEW D \in SUBSET Context
    PROVE  IsFiniteSet(Messages(type, D))
<1>. DEFINE M == Messages(type, D)
            f == [c \in D |-> <<type, c>>]
<1>1. IsFiniteSet(D) BY ConstantsAssumption, FS_Subset
<1>2. f \in Surjection(D, M) BY DEF Surjection, Messages
<1>. HIDE DEF f, M
<1>3. IsFiniteSet(M) BY <1>1, <1>2, FS_Surjection
<1>. QED BY <1>3 DEF M

LEMMA OutcomesAreSent ==
    ASSUME NEW D \in SUBSET Context
    PROVE  LET sent == SetToSeq({<<"Terminated", c>> : c \in D}) IN
           /\ sent \in Seq(Message)
           /\ \A d \in Context : /\ Once(sent, Ended(d))
                                 /\ Holds(sent, Ended(d)) <=> d \in D
<1>. DEFINE M == {<<"Terminated", c>> : c \in D}
            sent == SetToSeq(M)
<1>1. /\ sent \in Seq(M)
      /\ \A i, j \in DOMAIN sent : sent[i] = sent[j] => i = j
      /\ \A x \in M : \E i \in DOMAIN sent : sent[i] = x
  <2>1. IsFiniteSet(M) BY MessagesAreFinite DEF Messages
  <2>. HIDE DEF M
  <2>. QED BY <2>1, SetToSeqKeeps
<1>2. M \subseteq Message BY DEF Message, MessageType, AcceptedDuringShutdown
<1>3. \A d \in Context : Ended(d) \in M <=> d \in D BY DEF Ended
<1>. HIDE DEF M, sent
<1>4. sent \in Seq(Message) BY <1>1, <1>2
<1>5. \A i \in DOMAIN sent : sent[i] \in M BY <1>1
<1>6. \A d \in Context : Once(sent, Ended(d)) BY <1>1 DEF Once
<1>7. \A d \in Context : Holds(sent, Ended(d)) <=> d \in D BY <1>1, <1>3, <1>5 DEF Holds
<1>. QED BY <1>4, <1>6, <1>7 DEF sent, M

(* The session of c becomes s, and the executions of D have their outcome.    *)
LEMMA SessionStep ==
    ASSUME LifecycleInv, NEW m, Receive(m), \A d \in Context : m # Ended(d),
           NEW c \in Context, session[c] # "NONE",
           NEW s \in SessionState, session' = [session EXCEPT ![c] = s],
           NEW D \in SUBSET {c}, D # {} => s = "NONE",
           terminating' = terminating \cup D,
           NEW sent \in Seq(Message), Consume(sent, << >>),
           \A d \in Context : Once(sent, Ended(d)) /\ (Holds(sent, Ended(d)) <=> d \in D),
           executing' = executing, done' \subseteq executing,
           context' \in [Context -> ContextRecord], \A d \in Context : Harmless(d),
           Surroundings'
    PROVE  LifecycleInv'
<1>1. TypeOK /\ Registrations /\ ExecutionOwned /\ OutcomeOnce BY DEF LifecycleInv
<1>2. HasMessage /\ NextMessage = m /\ Coordinating /\ batch' = TRUE BY DEF Receive
<1>3. \A d \in Context : /\ Once(active, Ended(d))
                         /\ Holds(active, Ended(d)) <=> d \in terminating
                         /\ d \in terminating => session[d] = "NONE"
  BY <1>1, <1>2 DEF OutcomeOnce
<1>4. c \notin terminating BY <1>3
<1>5. << >> \in Seq(RegisteredMessage) BY EmptyIsQuiet
<1>6. /\ active' \in Seq(Message) /\ submissions' \in Seq(RegisteredMessage)
      /\ burst' \in 0..ActiveBurst
      /\ \A n : n # NextMessage =>
                   (Holds(active', n) <=> Holds(active, n) \/ Holds(sent, n))
      /\ \A n : Once(active, n) /\ Once(sent, n) /\ ~ (Holds(active, n) /\ Holds(sent, n))
                   => Once(active', n)
  BY <1>1, <1>2, <1>5, ConsumeStep
<1>7. \A d \in Context : Ended(d) # NextMessage BY <1>2
<1>8. \A d \in Context : /\ Once(active', Ended(d))
                         /\ Holds(active', Ended(d)) <=> d \in terminating'
  <2>1. \A d \in Context : ~ (Holds(active, Ended(d)) /\ Holds(sent, Ended(d))) BY <1>3, <1>4
  <2>. QED BY <1>3, <1>6, <1>7, <2>1
<1>9. /\ session' \in [Context -> SessionState] /\ session'[c] = s
      /\ \A d \in Context \ {c} : session'[d] = session[d]
  BY <1>1 DEF TypeOK
<1>10. c \in executing BY <1>1 DEF ExecutionOwned, Begun
<1>11. submissions' \in Seq(Message) BY <1>6, RegisteredIsMessage
<1>12. TypeOK'
  BY <1>1, <1>2, <1>6, <1>9, <1>10, <1>11 DEF TypeOK, Surroundings
<1>13. Registrations' BY <1>6 DEF Registrations, Surroundings
<1>14. OutcomeOnce'
  <2>1. ASSUME NEW d \in Context, d \in terminating' PROVE session'[d] = "NONE"
    <3>1. CASE d = c BY <1>4, <1>9, <2>1, <3>1
    <3>2. CASE d # c BY <1>3, <1>9, <2>1, <3>2
    <3>. QED BY <3>1, <3>2
  <2>. QED BY <1>8, <2>1 DEF OutcomeOnce
<1>15. ExecutionOwned'
  <2>1. \A d \in Context : Begun(d)' => Begun(d) BY <1>9 DEF Begun
  <2>. QED BY <1>1, <2>1 DEF ExecutionOwned, Harmless
<1>. QED BY <1>12, <1>13, <1>14, <1>15 DEF LifecycleInv

LEMMA CollectedQuietly ==
    ASSUME LifecycleInv, NEW m, Receive(m), \A d \in Context : m # Ended(d),
           NEW c \in Context, session[c] # "NONE",
           NEW s \in SessionState, session' = [session EXCEPT ![c] = s],
           NEW sent, Quietly(sent), Consume(sent, << >>),
           executing' = executing, terminating' = terminating, done' \subseteq executing,
           context' \in [Context -> ContextRecord], \A d \in Context : Harmless(d),
           Surroundings'
    PROVE  LifecycleInv'
<1>. DEFINE D == {}
<1>1. D \in SUBSET {c} /\ (D # {} => s = "NONE") /\ terminating' = terminating \cup D OBVIOUS
<1>2. sent \in Seq(Message) BY DEF Quietly
<1>3. \A d \in Context : Once(sent, Ended(d)) /\ (Holds(sent, Ended(d)) <=> d \in D)
  BY DEF Quietly, Once, Holds
<1>. HIDE DEF D
<1>. QED BY <1>1, <1>2, <1>3, SessionStep

LEMMA CollectedForGood ==
    ASSUME LifecycleInv, NEW m, Receive(m), \A d \in Context : m # Ended(d),
           NEW c \in Context, session[c] # "NONE",
           session' = [session EXCEPT ![c] = "NONE"], End({c}),
           executing' = executing, done' \subseteq executing,
           context' \in [Context -> ContextRecord], \A d \in Context : Harmless(d),
           Surroundings'
    PROVE  LifecycleInv'
<1>. DEFINE D == {c}
            sent == SetToSeq({<<"Terminated", d>> : d \in D})
<1>1. c \notin terminating BY DEF LifecycleInv, OutcomeOnce, Receive
<1>2. {c} \ terminating = D BY <1>1
<1>3. terminating' = terminating \cup D /\ Consume(sent, << >>) BY <1>2 DEF End
<1>4. /\ sent \in Seq(Message)
      /\ \A d \in Context : Once(sent, Ended(d)) /\ (Holds(sent, Ended(d)) <=> d \in D)
  BY OutcomesAreSent
<1>5. D \in SUBSET {c} /\ "NONE" \in SessionState BY DEF SessionState
<1>. HIDE DEF D, sent
<1>. QED BY <1>3, <1>4, <1>5, SessionStep

LEMMA CanReiterateMeans ==
    ASSUME NEW r PROVE CanReiterate(r) => r.state = "RUNNING" /\ ~ r.stop
BY DEF CanReiterate

LEMMA NextIterationKeeps ==
    ASSUME NEW r \in ContextRecord
    PROVE  /\ NextIteration(r) \in ContextRecord
           /\ NextIteration(r).state = r.state /\ NextIteration(r).local = r.local
           /\ NextIteration(r).stop = r.stop
           /\ NextIteration(r).iteration = r.iteration + 1
<1>. DEFINE more == r.iteration + 1
<1>1. more \in Nat BY DEF ContextRecord
<1>2. NextIteration(r) = [r EXCEPT !.iteration = more] BY DEF NextIteration
<1>. HIDE DEF more
<1>3. [r EXCEPT !.iteration = more] \in ContextRecord BY <1>1 DEF ContextRecord
<1>4. /\ [r EXCEPT !.iteration = more].state = r.state
      /\ [r EXCEPT !.iteration = more].local = r.local
      /\ [r EXCEPT !.iteration = more].stop = r.stop
      /\ [r EXCEPT !.iteration = more].iteration = more
  BY DEF ContextRecord
<1>. QED BY <1>2, <1>3, <1>4 DEF more

LEMMA NothingChanges ==
    ASSUME TypeOK, UNCHANGED <<context, unfinalized>>
    PROVE  /\ context' \in [Context -> ContextRecord] /\ unfinalized' \subseteq Context
           /\ \A d \in Context : Harmless(d)
BY DEF TypeOK, Harmless

LEMMA RetrieveHandled ==
    ASSUME LifecycleInv, NEW c \in Context, HandleRetrieve(c) PROVE LifecycleInv'
<1>. DEFINE m == <<"Retrieve", c>>
<1>1. Receive(m) /\ \A d \in Context : m # Ended(d) BY DEF HandleRetrieve, Ended
<1>. HIDE DEF m
<1>3. CASE session[c] # "REPORTED" BY <1>1, <1>3, IgnoreStep DEF HandleRetrieve
<1>4. CASE session[c] = "REPORTED" /\ c \notin executing
  BY <1>1, <1>4, FailStep DEF HandleRetrieve
<1>5. CASE session[c] = "REPORTED" /\ c \in executing
  <2>1. TypeOK /\ Surroundings /\ queued \in Seq(Context) /\ admitted \in SUBSET Context
    BY TypesAround DEF LifecycleInv
  <2>2. session[c] # "NONE" /\ Begun(c) /\ done \subseteq executing
    BY <1>5, <2>1 DEF Begun, TypeOK
  <2>3. context[c] \in ContextRecord /\ context[c].local /\ context[c].state \notin Waiting \cup {"NEW"}
    BY <1>5, <2>1, <2>2 DEF TypeOK, LifecycleInv, ExecutionOwned
  <2>4. {"NONE", "RESCHEDULED", "WAITING"} \subseteq SessionState BY DEF SessionState
  <2>5. UNCHANGED engineVars BY <1>5 DEF HandleRetrieve
  <2>6. ASSUME NEW s \in ContextState, s \notin Waiting, CollectLast(c, s)
        PROVE  LifecycleInv'
    <3>. DEFINE r == [context[c] EXCEPT !.state = s]
    <3>1. MayBecome(c, r) BY <2>6, StateMayBecome
    <3>2. SetContext(c, r) BY <2>6 DEF CollectLast, SetState
    <3>. HIDE DEF r
    <3>3. /\ context' \in [Context -> ContextRecord] /\ unfinalized' \subseteq Context
          /\ \A d \in Context : Harmless(d)
      BY <3>1, <3>2, SetIsHarmless
    <3>4. /\ session' = [session EXCEPT ![c] = "NONE"] /\ End({c})
          /\ UNCHANGED <<pending, schedulerVars, executing, done>>
      BY <2>6 DEF CollectLast
    <3>5. Surroundings'
      BY <1>1, <2>1, <2>5, <3>3, <3>4 DEF Surroundings, Receive, schedulerVars, engineVars
    <3>. QED BY <1>1, <2>2, <3>3, <3>4, <3>5, CollectedForGood
  <2>7. ASSUME NEW s \in {"NONE", "RESCHEDULED"}, session' = [session EXCEPT ![c] = s],
               Consume(<< >>, << >>),
               UNCHANGED <<registryVars, schedulerVars, executing, terminating, done>>
        PROVE  LifecycleInv'
    <3>1. /\ context' \in [Context -> ContextRecord] /\ unfinalized' \subseteq Context
          /\ \A d \in Context : Harmless(d)
      BY <2>1, <2>7, NothingChanges DEF registryVars
    <3>2. Surroundings'
      BY <1>1, <2>1, <2>5, <2>7 DEF Surroundings, Receive, registryVars, schedulerVars, engineVars
    <3>3. s \in SessionState BY <2>4
    <3>. QED BY <1>1, <2>2, <2>7, <3>1, <3>2, <3>3, CollectedQuietly, EmptyIsQuiet
  <2>8. ASSUME CollectWaiting(c) PROVE LifecycleInv'
    <3>. DEFINE s == IF context[c].state = "RUNNING" THEN "PLACEMENT_WAITING" ELSE context[c].state
                r == [context[c] EXCEPT !.state = s]
    <3>1. s \in ContextState /\ s \notin Waiting
      BY <2>3 DEF ContextRecord, ContextState, Running, Waiting
    <3>2. MayBecome(c, r) BY <3>1, StateMayBecome
    <3>3. SetContext(c, r) BY <2>8 DEF CollectWaiting, SetState
    <3>. HIDE DEF r, s
    <3>4. /\ context' \in [Context -> ContextRecord] /\ unfinalized' \subseteq Context
          /\ \A d \in Context : Harmless(d)
      BY <3>2, <3>3, SetIsHarmless
    <3>5. /\ session' = [session EXCEPT ![c] = "WAITING"] /\ pending' = pending \cup {c}
          /\ UNCHANGED <<executing, terminating, done>>
      BY <2>8 DEF CollectWaiting
    <3>6. /\ queued' \in Seq(Context) /\ admitted' \in SUBSET Context
          /\ scheduled' \in BOOLEAN /\ timer' \in BOOLEAN
          /\ \E t : Quietly(t) /\ Consume(t, << >>)
      <4>1. CASE queued # << >>
        <5>1. Admit(queued, admitted, << >>) BY <2>8, <4>1 DEF CollectWaiting
        <5>. QED BY <2>1, <5>1, AdmitTyped, EmptyIsQuiet
      <4>2. CASE ~ (queued # << >>)
        <5>1. Consume(<< >>, << >>) /\ UNCHANGED schedulerVars BY <2>8, <4>2 DEF CollectWaiting
        <5>. QED BY <2>1, <5>1, EmptyIsQuiet DEF schedulerVars, TypeOK
      <4>. QED BY <4>1, <4>2
    <3>7. Surroundings'
      BY <1>1, <2>1, <2>5, <3>4, <3>5, <3>6 DEF Surroundings, Receive, engineVars
    <3>. QED BY <1>1, <2>2, <2>4, <3>4, <3>5, <3>6, <3>7, CollectedQuietly
  <2>9. ASSUME CollectIteration(c) PROVE LifecycleInv'
    <3>1. session' = [session EXCEPT ![c] = "NONE"] /\ UNCHANGED <<pending, schedulerVars, executing>>
      BY <2>9 DEF CollectIteration
    <3>2. CASE /\ CanReiterate(context[c])
               /\ SetContext(c, NextIteration(context[c]))
               /\ Consume(<< >>, << >>)
               /\ UNCHANGED <<terminating, done>>
      <4>. DEFINE r == NextIteration(context[c])
      <4>1. MayBecome(c, r) BY <2>3, NextIterationKeeps DEF MayBecome
      <4>2. SetContext(c, r) BY <3>2
      <4>. HIDE DEF r
      <4>3. /\ context' \in [Context -> ContextRecord] /\ unfinalized' \subseteq Context
            /\ \A d \in Context : Harmless(d)
        BY <4>1, <4>2, SetIsHarmless
      <4>4. Surroundings'
        BY <1>1, <2>1, <2>5, <3>1, <4>3 DEF Surroundings, Receive, schedulerVars, engineVars
      <4>. QED BY <1>1, <2>2, <2>4, <3>1, <3>2, <4>3, <4>4, CollectedQuietly, EmptyIsQuiet
    <3>3. ASSUME done' = done \cup {c}, UNCHANGED <<context, unfinalized>>
          PROVE  /\ context' \in [Context -> ContextRecord] /\ \A d \in Context : Harmless(d)
                 /\ done' \subseteq executing /\ Surroundings'
      <4>1. /\ context' \in [Context -> ContextRecord] /\ unfinalized' \subseteq Context
            /\ \A d \in Context : Harmless(d)
        BY <2>1, <3>3, NothingChanges
      <4>2. Surroundings'
        BY <1>1, <2>1, <2>5, <3>1, <3>3 DEF Surroundings, Receive, schedulerVars, engineVars
      <4>. QED BY <1>5, <2>2, <3>3, <4>1, <4>2
    <3>4. CASE /\ context[c].state = "RUNNING" /\ ~CanReiterate(context[c])
               /\ done' = done \cup {c}
               /\ End({c})
               /\ UNCHANGED <<context, unfinalized>>
      BY <1>1, <2>2, <3>1, <3>3, <3>4, CollectedForGood
    <3>5. CASE /\ context[c].state # "RUNNING"
               /\ done' = done \cup {c}
               /\ Consume(<< >>, << >>)
               /\ UNCHANGED <<context, unfinalized, terminating>>
      BY <1>1, <2>2, <2>4, <3>1, <3>3, <3>5, CollectedQuietly, EmptyIsQuiet
    <3>. QED BY <2>9, <3>2, <3>4, <3>5 DEF CollectIteration
  <2>10. CASE context[c].state \in Draining
    <3>1. CollectLast(c, context[c].state) BY <1>5, <2>10 DEF HandleRetrieve
    <3>2. context[c].state \in ContextState /\ context[c].state \notin Waiting
      BY <2>10 DEF ContextState, Draining, Waiting
    <3>. QED BY <2>6, <3>1, <3>2
  <2>11. CASE context[c].state \notin Draining
    <3>1. \/ CollectLast(c, "FAILING") \/ CollectRetry(c) \/ CollectWaiting(c)
          \/ CollectStep(c) \/ CollectIteration(c)
      BY <1>5, <2>11 DEF HandleRetrieve
    <3>2. CASE CollectLast(c, "FAILING")
      BY <2>6, <3>2 DEF ContextState, Draining, Waiting
    <3>3. CASE CollectRetry(c) BY <2>7, <3>3 DEF CollectRetry
    <3>4. CASE CollectStep(c) BY <2>7, <3>4 DEF CollectStep
    <3>. QED BY <2>8, <2>9, <3>1, <3>2, <3>3, <3>4
  <2>. QED BY <2>10, <2>11
<1>. QED BY <1>3, <1>4, <1>5

LEMMA OutcomeIsState ==
    ASSUME NEW c PROVE Outcome(c) \in ContextState /\ Outcome(c) \notin Waiting
<1>1. Outcome(c) = IF context[c].state = "ABORTING" THEN "ABORTED"
                   ELSE IF context[c].state = "FAILING" THEN "FAILED" ELSE "FINISHED"
  BY DEF Outcome
<1>. QED BY <1>1 DEF ContextState, Terminal, Waiting

LEMMA HeardIsEnded ==
    ASSUME LifecycleInv, NEW d \in Context, Receive(Ended(d))
    PROVE  d \in terminating /\ session[d] = "NONE"
<1>1. TypeOK /\ Registrations /\ HasMessage /\ NextMessage = Ended(d) /\ Coordinating
  BY DEF Receive, LifecycleInv
<1>2. d \in terminating
  <2>1. CASE FromActive
    <3>1. active \in Seq(Message) /\ active # << >> /\ Head(active) = Ended(d)
      BY <1>1, <2>1 DEF FromActive, NextMessage, TypeOK
    <3>2. Holds(active, Ended(d)) BY <3>1, TailHolds
    <3>. QED BY <1>1, <3>2 DEF LifecycleInv, OutcomeOnce
  <2>2. CASE ~ FromActive
    <3>1. submissions \in Seq(RegisteredMessage) /\ submissions # << >> /\ Head(submissions) = Ended(d)
      BY <1>1, <2>2 DEF FromActive, NextMessage, HasMessage, Registrations
    <3>2. Ended(d) \in RegisteredMessage BY <3>1, TailHolds
    <3>. QED BY <3>2 DEF Ended, RegisteredMessage
  <2>. QED BY <2>1, <2>2
<1>. QED BY <1>1, <1>2 DEF LifecycleInv, OutcomeOnce

LEMMA TerminatedHandled ==
    ASSUME LifecycleInv, NEW c \in Context, HandleTerminated(c) PROVE LifecycleInv'
<1>. DEFINE m == Ended(c)
            r == [context[c] EXCEPT !.state = Outcome(c)]
            fails == Registered(c) /\ Outcome(c) \notin Allowed[context[c].state]
<1>1. Receive(m) BY DEF HandleTerminated, Ended
<1>2. \A d \in Context \ {c} : m # Ended(d) BY DEF Ended
<1>3. TypeOK /\ Surroundings /\ queued \in Seq(Context) /\ admitted \in SUBSET Context
  BY TypesAround DEF LifecycleInv
<1>4. session[c] = "NONE" BY <1>1, HeardIsEnded
<1>. HIDE DEF m
<1>5. CASE fails BY <1>1, <1>5, FailStep DEF HandleTerminated
<1>6. CASE ~ fails
  <2>1. Leave({c}) /\ UNCHANGED engineVars BY <1>6 DEF HandleTerminated
  <2>2. CASE Registered(c)
    <3>1. SetContext(c, r) /\ pending' = pending \ {c} /\ Release({c}, << >>)
      BY <1>6, <2>2 DEF HandleTerminated, ConcludeAs, Conclude
    <3>2. r \in ContextRecord BY <1>3, OutcomeIsState, StateOnly DEF TypeOK
    <3>. HIDE DEF r
    <3>3. /\ context' \in [Context -> ContextRecord] /\ unfinalized' \subseteq Context
          /\ \A d \in Context \ {c} : Harmless(d)
      BY <1>3, <3>1, <3>2, SetKeeps DEF Harmless
    <3>4. /\ queued' \in Seq(Context) /\ admitted' \in SUBSET Context
          /\ scheduled' \in BOOLEAN /\ timer' \in BOOLEAN
          /\ \E s : Quietly(s) /\ Consume(s, << >>)
      BY <1>3, <3>1, ReleaseTyped, EmptyIsQuiet
    <3>5. Surroundings' BY <1>1, <1>3, <2>1, <3>1, <3>3, <3>4 DEF Surroundings, Receive, engineVars
    <3>. QED BY <1>1, <1>2, <1>4, <2>1, <3>3, <3>4, <3>5, LeaveStep DEF m
  <2>3. CASE ~ Registered(c)
    <3>1. Consume(<< >>, << >>) /\ UNCHANGED <<registryVars, schedulerVars>>
      BY <1>6, <2>3 DEF HandleTerminated
    <3>2. /\ context' \in [Context -> ContextRecord] /\ unfinalized' \subseteq Context
          /\ \A d \in Context : Harmless(d)
      BY <1>3, <3>1, NothingChanges DEF registryVars
    <3>3. Surroundings'
      BY <1>1, <1>3, <2>1, <3>1, <3>2 DEF Surroundings, Receive, registryVars, schedulerVars, engineVars
    <3>. QED BY <1>1, <1>2, <1>4, <2>1, <3>1, <3>2, <3>3, LeaveStep, EmptyIsQuiet DEF m
  <2>. QED BY <2>2, <2>3
<1>. QED BY <1>5, <1>6

-----------------------------------------------------------------------------
(* Shutdown through the coordinator.                                          *)

(* What a shutdown makes of a record.                                         *)
LEMMA ShutKeeps ==
    ASSUME NEW c, NEW r \in ContextRecord, NEW forced \in BOOLEAN, NEW requests
    PROVE  /\ Shut(c, r, forced, requests) \in ContextRecord
           /\ \/ Shut(c, r, forced, requests) = r
              \/ Shut(c, r, forced, requests).state \notin Waiting \cup {"NEW"}
           /\ Shut(c, r, forced, requests).iteration = r.iteration
           /\ r.stop => Shut(c, r, forced, requests).stop
           /\ r.local => Shut(c, r, forced, requests).local
<1>. DEFINE kept == r.state \in Terminal \cup {"NEW"}
                      \/ (IF r.local THEN r.state \in Draining ELSE ~ forced)
            s == IF r.local /\ r.state \notin Waiting THEN "ABORTING" ELSE "ABORTED"
            t == [r EXCEPT !.local = TRUE, !.state = s]
<1>1. CASE kept BY <1>1 DEF Shut
<1>2. CASE ~ kept /\ ~ forced
  <2>1. Shut(c, r, forced, requests) = Stopped(c, r, requests) BY <1>2 DEF Shut
  <2>2. r.state # "NEW" BY <1>2
  <2>. DEFINE u == Stopped(c, r, requests)
  <2>3. /\ u \in ContextRecord /\ u.stop = TRUE /\ u.local = r.local
        /\ u.iteration = r.iteration /\ u.state \notin Waiting \cup {"NEW"}
    BY <2>2, StoppedKeeps
  <2>4. Shut(c, r, forced, requests) = u BY <2>1
  <2>. HIDE DEF u
  <2>. QED BY <2>3, <2>4
<1>3. CASE ~ kept /\ forced
  <2>1. Shut(c, r, forced, requests) = t BY <1>3 DEF Shut, ContextRecord
  <2>2. s \in ContextState /\ s \notin Waiting \cup {"NEW"}
    BY DEF ContextState, Draining, Terminal, Waiting
  <2>. HIDE DEF s
  <2>3. /\ t \in ContextRecord /\ t.state = s /\ t.local = TRUE
        /\ t.iteration = r.iteration /\ t.stop = r.stop
    BY <2>2 DEF ContextRecord
  <2>. QED BY <2>1, <2>2, <2>3
<1>. QED BY <1>1, <1>2, <1>3

LEMMA ShutGently ==
    ASSUME NEW c, NEW r \in ContextRecord, NEW requests
    PROVE  /\ Shut(c, r, FALSE, requests) \in ContextRecord
           /\ Shut(c, r, FALSE, requests).iteration = r.iteration
           /\ r.stop => Shut(c, r, FALSE, requests).stop
           /\ r.local => Shut(c, r, FALSE, requests).local
<1>. DEFINE t == Shut(c, r, FALSE, requests)
            u == Stopped(c, r, requests)
<1>1. t = r \/ t = u BY DEF Shut
<1>2. u \in ContextRecord /\ u.stop = TRUE /\ u.local = r.local /\ u.iteration = r.iteration
  BY StoppedKeeps
<1>. HIDE DEF t, u
<1>3. t \in ContextRecord /\ t.iteration = r.iteration /\ (r.stop => t.stop) /\ (r.local => t.local)
  BY <1>1, <1>2
<1>. QED BY <1>3 DEF t

(* A registry after a shutdown was asked for.                                 *)
ShutDown(records) ==
    /\ records \in [Context -> ContextRecord]
    /\ \A d \in Context :
          \/ records[d] = context[d]
          \/ /\ context[d].local => records[d].local
             /\ records[d].state \notin Waiting \cup {"NEW"}

LEMMA ApplyTyped ==
    ASSUME LifecycleInv, NEW records, ShutDown(records),
           NEW requests \in SUBSET Context, Apply(records, requests)
    PROVE  /\ context' = records /\ context' \in [Context -> ContextRecord]
           /\ \A d \in Context : Harmless(d)
           /\ unfinalized' \subseteq Context /\ pending' \subseteq Context
           /\ queued' \in Seq(Context) /\ admitted' \subseteq Context
           /\ scheduled' \in BOOLEAN /\ timer' \in BOOLEAN
<1>1. TypeOK /\ ExecutionOwned BY DEF LifecycleInv
<1>. DEFINE finals == {c \in Context : Registered(c) /\ records[c].state \in Terminal}
            aborting == {c \in Context : records[c].state = "ABORTING"}
<1>2. /\ context' = records /\ pending' = requests \ (finals \cup aborting)
      /\ queued' = Without(queued, finals) /\ admitted' = admitted \ finals
      /\ UNCHANGED <<unfinalized, scheduled, timer>>
  BY DEF Apply
<1>. HIDE DEF finals, aborting
<1>3. queued' \in Seq(Context) BY <1>1, <1>2, WithoutKeeps DEF TypeOK
<1>4. \A d \in Context : Harmless(d) BY <1>1, <1>2 DEF ShutDown, Harmless, ExecutionOwned
<1>. QED BY <1>1, <1>2, <1>3, <1>4 DEF TypeOK, ShutDown

(* Authority contexts follow, or do not.                                      *)
LEMMA WithAuthorityKeeps ==
    ASSUME NEW records \in [Context -> ContextRecord], NEW requests
    PROVE  /\ WithAuthority(records, requests) \in [Context -> ContextRecord]
           /\ \A d \in Context :
                \/ WithAuthority(records, requests)[d] = records[d]
                \/ /\ records[d].local => WithAuthority(records, requests)[d].local
                   /\ WithAuthority(records, requests)[d].state \notin Waiting \cup {"NEW"}
<1>. DEFINE new(d) == IF d \in Authority /\ Over(records, Context \ Authority)
                      THEN Shut(d, records[d], FALSE, requests) ELSE records[d]
<1>1. WithAuthority(records, requests) = [d \in Context |-> new(d)] BY DEF WithAuthority
<1>2. ASSUME NEW d \in Context
      PROVE  /\ new(d) \in ContextRecord
             /\ \/ new(d) = records[d]
                \/ /\ records[d].local => new(d).local
                   /\ new(d).state \notin Waiting \cup {"NEW"}
  BY ShutKeeps
<1>. HIDE DEF new
<1>. QED BY <1>1, <1>2

LEMMA ShutdownHandled ==
    ASSUME LifecycleInv, HandleShutdown PROVE LifecycleInv'
<1>. DEFINE m == <<"Shutdown", "GRACEFUL">>
            first == [c \in Context |-> IF c \in Authority THEN context[c]
                                        ELSE Shut(c, context[c], FALSE, pending)]
            records == WithAuthority(first, pending)
<1>1. Receive(m) /\ \A d \in Context : m # Ended(d) BY DEF HandleShutdown, Ended
<1>. HIDE DEF m
<1>2. TypeOK /\ Surroundings BY TypesAround DEF LifecycleInv
<1>3. ASSUME NEW d \in Context
      PROVE  /\ first[d] \in ContextRecord
             /\ \/ first[d] = context[d]
                \/ /\ context[d].local => first[d].local
                   /\ first[d].state \notin Waiting \cup {"NEW"}
  <2>1. context[d] \in ContextRecord BY <1>2 DEF TypeOK
  <2>. QED BY <2>1, ShutKeeps
<1>4. first \in [Context -> ContextRecord] BY <1>3
<1>5. Apply(records, pending) /\ Consume(<< >>, << >>) /\ coordinator' = "STOPPING"
        /\ UNCHANGED <<managerVars, plan, shutdown, commands>>
  BY DEF HandleShutdown
<1>. HIDE DEF first
<1>6. ShutDown(records) BY <1>3, <1>4, WithAuthorityKeeps DEF ShutDown
<1>7. pending \in SUBSET Context BY <1>2 DEF TypeOK
<1>. HIDE DEF records
<1>8. /\ context' \in [Context -> ContextRecord] /\ \A d \in Context : Harmless(d)
      /\ unfinalized' \subseteq Context /\ pending' \subseteq Context
      /\ queued' \in Seq(Context) /\ admitted' \subseteq Context
      /\ scheduled' \in BOOLEAN /\ timer' \in BOOLEAN
  BY <1>5, <1>6, <1>7, ApplyTyped
<1>9. Surroundings' BY <1>1, <1>2, <1>5, <1>8 DEF Surroundings, Receive
<1>. QED BY <1>1, <1>5, <1>8, <1>9, RecordStep, EmptyIsQuiet

LEMMA ForcedShutdownHandled ==
    ASSUME LifecycleInv, HandleForcedShutdown PROVE LifecycleInv'
<1>. DEFINE m == <<"Shutdown", "FORCED">>
            away == {c \in Context : Registered(c) /\ ~context[c].local}
            M == {<<"Registered", c>> : c \in away}
            more == SetToSeq(M)
            records == [c \in Context |-> Shut(c, context[c], TRUE, pending)]
<1>1. Receive(m) /\ \A d \in Context : m # Ended(d) BY DEF HandleForcedShutdown, Ended
<1>. HIDE DEF m
<1>2. TypeOK /\ Surroundings BY TypesAround DEF LifecycleInv
<1>3. Apply(records, pending) /\ Consume(<< >>, more) /\ coordinator' = "STOPPING"
        /\ UNCHANGED <<managerVars, plan, shutdown, commands>>
  BY DEF HandleForcedShutdown
<1>4. away \in SUBSET Context OBVIOUS
<1>. HIDE DEF away
<1>5. more \in Seq(M)
  <2>1. IsFiniteSet(M) BY <1>4, MessagesAreFinite DEF Messages
  <2>. HIDE DEF M
  <2>. QED BY <2>1, SetToSeqKeeps
<1>6. M \subseteq RegisteredMessage BY DEF RegisteredMessage, away
<1>. HIDE DEF M, more
<1>7. more \in Seq(RegisteredMessage) BY <1>5, <1>6
<1>. HIDE DEF more
<1>8. ShutDown(records)
  <2>1. ASSUME NEW d \in Context
        PROVE  /\ records[d] \in ContextRecord
               /\ \/ records[d] = context[d]
                  \/ /\ context[d].local => records[d].local
                     /\ records[d].state \notin Waiting \cup {"NEW"}
    <3>1. context[d] \in ContextRecord BY <1>2 DEF TypeOK
    <3>. QED BY <3>1, ShutKeeps
  <2>2. records \in [Context -> ContextRecord] BY <2>1
  <2>. HIDE DEF records
  <2>. QED BY <2>1, <2>2 DEF ShutDown
<1>9. pending \in SUBSET Context BY <1>2 DEF TypeOK
<1>. HIDE DEF records
<1>10. /\ context' \in [Context -> ContextRecord] /\ \A d \in Context : Harmless(d)
       /\ unfinalized' \subseteq Context /\ pending' \subseteq Context
       /\ queued' \in Seq(Context) /\ admitted' \subseteq Context
       /\ scheduled' \in BOOLEAN /\ timer' \in BOOLEAN
  BY <1>3, <1>8, <1>9, ApplyTyped
<1>11. Surroundings' BY <1>1, <1>2, <1>3, <1>10 DEF Surroundings, Receive
<1>. QED BY <1>1, <1>3, <1>7, <1>10, <1>11, RecordStep, EmptyIsQuiet

LEMMA Dropped ==
    ASSUME LifecycleInv, Drop PROVE LifecycleInv'
<1>. DEFINE m == NextMessage
<1>1. m[1] \notin AcceptedDuringShutdown BY DEF Drop
<1>2. \A d \in Context : m # Ended(d) BY <1>1 DEF Ended, AcceptedDuringShutdown
<1>3. HasMessage /\ Coordinating /\ batch' = TRUE /\ Consume(<< >>, << >>)
        /\ UNCHANGED <<registryVars, schedulerVars, managerVars, engineVars>>
  BY DEF Drop, Coordinating
<1>4. TypeOK /\ Registrations /\ ExecutionOwned /\ OutcomeOnce /\ Surroundings
  BY TypesAround DEF LifecycleInv
<1>5. << >> \in Seq(Message) /\ << >> \in Seq(RegisteredMessage)
        /\ \A d : ~ Holds(<< >>, d) /\ Once(<< >>, d)
  BY EmptyIsQuiet DEF Quietly, Holds, Once
<1>6. /\ active' \in Seq(Message) /\ submissions' \in Seq(RegisteredMessage)
      /\ burst' \in 0..ActiveBurst
      /\ \A n : n # NextMessage =>
                   (Holds(active', n) <=> Holds(active, n) \/ Holds(<< >>, n))
      /\ \A n : Once(active, n) /\ Once(<< >>, n) /\ ~ (Holds(active, n) /\ Holds(<< >>, n))
                   => Once(active', n)
  BY <1>3, <1>4, <1>5, ConsumeStep
<1>7. \A d \in Context : /\ Once(active', Ended(d))
                         /\ Holds(active', Ended(d)) <=> d \in terminating
                         /\ d \in terminating => session[d] = "NONE"
  BY <1>2, <1>3, <1>4, <1>5, <1>6 DEF OutcomeOnce
<1>8. submissions' \in Seq(Message) BY <1>6, RegisteredIsMessage
<1>9. TypeOK'
  BY <1>3, <1>4, <1>6, <1>8 DEF TypeOK, registryVars, schedulerVars, managerVars, engineVars
<1>10. Registrations' BY <1>3, <1>4, <1>6 DEF Registrations, engineVars
<1>11. OutcomeOnce' BY <1>3, <1>7 DEF OutcomeOnce, managerVars
<1>12. ExecutionOwned'
  BY <1>3, <1>4 DEF ExecutionOwned, Begun, registryVars, managerVars
<1>. QED BY <1>9, <1>10, <1>11, <1>12 DEF LifecycleInv

-----------------------------------------------------------------------------
(* Reconciliation.                                                            *)

(* Settled requests, for the contexts of P.                                   *)
LEMMA SettledKeeps ==
    ASSUME TypeOK, NEW P
    PROVE  /\ SettledContexts(P) \in [Context -> ContextRecord]
           /\ \A d \in Context :
                /\ SettledContexts(P)[d].local = context[d].local
                /\ SettledContexts(P)[d].stop = context[d].stop
                /\ SettledContexts(P)[d].iteration = context[d].iteration
                /\ \/ SettledContexts(P)[d] = context[d]
                   \/ SettledContexts(P)[d].state = "RUNNING"
           /\ SettledSessions(P) \in [Context -> SessionState]
           /\ \A d \in Context : SettledSessions(P)[d] = "NONE" <=> session[d] = "NONE"
<1>. DEFINE new(d) == IF d \in P /\ context[d].state = "PLACEMENT_WAITING"
                      THEN [context[d] EXCEPT !.state = "RUNNING"] ELSE context[d]
<1>1. SettledContexts(P) = [d \in Context |-> new(d)] BY DEF SettledContexts
<1>2. ASSUME NEW d \in Context
      PROVE  /\ new(d) \in ContextRecord
             /\ new(d).local = context[d].local /\ new(d).stop = context[d].stop
             /\ new(d).iteration = context[d].iteration
             /\ new(d) = context[d] \/ new(d).state = "RUNNING"
  <2>1. context[d] \in ContextRecord /\ "RUNNING" \in ContextState \cup {"NEW"}
    BY DEF TypeOK, ContextState, Running
  <2>. QED BY <2>1, StateOnly
<1>. HIDE DEF new
<1>3. SettledSessions(P) \in [Context -> SessionState]
  BY DEF SettledSessions, TypeOK, SessionState
<1>4. \A d \in Context : SettledSessions(P)[d] = "NONE" <=> session[d] = "NONE"
  BY DEF SettledSessions, TypeOK
<1>. QED BY <1>1, <1>2, <1>3, <1>4

LEMMA ReconcileStep ==
    ASSUME LifecycleInv, NEW P, Reconcile(P) PROVE LifecycleInv'
<1>. DEFINE records == SettledContexts(P)
            sessions == SettledSessions(P)
            finishing == Finishing(records, sessions)
            again == {c \in finishing : CanReiterate(records[c])}
            over == (finishing \ again) \cup Drained(records, sessions)
            started == [c \in Context |-> IF c \in again THEN NextIteration(records[c])
                                          ELSE records[c]]
            ready == {c \in executing \ (terminating \cup over) :
                        /\ records[c].local /\ records[c].state \in Running
                        /\ \/ sessions[c] = "RESCHEDULED"
                           \/ sessions[c] = "NONE" /\ c \notin done \ again}
            sent == SetToSeq({<<"Terminated", c>> : c \in over})
<1>1. TypeOK /\ Registrations /\ ExecutionOwned /\ OutcomeOnce /\ Surroundings
  BY TypesAround DEF LifecycleInv
<1>2. /\ Coordinating /\ batch' = FALSE
      /\ \E D \in Dispatches(ready) :
           session' = [c \in Context |-> IF c \in D THEN "DISPATCHED"
                                         ELSE IF c \in over THEN "NONE" ELSE sessions[c]]
      /\ done' = done \ again /\ terminating' = terminating \cup over
      /\ active' = active \o sent
      /\ UNCHANGED <<executing, submissions, burst, plan, shutdown, commands>>
  BY DEF Reconcile
<1>3. IF coordinator = "RUNNING"
      THEN /\ context' = started /\ pending' = pending \ P
           /\ UNCHANGED <<unfinalized, schedulerVars, coordinator>>
      ELSE /\ Apply(WithAuthority(started, pending \ P), pending \ P)
           /\ coordinator' \in {"STOPPED", "STOPPING"}
  BY DEF Reconcile
<1>4. /\ records \in [Context -> ContextRecord] /\ sessions \in [Context -> SessionState]
      /\ \A d \in Context : sessions[d] = "NONE" <=> session[d] = "NONE"
      /\ \A d \in Context : /\ records[d].local = context[d].local
                            /\ records[d] = context[d] \/ records[d].state = "RUNNING"
  BY <1>1, SettledKeeps
<1>5. PICK D \in SUBSET ready :
        session' = [c \in Context |-> IF c \in D THEN "DISPATCHED"
                                      ELSE IF c \in over THEN "NONE" ELSE sessions[c]]
  BY <1>2 DEF Dispatches
<1>. HIDE DEF records, sessions
<1>6. /\ over \subseteq executing \ terminating
      /\ \A d \in over : records[d].state \notin Waiting \cup {"NEW"}
  BY DEF Finishing, Drained, Waiting, Draining, Terminal
<1>7. /\ ready \subseteq executing \ (terminating \cup over)
      /\ \A d \in ready : records[d].state \notin Waiting \cup {"NEW"}
  BY DEF Running, Waiting
<1>8. /\ started \in [Context -> ContextRecord]
      /\ \A d \in Context : /\ started[d].local = context[d].local
                            /\ started[d].state = records[d].state
                            /\ started[d] = context[d] \/ started[d].state = "RUNNING"
  <2>1. ASSUME NEW d \in Context
        PROVE  /\ started[d] \in ContextRecord /\ started[d].local = context[d].local
               /\ started[d].state = records[d].state
               /\ started[d] = context[d] \/ started[d].state = "RUNNING"
    <3>1. records[d] \in ContextRecord BY <1>4
    <3>2. CASE d \in again
      <4>1. started[d] = NextIteration(records[d]) BY <3>2
      <4>2. CanReiterate(records[d]) BY <3>2
      <4>3. records[d].state = "RUNNING" BY <4>2, CanReiterateMeans
      <4>. HIDE DEF started
      <4>. QED BY <1>4, <3>1, <4>1, <4>3, NextIterationKeeps
    <3>3. CASE d \notin again
      <4>1. started[d] = records[d] BY <3>3
      <4>. HIDE DEF started
      <4>. QED BY <1>4, <3>1, <4>1
    <3>. QED BY <3>2, <3>3
  <2>2. started \in [Context -> ContextRecord] BY <2>1
  <2>. HIDE DEF started
  <2>. QED BY <2>1, <2>2
<1>9. over \in SUBSET Context BY <1>1, <1>6 DEF TypeOK
<1>10. again \subseteq executing BY DEF Finishing
<1>. HIDE DEF started, ready, over, again, finishing
<1>11. /\ sent \in Seq(Message)
       /\ \A d \in Context : Once(sent, Ended(d)) /\ (Holds(sent, Ended(d)) <=> d \in over)
  BY <1>9, OutcomesAreSent
<1>. HIDE DEF sent
<1>12. "RUNNING" \notin Waiting \cup {"NEW"} BY DEF Waiting
<1>13. /\ context' \in [Context -> ContextRecord]
       /\ \A d \in Context : Harmless(d)
       /\ \A d \in Context : started[d].state \notin Waiting \cup {"NEW"}
                               => context'[d].state \notin Waiting \cup {"NEW"}
       /\ Surroundings'
  <2>1. CASE coordinator = "RUNNING"
    <3>1. context' = started /\ pending' = pending \ P /\ UNCHANGED <<unfinalized, schedulerVars, coordinator>>
      BY <1>3, <2>1
    <3>2. \A d \in Context : Harmless(d)
      BY <1>1, <1>8, <1>12, <3>1 DEF Harmless, ExecutionOwned
    <3>3. Surroundings' BY <1>1, <1>2, <3>1 DEF Surroundings, schedulerVars
    <3>. QED BY <1>8, <3>1, <3>2, <3>3
  <2>2. CASE coordinator # "RUNNING"
    <3>. DEFINE after == WithAuthority(started, pending \ P)
    <3>1. Apply(after, pending \ P) /\ coordinator' \in {"STOPPED", "STOPPING"} BY <1>3, <2>2
    <3>2. /\ after \in [Context -> ContextRecord]
          /\ \A d \in Context : \/ after[d] = started[d]
                                \/ /\ started[d].local => after[d].local
                                   /\ after[d].state \notin Waiting \cup {"NEW"}
      BY <1>8, WithAuthorityKeeps
    <3>. HIDE DEF after
    <3>3. ShutDown(after) BY <1>8, <1>12, <3>2 DEF ShutDown
    <3>4. pending \ P \in SUBSET Context BY <1>1 DEF TypeOK
    <3>5. /\ context' = after /\ \A d \in Context : Harmless(d)
          /\ unfinalized' \subseteq Context /\ pending' \subseteq Context
          /\ queued' \in Seq(Context) /\ admitted' \subseteq Context
          /\ scheduled' \in BOOLEAN /\ timer' \in BOOLEAN
      BY <3>1, <3>3, <3>4, ApplyTyped
    <3>6. Surroundings' BY <1>1, <1>2, <3>1, <3>5 DEF Surroundings
    <3>. QED BY <3>2, <3>5, <3>6
  <2>. QED BY <2>1, <2>2
<1>14. /\ active' \in Seq(Message)
       /\ \A d \in Context : /\ Once(active', Ended(d))
                             /\ Holds(active', Ended(d)) <=> d \in terminating'
  <2>1. /\ active \o sent \in Seq(Message)
        /\ \A m : Holds(active \o sent, m) <=> Holds(active, m) \/ Holds(sent, m)
        /\ \A m : Once(active, m) /\ Once(sent, m) /\ ~ (Holds(active, m) /\ Holds(sent, m))
                    => Once(active \o sent, m)
    BY <1>1, <1>11, ConcatHolds DEF TypeOK
  <2>2. \A d \in Context : /\ Once(active, Ended(d))
                           /\ Holds(active, Ended(d)) <=> d \in terminating
    BY <1>1, <1>2 DEF OutcomeOnce
  <2>3. \A d \in Context : ~ (Holds(active, Ended(d)) /\ Holds(sent, Ended(d)))
    BY <1>6, <1>11, <2>2
  <2>. QED BY <1>2, <1>11, <2>1, <2>2, <2>3
<1>15. /\ session' \in [Context -> SessionState]
       /\ \A d \in Context : session'[d] = IF d \in D THEN "DISPATCHED"
                                           ELSE IF d \in over THEN "NONE" ELSE sessions[d]
  BY <1>4, <1>5 DEF SessionState
<1>16. terminating' \subseteq executing' /\ done' \subseteq executing'
  BY <1>1, <1>2, <1>6 DEF TypeOK
<1>17. TypeOK' BY <1>1, <1>2, <1>13, <1>14, <1>15, <1>16 DEF TypeOK, Surroundings
<1>18. Registrations' BY <1>1, <1>2 DEF Registrations
<1>19. OutcomeOnce'
  <2>1. ASSUME NEW d \in Context, d \in terminating' PROVE session'[d] = "NONE"
    <3>1. d \notin D BY <1>2, <1>5, <1>7, <2>1
    <3>2. CASE d \in over BY <1>15, <3>1, <3>2
    <3>3. CASE d \notin over
      <4>1. session[d] = "NONE" BY <1>1, <1>2, <2>1, <3>3 DEF OutcomeOnce
      <4>. QED BY <1>4, <1>15, <3>1, <3>3, <4>1
    <3>. QED BY <3>2, <3>3
  <2>. QED BY <1>14, <2>1 DEF OutcomeOnce
<1>20. ExecutionOwned'
  <2>1. ASSUME NEW d \in Context
        PROVE  /\ d \in executing => context'[d].local
               /\ Begun(d)' => d \in executing /\ context'[d].state \notin Waiting \cup {"NEW"}
    <3>1. d \in executing => context'[d].local
      BY <1>1, <1>13 DEF ExecutionOwned, Harmless
    <3>2. CASE d \in D \cup over
      BY <1>5, <1>6, <1>7, <1>8, <1>13, <3>1, <3>2
    <3>3. CASE d \notin D \cup over
      <4>1. Begun(d)' => Begun(d) BY <1>2, <1>4, <1>15, <3>3 DEF Begun
      <4>. QED BY <1>1, <1>13, <3>1, <4>1 DEF ExecutionOwned, Harmless
    <3>. QED BY <3>1, <3>2, <3>3
  <2>. QED BY <1>2, <2>1 DEF ExecutionOwned
<1>. QED BY <1>17, <1>18, <1>19, <1>20 DEF LifecycleInv

-----------------------------------------------------------------------------
(* Without the coordinator.                                                   *)

(* A step of the emergency that changes records only.                         *)
LEMMA EmergencyStep ==
    ASSUME LifecycleInv, context' \in [Context -> ContextRecord],
           \A d \in Context : Harmless(d),
           Surroundings', ~ Coordinating', UNCHANGED <<managerVars, queueVars, batch>>
    PROVE  LifecycleInv'
<1>1. TypeOK /\ Registrations /\ ExecutionOwned BY DEF LifecycleInv
<1>2. TypeOK' BY <1>1 DEF TypeOK, Surroundings, managerVars, queueVars
<1>3. Registrations' BY <1>1 DEF Registrations, Surroundings, queueVars
<1>4. OutcomeOnce' BY DEF OutcomeOnce
<1>5. ExecutionOwned' BY <1>1 DEF ExecutionOwned, Harmless, Begun, managerVars
<1>. QED BY <1>2, <1>3, <1>4, <1>5 DEF LifecycleInv

LEMMA LostIsNotCoordinating == (Lost => ~ Coordinating) /\ (Lost' => ~ Coordinating')
BY DEF Lost, Coordinating

LEMMA EmergencyAbortKeeps ==
    ASSUME LifecycleInv, NEW c \in Context, EmergencyAbort(c) PROVE LifecycleInv'
<1>. DEFINE r == [context[c] EXCEPT !.state = "ABORTING"]
<1>1. /\ Lost /\ SetContext(c, r) /\ pending' = pending \ {c}
      /\ UNCHANGED <<schedulerVars, managerVars, queueVars, engineVars, batch>>
  BY DEF EmergencyAbort, SetState
<1>2. MayBecome(c, r) BY StateMayBecome DEF ContextState, Draining, Waiting
<1>. HIDE DEF r
<1>3. /\ context' \in [Context -> ContextRecord] /\ unfinalized' \subseteq Context
      /\ \A d \in Context : Harmless(d)
  BY <1>1, <1>2, SetIsHarmless
<1>4. Surroundings'
  BY <1>1, <1>3, TypesAround DEF LifecycleInv, Surroundings, schedulerVars, engineVars
<1>5. ~ Coordinating' BY <1>1 DEF Lost, Coordinating, engineVars
<1>. QED BY <1>1, <1>3, <1>4, <1>5, EmergencyStep

LEMMA EmergencyReleaseTyped ==
    ASSUME TypeOK, NEW c \in Context, NEW raises \in BOOLEAN, EmergencyRelease(c, raises)
    PROVE  queued' \in Seq(Context) /\ admitted' \subseteq Context
<1>. DEFINE q == Without(queued, {c})
            adm == admitted \ {c}
            outcome(pressured) == Admission(q, adm, context', pending', pressured)
<1>1. PICK pressured \in Pressure :
        /\ raises = (coordinator = "LOST" /\ outcome(pressured).sent # << >>)
        /\ queued' = IF raises THEN Tail(q) ELSE q
        /\ admitted' = adm \cup (IF raises THEN {Head(q)} ELSE {})
  BY DEF EmergencyRelease
<1>2. q \in Seq(Context) /\ adm \in SUBSET Context BY WithoutKeeps DEF TypeOK
<1>3. raises => q # << >>
  <2>1. ASSUME q = << >>, raises PROVE FALSE
    <3>1. Len(q) = 0 BY <2>1
    <3>2. Slots(adm, context') \in Nat BY <1>2, SlotsAreCounted
    <3>3. outcome(pressured).sent # << >> BY <1>1, <2>1
    <3>. HIDE DEF q, adm
    <3>4. outcome(pressured).sent = [i \in 1..0 |-> <<"Admitted", q[i]>>]
      BY <3>1, <3>2 DEF Admission
    <3>5. outcome(pressured).sent = << >> BY <3>4
    <3>. QED BY <3>3, <3>5
  <2>. QED BY <2>1
<1>. HIDE DEF q, adm
<1>4. CASE raises
  <2>1. Head(q) \in Context /\ Tail(q) \in Seq(Context) BY <1>2, <1>3, <1>4, TailHolds
  <2>. QED BY <1>1, <1>2, <1>4, <2>1
<1>5. CASE ~ raises BY <1>1, <1>2, <1>5
<1>. QED BY <1>4, <1>5

LEMMA EmergencyConcludeKeeps ==
    ASSUME LifecycleInv, NEW c \in Context, EmergencyConclude(c) PROVE LifecycleInv'
<1>. DEFINE r == [context[c] EXCEPT !.state = "ABORTED"]
<1>1. /\ Lost /\ context' = [context EXCEPT ![c].state = "ABORTED"] /\ pending' = pending \ {c}
      /\ UNCHANGED <<scheduled, timer, managerVars, queueVars, plan, shutdown, commands, batch>>
  BY DEF EmergencyConclude
<1>2. PICK raises \in BOOLEAN :
        /\ EmergencyRelease(c, raises)
        /\ unfinalized' = unfinalized \cup (IF raises THEN {c} ELSE {})
        /\ coordinator' = IF raises THEN "EMERGENCY" ELSE coordinator
  BY DEF EmergencyConclude
<1>3. TypeOK /\ Surroundings BY TypesAround DEF LifecycleInv
<1>4. context' = [context EXCEPT ![c] = r] BY <1>1
<1>5. MayBecome(c, r) BY StateMayBecome DEF ContextState, Terminal, Waiting
<1>. HIDE DEF r
<1>6. r \in ContextRecord BY <1>5 DEF MayBecome
<1>7. /\ context' \in [Context -> ContextRecord]
      /\ context'[c] = r /\ \A d \in Context \ {c} : context'[d] = context[d]
  BY <1>3, <1>4, <1>6 DEF TypeOK
<1>8. \A d \in Context : Harmless(d) BY <1>5, <1>7 DEF MayBecome, Harmless
<1>9. queued' \in Seq(Context) /\ admitted' \subseteq Context BY <1>2, <1>3, EmergencyReleaseTyped
<1>10. unfinalized' \subseteq Context /\ coordinator' \in {"EMERGENCY", coordinator}
  BY <1>2, <1>3 DEF TypeOK
<1>11. Surroundings' BY <1>1, <1>3, <1>9, <1>10 DEF Surroundings
<1>12. ~ Coordinating' BY <1>1, <1>10 DEF Lost, Coordinating
<1>. QED BY <1>1, <1>7, <1>8, <1>11, <1>12, EmergencyStep

(* What taking a context back makes of its record, as far as it comes.        *)
Reclaimed(c, raises) == IF raises THEN context[c] ELSE Reassigned(c, context[c], TRUE)

LEMMA EmergencyReclaimKeeps ==
    ASSUME LifecycleInv, NEW c \in Context, EmergencyReclaim(c) PROVE LifecycleInv'
<1>1. /\ Lost /\ ~ context[c].local /\ pending' = pending \ {c} /\ coordinator' = "EMERGENCY"
      /\ UNCHANGED <<scheduled, timer, managerVars, queueVars, plan, shutdown, commands, batch>>
  BY DEF EmergencyReclaim
<1>2. PICK raises \in BOOLEAN : SetContext(c, Reclaimed(c, raises)) /\ EmergencyRelease(c, raises)
  BY DEF EmergencyReclaim, Reclaimed
<1>3. TypeOK /\ Surroundings BY TypesAround DEF LifecycleInv
<1>4. MayBecome(c, Reclaimed(c, raises))
  <2>1. ~ Begun(c) /\ c \notin executing
    BY <1>1, NotBegun DEF LifecycleInv, ExecutionOwned
  <2>2. Reclaimed(c, raises) \in ContextRecord
    BY <1>3, KnownRecord, ReassignedIsRecord DEF Reclaimed
  <2>. QED BY <2>1, <2>2 DEF MayBecome
<1>5. /\ context' \in [Context -> ContextRecord] /\ unfinalized' \subseteq Context
      /\ \A d \in Context : Harmless(d)
  BY <1>2, <1>4, SetIsHarmless
<1>6. queued' \in Seq(Context) /\ admitted' \subseteq Context BY <1>2, <1>3, EmergencyReleaseTyped
<1>7. Surroundings' BY <1>1, <1>3, <1>5, <1>6 DEF Surroundings
<1>8. ~ Coordinating' BY <1>1 DEF Coordinating
<1>. QED BY <1>1, <1>5, <1>7, <1>8, EmergencyStep

LEMMA EmergencyReadyKeeps ==
    ASSUME LifecycleInv, EmergencyReady PROVE LifecycleInv'
<1>1. /\ coordinator' = "EMERGENCY"
      /\ UNCHANGED <<registryVars, schedulerVars, managerVars, queueVars, plan, shutdown, commands, batch>>
  BY DEF EmergencyReady
<1>2. TypeOK /\ Surroundings BY TypesAround DEF LifecycleInv
<1>3. /\ context' \in [Context -> ContextRecord] /\ \A d \in Context : Harmless(d)
  BY <1>1, <1>2, NothingChanges DEF registryVars
<1>4. Surroundings' BY <1>1, <1>2 DEF Surroundings, registryVars, schedulerVars
<1>5. ~ Coordinating' BY <1>1 DEF Coordinating
<1>. QED BY <1>1, <1>3, <1>4, <1>5, EmergencyStep

LEMMA TimeoutKeeps ==
    ASSUME LifecycleInv, ForcedTimeout PROVE LifecycleInv'
<1>1. /\ Lose
      /\ UNCHANGED <<registryVars, schedulerVars, managerVars, queueVars, plan, shutdown, commands, batch>>
  BY DEF ForcedTimeout
<1>2. TypeOK /\ Surroundings BY TypesAround DEF LifecycleInv
<1>3. /\ context' \in [Context -> ContextRecord] /\ \A d \in Context : Harmless(d)
  BY <1>1, <1>2, NothingChanges DEF registryVars
<1>4. coordinator' \in {"LOST", "LOST_STOPPING"} BY <1>1 DEF Lose
<1>5. Surroundings' BY <1>1, <1>2, <1>4 DEF Surroundings, registryVars, schedulerVars
<1>6. ~ Coordinating' BY <1>4 DEF Coordinating
<1>. QED BY <1>1, <1>3, <1>5, <1>6, EmergencyStep

LEMMA RecoverKeeps ==
    ASSUME LifecycleInv, Recover PROVE LifecycleInv'
<1>. DEFINE recovered == {c \in executing : context[c].state \in Draining \cup Terminal}
            new(c) == IF c \in recovered /\ Registered(c)
                      THEN [context[c] EXCEPT !.state = Outcome(c)] ELSE context[c]
<1>1. /\ \A c \in Context : session[c] # "DISPATCHED"
      /\ coordinator' = "CLOSED"
      /\ context' = [c \in Context |-> new(c)]
      /\ unfinalized' = unfinalized \ recovered /\ pending' = pending \ recovered
      /\ Leave(recovered)
      /\ queued' = << >> /\ admitted' = {} /\ scheduled' = FALSE
      /\ UNCHANGED <<timer, queueVars, plan, shutdown, commands, batch>>
  BY DEF Recover
<1>2. TypeOK /\ Registrations /\ ExecutionOwned /\ Surroundings BY TypesAround DEF LifecycleInv
<1>3. ASSUME NEW c \in Context
      PROVE  /\ new(c) \in ContextRecord
             /\ c \notin recovered => new(c) = context[c]
  <2>1. context[c] \in ContextRecord BY <1>2 DEF TypeOK
  <2>2. Outcome(c) \in ContextState \cup {"NEW"} BY OutcomeIsState
  <2>. QED BY <2>1, <2>2, StateOnly
<1>4. /\ executing' = executing \ recovered /\ terminating' = terminating \ recovered
      /\ done' = done \ recovered
      /\ session' = [c \in Context |-> IF c \in recovered /\ session[c] # "DISPATCHED"
                                       THEN "NONE" ELSE session[c]]
  BY <1>1 DEF Leave
<1>. HIDE DEF new, recovered
<1>5. session' \in [Context -> SessionState]
  BY <1>2, <1>4 DEF TypeOK, SessionState
<1>6. context' \in [Context -> ContextRecord] /\ \A c \in Context : context'[c] = new(c)
  BY <1>1, <1>3
<1>7. << >> \in Seq(Context) BY EmptySeq
<1>8. TypeOK' BY <1>1, <1>2, <1>4, <1>5, <1>6, <1>7 DEF TypeOK, queueVars
<1>9. Registrations' BY <1>1, <1>2 DEF Registrations, queueVars
<1>10. OutcomeOnce' BY <1>1 DEF OutcomeOnce, Coordinating
<1>11. ExecutionOwned'
  <2>1. ASSUME NEW c \in Context
        PROVE  /\ c \in executing' => context'[c].local
               /\ Begun(c)' => c \in executing' /\ context'[c].state \notin Waiting \cup {"NEW"}
    <3>1. CASE c \in recovered
      <4>1. session'[c] = "NONE" BY <1>1, <1>4, <3>1
      <4>. QED BY <1>4, <3>1, <4>1 DEF Begun
    <3>2. CASE c \notin recovered
      <4>1. context'[c] = context[c] BY <1>3, <1>6, <3>2
      <4>2. session'[c] = session[c] BY <1>4, <3>2
      <4>3. Begun(c)' <=> Begun(c) BY <1>4, <3>2, <4>2 DEF Begun
      <4>. QED BY <1>2, <1>4, <3>2, <4>1, <4>3 DEF ExecutionOwned
    <3>. QED BY <3>1, <3>2
  <2>. QED BY <2>1 DEF ExecutionOwned
<1>. QED BY <1>8, <1>9, <1>10, <1>11 DEF LifecycleInv

-----------------------------------------------------------------------------
(* Users, executors and timers.                                               *)

(* A thread puts a message that is no outcome in the active queue, and a      *)
(* record or a session may have changed.                                      *)
LEMMA PutStep ==
    ASSUME LifecycleInv, NEW m \in Message, \A d \in Context : m # Ended(d),
           active' = Append(active, m),
           context' \in [Context -> ContextRecord], \A d \in Context : Harmless(d),
           Surroundings', coordinator' = coordinator,
           session' \in [Context -> SessionState],
           \A d \in Context : session'[d] = "NONE" <=> session[d] = "NONE",
           UNCHANGED <<executing, terminating, done, submissions, burst>>
    PROVE  LifecycleInv'
<1>1. TypeOK /\ Registrations /\ ExecutionOwned /\ OutcomeOnce BY DEF LifecycleInv
<1>2. /\ Append(active, m) \in Seq(Message)
      /\ \A n : Holds(Append(active, m), n) <=> Holds(active, n) \/ n = m
      /\ \A n : Once(active, n) /\ n # m => Once(Append(active, m), n)
  BY <1>1, AppendHolds DEF TypeOK
<1>3. TypeOK' BY <1>1, <1>2 DEF TypeOK, Surroundings
<1>4. Registrations' BY <1>1 DEF Registrations, Surroundings
<1>5. OutcomeOnce'
  <2>1. ASSUME Coordinating', NEW d \in Context
        PROVE  /\ Once(active', Ended(d))
               /\ Holds(active', Ended(d)) <=> d \in terminating'
               /\ d \in terminating' => session'[d] = "NONE"
    <3>1. Coordinating BY <2>1 DEF Coordinating
    <3>. QED BY <1>1, <1>2, <3>1 DEF OutcomeOnce
  <2>. QED BY <2>1 DEF OutcomeOnce
<1>6. ExecutionOwned'
  <2>1. \A d \in Context : Begun(d)' <=> Begun(d) BY DEF Begun
  <2>. QED BY <1>1, <2>1 DEF ExecutionOwned, Harmless
<1>. QED BY <1>3, <1>4, <1>5, <1>6 DEF LifecycleInv

LEMMA IsMessage ==
    ASSUME NEW type \in MessageType, NEW of \in Context \cup {"ALL", "GRACEFUL", "FORCED"}
    PROVE  /\ <<type, of>> \in Message
           /\ type # "Terminated" => \A d \in Context : <<type, of>> # Ended(d)
BY DEF Message, Ended

(* A message is put in the queue and nothing of the registry changes.         *)
LEMMA EnqueueStep ==
    ASSUME LifecycleInv, NEW m \in Message, \A d \in Context : m # Ended(d), Enqueue(m),
           UNCHANGED <<managerVars, plan>>, timer' \in BOOLEAN, commands' \in Nat,
           shutdown' \in {"NO", "GRACEFUL", "FORCED"}
    PROVE  LifecycleInv'
<1>1. TypeOK /\ Surroundings BY TypesAround DEF LifecycleInv
<1>2. /\ active' = Append(active, m)
      /\ UNCHANGED <<registryVars, queued, admitted, scheduled, submissions, burst, coordinator, batch>>
  BY DEF Enqueue
<1>3. /\ context' \in [Context -> ContextRecord] /\ \A d \in Context : Harmless(d)
  BY <1>1, <1>2, NothingChanges DEF registryVars
<1>4. Surroundings' BY <1>1, <1>2 DEF Surroundings, registryVars
<1>5. /\ session' \in [Context -> SessionState]
      /\ \A d \in Context : session'[d] = "NONE" <=> session[d] = "NONE"
      /\ UNCHANGED <<executing, terminating, done>>
  BY <1>1 DEF managerVars, TypeOK
<1>. QED BY <1>2, <1>3, <1>4, <1>5, PutStep

LEMMA SubmitKeeps ==
    ASSUME LifecycleInv, NEW c \in Context, Submit(c) PROVE LifecycleInv'
<1>1. TypeOK /\ Registrations /\ ExecutionOwned /\ OutcomeOnce /\ Surroundings
  BY TypesAround DEF LifecycleInv
<1>2. /\ context[c].state = "NEW"
      /\ UNCHANGED <<pending, schedulerVars, managerVars, burst, engineVars, batch>>
  BY DEF Submit
<1>3. ~ Begun(c) BY <1>1, <1>2 DEF ExecutionOwned
<1>4. ASSUME NEW s \in Waiting, SetState(c, s)
      PROVE  /\ context' \in [Context -> ContextRecord] /\ \A d \in Context : Harmless(d)
             /\ Surroundings'
  <2>. DEFINE r == [context[c] EXCEPT !.state = s]
  <2>1. context[c] \in ContextRecord /\ s \in ContextState \cup {"NEW"}
    BY <1>1 DEF TypeOK, ContextState
  <2>2. r \in ContextRecord /\ r.local = context[c].local BY <2>1, StateOnly
  <2>3. MayBecome(c, r) BY <1>1, <1>3, <2>2 DEF MayBecome, ExecutionOwned
  <2>4. SetContext(c, r) BY <1>4 DEF SetState
  <2>. HIDE DEF r
  <2>5. /\ context' \in [Context -> ContextRecord] /\ unfinalized' \subseteq Context
        /\ \A d \in Context : Harmless(d)
    BY <2>3, <2>4, SetIsHarmless
  <2>6. Surroundings' BY <1>1, <1>2, <2>5 DEF Surroundings, schedulerVars, engineVars
  <2>. QED BY <2>5, <2>6
<1>5. /\ session' \in [Context -> SessionState]
      /\ \A d \in Context : session'[d] = "NONE" <=> session[d] = "NONE"
      /\ UNCHANGED <<executing, terminating, done, burst, coordinator, batch, plan>>
  BY <1>1, <1>2 DEF managerVars, engineVars, TypeOK
<1>6. CASE /\ SetState(c, "VALIDATED") /\ active' = Append(active, <<"Registered", c>>)
           /\ UNCHANGED submissions
  <2>1. <<"Registered", c>> \in Message /\ \A d \in Context : <<"Registered", c>> # Ended(d)
    BY DEF Message, MessageType, AcceptedDuringShutdown, Ended
  <2>2. "VALIDATED" \in Waiting BY DEF Waiting
  <2>. QED BY <1>4, <1>5, <1>6, <2>1, <2>2, PutStep
<1>7. ASSUME NEW s \in Waiting, SetState(c, s), active' = active,
             submissions' \in Seq(RegisteredMessage)
      PROVE  LifecycleInv'
  <2>1. /\ context' \in [Context -> ContextRecord] /\ \A d \in Context : Harmless(d)
        /\ Surroundings'
    BY <1>4, <1>7
  <2>2. submissions' \in Seq(Message) BY <1>7, RegisteredIsMessage
  <2>3. TypeOK' BY <1>1, <1>5, <1>7, <2>1, <2>2 DEF TypeOK, Surroundings
  <2>4. Registrations' BY <1>1, <1>5, <1>7 DEF Registrations
  <2>5. OutcomeOnce'
    <3>1. Coordinating' <=> Coordinating BY <1>5 DEF Coordinating
    <3>. QED BY <1>1, <1>5, <1>7, <3>1 DEF OutcomeOnce
  <2>6. ExecutionOwned'
    <3>1. \A d \in Context : Begun(d)' <=> Begun(d) BY <1>5 DEF Begun
    <3>. QED BY <1>1, <1>5, <2>1, <3>1 DEF ExecutionOwned, Harmless
  <2>. QED BY <2>3, <2>4, <2>5, <2>6 DEF LifecycleInv
<1>8. CASE SetState(c, "ROUTING") /\ UNCHANGED <<active, submissions>>
  <2>1. submissions' \in Seq(RegisteredMessage) BY <1>1, <1>8 DEF Registrations
  <2>2. "ROUTING" \in Waiting BY DEF Waiting
  <2>. QED BY <1>7, <1>8, <2>1, <2>2
<1>9. CASE /\ SetState(c, "QUEUED") /\ submissions' = Append(submissions, <<"Registered", c>>)
           /\ UNCHANGED active
  <2>1. <<"Registered", c>> \in RegisteredMessage BY DEF RegisteredMessage
  <2>2. submissions' \in Seq(RegisteredMessage)
    BY <1>1, <1>9, <2>1, AppendProperties DEF Registrations
  <2>3. "QUEUED" \in Waiting BY DEF Waiting
  <2>. QED BY <1>7, <1>9, <2>2, <2>3
<1>. QED BY <1>6, <1>8, <1>9 DEF Submit

LEMMA GiveKeeps ==
    ASSUME LifecycleInv, NEW type \in MessageType \ {"Terminated"}, NEW c \in Context,
           Give(<<type, c>>)
    PROVE  LifecycleInv'
<1>. DEFINE m == <<type, c>>
<1>1. m \in Message /\ \A d \in Context : m # Ended(d) BY IsMessage
<1>2. TypeOK BY DEF LifecycleInv
<1>3. /\ Enqueue(m) /\ commands' = commands + 1 /\ UNCHANGED <<timer, managerVars, plan, shutdown>>
  BY DEF Give
<1>. HIDE DEF m
<1>4. timer' \in BOOLEAN /\ commands' \in Nat /\ shutdown' \in {"NO", "GRACEFUL", "FORCED"}
  BY <1>2, <1>3 DEF TypeOK
<1>. QED BY <1>1, <1>3, <1>4, EnqueueStep

LEMMA UserKeeps ==
    ASSUME LifecycleInv, User PROVE LifecycleInv'
<1>1. TypeOK /\ plan \in Instances BY DEF LifecycleInv, Registrations
<1>2. ASSUME NEW c \in Context, ReceiveSnapshot(c) PROVE LifecycleInv'
  BY <1>2, GiveKeeps DEF ReceiveSnapshot, MessageType, AcceptedDuringShutdown
<1>3. ASSUME NEW c \in Context, NEW type \in plan.commands, GiveCommand(type, c)
      PROVE  LifecycleInv'
  <2>1. plan.commands \subseteq ControlCommand BY <1>1, ConstantsAssumption
  <2>2. type \in MessageType \ {"Terminated"} BY <2>1 DEF MessageType, ControlCommand
  <2>. QED BY <1>3, <2>2, GiveKeeps DEF GiveCommand
<1>4. ASSUME NEW kind \in plan.shutdowns, RequestShutdown(kind) PROVE LifecycleInv'
  <2>. DEFINE m == <<"Shutdown", kind>>
  <2>1. kind \in {"GRACEFUL", "FORCED"}
    <3>1. plan.shutdowns \subseteq {"GRACEFUL", "FORCED"} BY <1>1, ConstantsAssumption
    <3>. QED BY <3>1
  <2>2. m \in Message /\ \A d \in Context : m # Ended(d)
    BY <2>1, IsMessage DEF MessageType, AcceptedDuringShutdown
  <2>3. /\ shutdown' = kind /\ UNCHANGED plan /\ timer' = FALSE /\ Enqueue(m)
        /\ UNCHANGED <<managerVars, commands>>
    BY <1>4 DEF RequestShutdown
  <2>. HIDE DEF m
  <2>4. commands' \in Nat /\ timer' \in BOOLEAN BY <1>1, <2>3 DEF TypeOK
  <2>. QED BY <2>1, <2>2, <2>3, <2>4, EnqueueStep
<1>. QED BY <1>2, <1>3, <1>4, SubmitKeeps DEF User

LEMMA TimersKeep ==
    ASSUME LifecycleInv, ReconcileTimer \/ NotifyRelease PROVE LifecycleInv'
<1>. DEFINE m == ReconcileMessage
<1>1. m \in Message /\ \A d \in Context : m # Ended(d)
  BY IsMessage DEF ReconcileMessage, MessageType
<1>2. /\ Enqueue(m) /\ timer' \in {FALSE, timer}
      /\ UNCHANGED <<managerVars, plan, shutdown, commands>>
  BY DEF ReconcileTimer, NotifyRelease
<1>. HIDE DEF m
<1>3. timer' \in BOOLEAN /\ commands' \in Nat /\ shutdown' \in {"NO", "GRACEFUL", "FORCED"}
  BY <1>2 DEF LifecycleInv, TypeOK
<1>. QED BY <1>1, <1>2, <1>3, EnqueueStep

LEMMA ReportKeeps ==
    ASSUME LifecycleInv, NEW c \in Context, Report(c) PROVE LifecycleInv'
<1>1. TypeOK /\ Registrations /\ ExecutionOwned /\ OutcomeOnce /\ Surroundings
  BY TypesAround DEF LifecycleInv
<1>2. /\ session[c] = "DISPATCHED" /\ session' = [session EXCEPT ![c] = "REPORTED"]
      /\ UNCHANGED <<timer, executing, terminating, done, plan, shutdown, commands>>
  BY DEF Report
<1>3. /\ session' \in [Context -> SessionState]
      /\ \A d \in Context : session'[d] = "NONE" <=> session[d] = "NONE"
  BY <1>1, <1>2 DEF TypeOK, SessionState
<1>4. CASE Coordinating
  <2>. DEFINE m == <<"Retrieve", c>>
  <2>1. m \in Message /\ \A d \in Context : m # Ended(d)
    BY IsMessage DEF MessageType, AcceptedDuringShutdown
  <2>2. Enqueue(m) BY <1>4 DEF Report
  <2>. HIDE DEF m
  <2>3. /\ active' = Append(active, m)
        /\ UNCHANGED <<registryVars, queued, admitted, scheduled, submissions, burst, coordinator, batch>>
    BY <2>2 DEF Enqueue
  <2>4. /\ context' \in [Context -> ContextRecord] /\ \A d \in Context : Harmless(d)
    BY <1>1, <2>3, NothingChanges DEF registryVars
  <2>5. Surroundings' BY <1>1, <1>2, <2>3 DEF Surroundings, registryVars
  <2>. QED BY <1>2, <1>3, <2>1, <2>3, <2>4, <2>5, PutStep
<1>5. CASE ~ Coordinating
  <2>1. UNCHANGED <<registryVars, queued, admitted, scheduled, queueVars, coordinator, batch>>
    BY <1>5 DEF Report
  <2>2. TypeOK' BY <1>1, <1>2, <1>3, <2>1 DEF TypeOK, registryVars, queueVars
  <2>3. Registrations' BY <1>1, <1>2, <2>1 DEF Registrations, queueVars
  <2>4. OutcomeOnce' BY <1>5, <2>1 DEF OutcomeOnce, Coordinating
  <2>5. ExecutionOwned'
    BY <1>1, <1>2, <1>3, <2>1 DEF ExecutionOwned, Begun, registryVars
  <2>. QED BY <2>2, <2>3, <2>4, <2>5 DEF LifecycleInv
<1>. QED BY <1>4, <1>5

-----------------------------------------------------------------------------
(* The invariant holds.                                                       *)

LEMMA LifecycleInit == Init => LifecycleInv
<1>. SUFFICES ASSUME Init PROVE LifecycleInv OBVIOUS
<1>1. << >> \in Seq(Context) /\ << >> \in Seq(Message) /\ << >> \in Seq(RegisteredMessage)
  BY EmptySeq
<1>2. TypeOK
  <2>1. context \in [Context -> ContextRecord] BY DEF Init, ContextRecord
  <2>2. session \in [Context -> SessionState] BY DEF Init, SessionState
  <2>3. burst \in 0..ActiveBurst BY ConstantsAssumption DEF Init
  <2>. QED BY <1>1, <2>1, <2>2, <2>3 DEF Init, TypeOK
<1>3. Registrations BY <1>1 DEF Init, Registrations
<1>4. ExecutionOwned BY DEF Init, ExecutionOwned, Begun
<1>5. OutcomeOnce BY DEF Init, OutcomeOnce, Once, Holds
<1>. QED BY <1>2, <1>3, <1>4, <1>5 DEF LifecycleInv

LEMMA HandleKeeps ==
    ASSUME LifecycleInv, Handle PROVE LifecycleInv'
<1>1. ASSUME NEW c \in Context, HandleOf(c) PROVE LifecycleInv'
  BY <1>1, RegisteredHandled, AdmittedHandled, StartHandled, AbortHandled, PauseHandled,
     ResumeHandled, StopHandled, TransferOutHandled, TransferInHandled, SnapshotHandled,
     RetrieveHandled, TerminatedHandled
     DEF HandleOf
<1>. QED BY <1>1, ReconcileHandled, ShutdownHandled, ForcedShutdownHandled, Dropped DEF Handle

LEMMA EmergencyKeeps ==
    ASSUME LifecycleInv, Emergency PROVE LifecycleInv'
BY EmergencyAbortKeeps, EmergencyConcludeKeeps, EmergencyReclaimKeeps, EmergencyReadyKeeps,
   RecoverKeeps
   DEF Emergency

LEMMA LifecycleNext == LifecycleInv /\ [Next]_vars => LifecycleInv'
<1>. SUFFICES ASSUME LifecycleInv, [Next]_vars PROVE LifecycleInv' OBVIOUS
<1>1. CASE User BY <1>1, UserKeeps
<1>2. CASE Handle BY <1>2, HandleKeeps
<1>3. CASE ReconcileSome BY <1>3, ReconcileStep DEF ReconcileSome
<1>4. CASE Emergency BY <1>4, EmergencyKeeps
<1>5. CASE ForcedTimeout BY <1>5, TimeoutKeeps
<1>6. CASE ReconcileTimer \/ NotifyRelease BY <1>6, TimersKeep
<1>7. CASE \E c \in Context : Report(c) BY <1>7, ReportKeeps
<1>8. CASE UNCHANGED vars
  BY <1>8 DEF vars, registryVars, schedulerVars, managerVars, queueVars, engineVars,
     LifecycleInv, TypeOK, Registrations, ExecutionOwned, Begun, OutcomeOnce, Coordinating
<1>9. CASE Closed BY <1>8, <1>9 DEF Closed
<1>. QED BY <1>1, <1>2, <1>3, <1>4, <1>5, <1>6, <1>7, <1>8, <1>9 DEF Next

LEMMA LifecycleInvariant == Spec => []LifecycleInv
<1>. QED BY LifecycleInit, LifecycleNext, PTL DEF Spec

-----------------------------------------------------------------------------
(* How often a queue holds a message.                                         *)

LEMMA CountIs ==
    ASSUME NEW S, NEW s \in Seq(S), NEW m
    PROVE  /\ Count(s, m) \in Nat
           /\ Count(s, m) = 0 <=> ~ Holds(s, m)
           /\ Count(s, m) <= 1 <=> Once(s, m)
<1>. DEFINE P == {i \in 1..Len(s) : s[i] = m}
<1>1. DOMAIN s = 1..Len(s) /\ Len(s) \in Nat BY LenProperties
<1>2. Count(s, m) = Cardinality(P) BY DEF Count
<1>3. IsFiniteSet(P)
  <2>1. IsFiniteSet(1..Len(s)) BY <1>1, FS_Interval
  <2>. QED BY <2>1, FS_Subset
<1>4. Holds(s, m) <=> P # {} BY <1>1 DEF Holds
<1>5. Once(s, m) <=> \A i, j \in P : i = j BY <1>1 DEF Once
<1>. HIDE DEF P
<1>6. Cardinality(P) \in Nat /\ (Cardinality(P) = 0 <=> P = {})
  BY <1>3, FS_CardinalityType, FS_EmptySet
<1>7. ASSUME \A i, j \in P : i = j PROVE Cardinality(P) <= 1
  <2>1. CASE P = {} BY <1>6, <2>1
  <2>2. CASE P # {}
    <3>1. PICK i \in P : TRUE BY <2>2
    <3>2. P = {i} BY <1>7, <3>1
    <3>3. Cardinality({i}) = 1 BY FS_Singleton
    <3>. QED BY <3>2, <3>3
  <2>. QED BY <2>1, <2>2
<1>8. ASSUME NEW i \in P, NEW j \in P, i # j PROVE ~ (Cardinality(P) <= 1)
  <2>1. {i} \in SUBSET P /\ {i} # P BY <1>8
  <2>2. Cardinality({i}) = 1 BY FS_Singleton
  <2>3. /\ Cardinality({i}) <= Cardinality(P)
        /\ Cardinality(P) = Cardinality({i}) => P = {i}
    BY <1>3, <2>1, FS_Subset
  <2>. QED BY <1>6, <2>1, <2>2, <2>3
<1>. QED BY <1>2, <1>4, <1>5, <1>6, <1>7, <1>8

(* A queue with a message once at most holds it once or not.                  *)
LEMMA CountOf ==
    ASSUME NEW S, NEW s \in Seq(S), NEW m, Once(s, m)
    PROVE  Count(s, m) = IF Holds(s, m) THEN 1 ELSE 0
BY CountIs

LEMMA EmptyCounts == \A m : Count(<< >>, m) = 0
<1>1. << >> \in Seq({}) BY EmptySeq
<1>2. \A m : ~ Holds(<< >>, m) BY DEF Holds
<1>. QED BY <1>1, <1>2, CountIs

LEMMA ConcatCounts ==
    ASSUME NEW S, NEW s \in Seq(S), NEW t \in Seq(S), NEW m,
           Count(s, m) + Count(t, m) <= 1
    PROVE  Count(s \o t, m) = Count(s, m) + Count(t, m)
<1>. DEFINE u == s \o t
<1>1. /\ u \in Seq(S)
      /\ Holds(u, m) <=> Holds(s, m) \/ Holds(t, m)
      /\ Once(s, m) /\ Once(t, m) /\ ~ (Holds(s, m) /\ Holds(t, m)) => Once(u, m)
  BY ConcatHolds
<1>. HIDE DEF u
<1>2. /\ Count(s, m) \in Nat /\ (Count(s, m) = 0 <=> ~ Holds(s, m)) /\ (Count(s, m) <= 1 <=> Once(s, m))
      /\ Count(t, m) \in Nat /\ (Count(t, m) = 0 <=> ~ Holds(t, m)) /\ (Count(t, m) <= 1 <=> Once(t, m))
  BY CountIs
<1>3. Count(u, m) \in Nat /\ (Count(u, m) = 0 <=> ~ Holds(u, m)) /\ (Count(u, m) <= 1 <=> Once(u, m))
  BY <1>1, CountIs
<1>. QED BY <1>1, <1>2, <1>3 DEF u

LEMMA TailCounts ==
    ASSUME NEW S, NEW s \in Seq(S), s # << >>, NEW m, Count(s, m) <= 1
    PROVE  Count(Tail(s), m) = Count(s, m) - (IF Head(s) = m THEN 1 ELSE 0)
<1>. DEFINE t == Tail(s)
<1>1. /\ t \in Seq(S)
      /\ Holds(s, Head(s))
      /\ Holds(s, m) <=> Holds(t, m) \/ m = Head(s)
      /\ Once(s, m) => Once(t, m)
      /\ Once(s, Head(s)) => ~ Holds(t, Head(s))
  BY TailHolds
<1>. HIDE DEF t
<1>2. Count(s, m) \in Nat /\ (Count(s, m) = 0 <=> ~ Holds(s, m)) /\ (Count(s, m) <= 1 <=> Once(s, m))
  BY CountIs
<1>3. Count(t, m) \in Nat /\ (Count(t, m) = 0 <=> ~ Holds(t, m)) /\ (Count(t, m) <= 1 <=> Once(t, m))
  BY <1>1, CountIs
<1>. QED BY <1>1, <1>2, <1>3 DEF t

LEMMA OneCounts ==
    ASSUME NEW e, NEW m
    PROVE  Count(<< e >>, m) = IF e = m THEN 1 ELSE 0
<1>. DEFINE s == << e >>
<1>1. s \in Seq({e}) /\ DOMAIN s = 1..1 /\ s[1] = e OBVIOUS
<1>2. Holds(s, m) <=> e = m BY <1>1 DEF Holds
<1>3. Once(s, m) BY <1>1 DEF Once
<1>. HIDE DEF s
<1>4. Count(s, m) = IF Holds(s, m) THEN 1 ELSE 0 BY <1>1, <1>3, CountOf
<1>. QED BY <1>2, <1>4 DEF s

(* A queue that some leave holds the others as often as before.               *)
LEMMA WithoutCounts ==
    ASSUME NEW S, NEW q \in Seq(S), NEW C, NEW c, Count(q, c) <= 1
    PROVE  Count(Without(q, C), c) = IF c \in C THEN 0 ELSE Count(q, c)
<1>. DEFINE N == Len(q)
            w == Without(q, C)
<1>0. N \in Nat /\ DOMAIN q = 1..N BY LenProperties
<1>1. PICK rest \in [0..N -> Seq(S)] : Filters(rest, q, C) BY WithoutIsDefined
<1>2. Once(q, c) /\ (Count(q, c) = 0 <=> ~ Holds(q, c)) /\ Count(q, c) \in Nat BY CountIs
<1>3. \A i, j \in 1..N : q[i] = c /\ q[j] = c => i = j BY <1>0, <1>2 DEF Once
<1>. DEFINE Sound(n) == Holds(rest[n], c) => \E j \in 1..n : q[j] = c
            T == {n \in 0..N : Sound(n) /\ Once(rest[n], c)}
<1>4. 0 \in T BY <1>0, <1>1 DEF Filters, Once, Holds
<1>5. ASSUME NEW m \in 0..N, m \in T, m < N PROVE m + 1 \in T
  <2>1. /\ m + 1 \in 1..N /\ m + 1 \in 0..N /\ (m + 1) - 1 = m /\ m \in Nat
        /\ m + 1 \in 1..(m + 1) /\ \A j \in 1..m : j \in 1..(m + 1) /\ j # m + 1 /\ j \in 1..N
    BY <1>0, <1>5
  <2>2. q[m + 1] \in S /\ rest[m] \in Seq(S) BY <1>1, <2>1, ElementOfSeq
  <2>3. Sound(m) /\ Once(rest[m], c) BY <1>5
  <2>4. CASE q[m + 1] \in C
    <3>1. rest[m + 1] = rest[m] BY <1>1, <2>1, <2>4 DEF Filters
    <3>. QED BY <2>1, <2>3, <3>1
  <2>5. CASE q[m + 1] \notin C
    <3>. DEFINE e == q[m + 1]
                s == rest[m]
                t == rest[m + 1]
    <3>1. t = Append(s, e) BY <1>1, <2>1, <2>5 DEF Filters
    <3>2. /\ Len(t) = Len(s) + 1 /\ \A i \in 1..Len(s) : t[i] = s[i]
          /\ t[Len(s) + 1] = e /\ t \in Seq(S)
      BY <2>2, <3>1, AppendProperties
    <3>3. DOMAIN s = 1..Len(s) /\ DOMAIN t = 1..Len(t) /\ Len(s) \in Nat
      BY <2>2, <3>2, LenProperties
    <3>4. \A i \in DOMAIN t : (i \in DOMAIN s /\ t[i] = s[i]) \/ (i = Len(s) + 1 /\ t[i] = e)
      BY <3>2, <3>3
    <3>5. Sound(m + 1)
      <4>. SUFFICES ASSUME Holds(t, c) PROVE \E j \in 1..(m + 1) : q[j] = c OBVIOUS
      <4>1. PICK i \in DOMAIN t : t[i] = c BY DEF Holds
      <4>2. CASE i \in DOMAIN s /\ t[i] = s[i]
        <5>1. Holds(s, c) BY <4>1, <4>2 DEF Holds
        <5>. QED BY <2>1, <2>3, <5>1
      <4>3. CASE i = Len(s) + 1 /\ t[i] = e BY <2>1, <4>1, <4>3
      <4>. QED BY <3>4, <4>2, <4>3
    <3>6. Once(t, c)
      <4>1. CASE e = c
        <5>1. ~ Holds(s, c) BY <1>3, <2>1, <2>3, <4>1
        <5>2. \A i \in DOMAIN s : s[i] # c BY <5>1 DEF Holds
        <5>. QED BY <3>4, <5>2 DEF Once
      <4>2. CASE e # c BY <2>3, <3>4, <4>2 DEF Once
      <4>. QED BY <4>1, <4>2
    <3>. HIDE DEF s, t, e
    <3>. QED BY <2>1, <3>5, <3>6 DEF t
  <2>. QED BY <2>4, <2>5
<1>6. Once(w, c)
  <2>. HIDE DEF T
  <2>1. \A m \in 0..N : m \in T BY <1>0, <1>4, <1>5, Inductive
  <2>2. N \in T BY <1>0, <2>1
  <2>3. w = rest[N] BY <1>1 DEF Filters
  <2>. QED BY <2>2, <2>3 DEF T
<1>7. /\ w \in Seq(S)
      /\ \A i \in DOMAIN w : w[i] \notin C /\ \E j \in DOMAIN q : q[j] = w[i]
      /\ \A j \in DOMAIN q : q[j] \notin C => \E i \in DOMAIN w : w[i] = q[j]
  BY WithoutKeeps
<1>. HIDE DEF w
<1>8. Holds(w, c) <=> Holds(q, c) /\ c \notin C BY <1>7 DEF Holds
<1>9. Count(w, c) = IF Holds(w, c) THEN 1 ELSE 0 BY <1>6, <1>7, CountOf
<1>10. Count(q, c) = IF Holds(q, c) THEN 1 ELSE 0 BY <1>2, CountOf
<1>. QED BY <1>8, <1>9, <1>10 DEF w

-----------------------------------------------------------------------------
(* What follows.                                                              *)

LEMMA InvariantGives == LifecycleInv => ExecutionsAgree
<1>. SUFFICES ASSUME LifecycleInv PROVE ExecutionsAgree OBVIOUS
<1>1. TypeOK /\ ExecutionOwned /\ OutcomeOnce BY DEF LifecycleInv
<1>2. SessionOwned BY <1>1 DEF ExecutionOwned, SessionOwned, Begun
<1>3. OutcomeIsFinal
  <2>1. ASSUME Coordinating, NEW c \in Context
        PROVE  /\ Count(active, <<"Terminated", c>>) = IF c \in terminating THEN 1 ELSE 0
               /\ c \in terminating => session[c] = "NONE"
    <3>1. /\ Once(active, Ended(c)) /\ (Holds(active, Ended(c)) <=> c \in terminating)
          /\ c \in terminating => session[c] = "NONE"
      BY <1>1, <2>1 DEF OutcomeOnce
    <3>2. active \in Seq(Message) BY <1>1 DEF TypeOK
    <3>. QED BY <3>1, <3>2, CountOf DEF Ended
  <2>. QED BY <2>1 DEF OutcomeIsFinal
<1>. QED BY <1>1, <1>2, <1>3 DEF ExecutionsAgree

(* Every live session and every outcome belongs to an execution that this     *)
(* engine has started, and the coordinator hears of each outcome once.        *)
THEOREM ExecutionsAreHeardOf == Spec => []ExecutionsAgree
<1>. QED BY LifecycleInvariant, InvariantGives, PTL

-----------------------------------------------------------------------------
(* Stops are final, and those with authority are told last.                   *)

(* A context with authority is never with another engine.                     *)
AuthorityHere == \A c \in Authority : context[c].local

StopKept ==
    \A c \in Context :
        context[c].stop => context'[c].stop /\ context'[c].iteration = context[c].iteration

AuthorityWaits ==
    coordinator' = "STOPPING" /\ ~ Over(context', Context \ Authority) =>
        \A c \in Authority : context'[c].stop => context[c].stop

Steady == StopKept /\ AuthorityWaits /\ AuthorityHere'

LEMMA UnmovedIsSteady ==
    ASSUME AuthorityHere, context' = context PROVE Steady
BY DEF Steady, StopKept, AuthorityWaits, AuthorityHere

LEMMA SetIsSteady ==
    ASSUME TypeOK, AuthorityHere, NEW c \in Context, NEW r, SetContext(c, r),
           context[c].stop => r.stop /\ r.iteration = context[c].iteration,
           c \in Authority => r.local,
           c \in Authority /\ coordinator' = "STOPPING" /\ r.stop => context[c].stop
    PROVE  Steady
<1>1. context'[c] = r /\ \A d \in Context \ {c} : context'[d] = context[d]
  BY DEF TypeOK, SetContext
<1>2. Authority \subseteq Context BY ConstantsAssumption
<1>3. StopKept BY <1>1 DEF StopKept
<1>4. AuthorityWaits BY <1>1, <1>2 DEF AuthorityWaits
<1>5. AuthorityHere' BY <1>1, <1>2 DEF AuthorityHere
<1>. QED BY <1>3, <1>4, <1>5 DEF Steady

LEMMA StateIsSteady ==
    ASSUME TypeOK, AuthorityHere, NEW c \in Context, NEW s,
           SetContext(c, [context[c] EXCEPT !.state = s])
    PROVE  Steady
<1>. DEFINE r == [context[c] EXCEPT !.state = s]
<1>1. /\ r.stop = context[c].stop /\ r.local = context[c].local
      /\ r.iteration = context[c].iteration
  BY DEF TypeOK, ContextRecord
<1>2. SetContext(c, r) OBVIOUS
<1>. HIDE DEF r
<1>. QED BY <1>1, <1>2, SetIsSteady DEF AuthorityHere

LEMMA MovesAreSteady ==
    ASSUME TypeOK, AuthorityHere, NEW c \in Context, HandleOf(c)
    PROVE  Steady
<1>1. context[c] \in ContextRecord BY DEF TypeOK
<1>2. CASE HandleRegistered(c) \/ HandleAdmitted(c)
  <2>1. context' = context
    BY <1>2 DEF HandleRegistered, HandleAdmitted, Ignore, Register, AdmitContext, Fail, registryVars
  <2>. QED BY <2>1, UnmovedIsSteady
<1>3. CASE HandleStart(c)
  <2>1. CASE context' = context BY <2>1, UnmovedIsSteady
  <2>2. CASE SetContext(c, [context[c] EXCEPT !.state = "FINISHED"])
    BY <2>2, StateIsSteady
  <2>3. CASE /\ ~ context[c].stop
             /\ SetContext(c, [context[c] EXCEPT !.state = "RUNNING", !.iteration = @ + 1])
    <3>. DEFINE r == [context[c] EXCEPT !.state = "RUNNING", !.iteration = @ + 1]
    <3>1. r.stop = context[c].stop /\ r.local = context[c].local BY <1>1 DEF ContextRecord
    <3>2. SetContext(c, r) BY <2>3
    <3>. HIDE DEF r
    <3>. QED BY <2>3, <3>1, <3>2, SetIsSteady DEF AuthorityHere
  <2>. QED BY <1>3, <2>1, <2>2, <2>3 DEF HandleStart, Ignore, Fail, ConcludeAs, Conclude, registryVars
<1>4. CASE HandleAbort(c)
  <2>1. CASE context' = context BY <2>1, UnmovedIsSteady
  <2>2. ASSUME NEW s, SetContext(c, [context[c] EXCEPT !.state = s]) PROVE Steady
    BY <2>2, StateIsSteady
  <2>. QED BY <1>4, <2>1, <2>2 DEF HandleAbort, Ignore, ConcludeAs, Conclude, SetState, registryVars
<1>5. CASE HandlePause(c) \/ HandleResume(c)
  <2>1. CASE context' = context BY <2>1, UnmovedIsSteady
  <2>2. ASSUME NEW s, SetContext(c, [context[c] EXCEPT !.state = s]) PROVE Steady
    BY <2>2, StateIsSteady
  <2>. QED BY <1>5, <2>1, <2>2 DEF HandlePause, HandleResume, Ignore, Update, registryVars
<1>6. CASE HandleStop(c)
  <2>. DEFINE r == Stopped(c, context[c], pending)
  <2>1. CASE context' = context BY <2>1, UnmovedIsSteady
  <2>2. CASE SetContext(c, r) /\ UNCHANGED engineVars
    <3>1. r.stop = TRUE /\ r.local = context[c].local /\ r.iteration = context[c].iteration
      <4>. DEFINE before == context[c]
      <4>1. before \in ContextRecord BY <1>1
      <4>. HIDE DEF before
      <4>2. /\ Stopped(c, before, pending).stop = TRUE
            /\ Stopped(c, before, pending).local = before.local
            /\ Stopped(c, before, pending).iteration = before.iteration
        BY ONLY <4>1, StoppedKeeps
      <4>. QED BY <4>2 DEF before
    <3>2. coordinator # "STOPPING"
      BY <1>6 DEF HandleStop, Receive, AcceptedDuringShutdown
    <3>3. coordinator' # "STOPPING" BY <2>2, <3>2 DEF engineVars
    <3>. HIDE DEF r
    <3>. QED BY <2>2, <3>1, <3>3, SetIsSteady DEF AuthorityHere
  <2>. QED BY <1>6, <2>1, <2>2 DEF HandleStop, Ignore, Conclude, Update, registryVars
<1>7. CASE HandleTransferOut(c) \/ HandleTransferIn(c)
  <2>1. CASE context' = context BY <2>1, UnmovedIsSteady
  <2>2. ASSUME NEW here \in BOOLEAN, Transferable(c), SetContext(c, Reassigned(c, context[c], here)) PROVE Steady
    <3>. DEFINE r == Reassigned(c, context[c], here)
    <3>1. r.stop = context[c].stop /\ r.iteration = context[c].iteration
      BY KnownRecord, ReassignedIsRecord
    <3>2. c \notin Authority BY <2>2 DEF Transferable
    <3>3. SetContext(c, r) BY <2>2
    <3>. HIDE DEF r
    <3>. QED BY <3>1, <3>2, <3>3, SetIsSteady
  <2>. QED BY <1>7, <2>1, <2>2 DEF HandleTransferOut, HandleTransferIn, Ignore, registryVars
<1>8. CASE HandleSnapshot(c)
  <2>1. CASE ~ Registered(c) \/ context[c].local
    <3>1. context' = context BY <1>8, <2>1 DEF HandleSnapshot, Ignore, registryVars
    <3>. QED BY <3>1, UnmovedIsSteady
  <2>2. CASE ~ (~ Registered(c) \/ context[c].local)
    <3>1. PICK stop \in {s \in BOOLEAN : context[c].stop => s}, state \in {"RUNNING", "ABORTING"} :
            LET owner == [context[c] EXCEPT !.stop = stop] IN
            \/ SetContext(c, [owner EXCEPT !.state = state])
            \/ SetContext(c, [owner EXCEPT !.state = "FINISHED"])
            \/ SetContext(c, Reassigned(c, owner, TRUE))
      BY <1>8, <2>2 DEF HandleSnapshot, Update, Conclude
    <3>. DEFINE owner == [context[c] EXCEPT !.stop = stop]
                runs == [owner EXCEPT !.state = state]
                ends == [owner EXCEPT !.state = "FINISHED"]
                here == Reassigned(c, owner, TRUE)
    <3>2. owner \in ContextRecord /\ owner.stop = stop /\ owner.iteration = context[c].iteration
      BY <1>1, <3>1 DEF ContextRecord
    <3>3. SetContext(c, runs) \/ SetContext(c, ends) \/ SetContext(c, here) BY <3>1
    <3>. HIDE DEF owner
    <3>4. \A r \in {runs, ends, here} : r.stop = stop /\ r.iteration = context[c].iteration
      <4>1. here.stop = stop /\ here.iteration = context[c].iteration
        BY <3>2, ReassignedIsRecord
      <4>. HIDE DEF here
      <4>. QED BY <3>2, <4>1 DEF ContextRecord
    <3>5. c \notin Authority BY <2>2 DEF AuthorityHere
    <3>6. context[c].stop => stop BY <3>1
    <3>. HIDE DEF runs, ends, here
    <3>7. ASSUME NEW r, r \in {runs, ends, here}, SetContext(c, r) PROVE Steady
      <4>1. r.stop = stop /\ r.iteration = context[c].iteration BY <3>4, <3>7
      <4>. QED BY <3>5, <3>6, <3>7, <4>1, SetIsSteady
    <3>. QED BY <3>3, <3>7
  <2>. QED BY <2>1, <2>2
<1>9. CASE HandleRetrieve(c)
  <2>1. CASE context' = context BY <2>1, UnmovedIsSteady
  <2>2. ASSUME NEW s, SetContext(c, [context[c] EXCEPT !.state = s]) PROVE Steady
    BY <2>2, StateIsSteady
  <2>3. CASE CanReiterate(context[c]) /\ SetContext(c, NextIteration(context[c]))
    <3>. DEFINE r == NextIteration(context[c])
    <3>1. r.stop = context[c].stop /\ r.local = context[c].local /\ ~ context[c].stop
      BY <1>1, <2>3, NextIterationKeeps, CanReiterateMeans
    <3>2. SetContext(c, r) BY <2>3
    <3>. HIDE DEF r
    <3>. QED BY <3>1, <3>2, SetIsSteady DEF AuthorityHere
  <2>4. CASE \E s : CollectLast(c, s) BY <2>2, <2>4 DEF CollectLast, SetState
  <2>5. CASE CollectWaiting(c) BY <2>2, <2>5 DEF CollectWaiting, SetState
  <2>6. CASE CollectIteration(c) BY <2>1, <2>3, <2>6 DEF CollectIteration
  <2>7. CASE Ignore \/ Fail \/ CollectStep(c) \/ CollectRetry(c)
    BY <2>1, <2>7 DEF Ignore, Fail, CollectStep, CollectRetry, registryVars
  <2>. QED BY <1>9, <2>4, <2>5, <2>6, <2>7 DEF HandleRetrieve
<1>10. CASE HandleTerminated(c)
  <2>1. CASE context' = context BY <2>1, UnmovedIsSteady
  <2>2. ASSUME NEW s, SetContext(c, [context[c] EXCEPT !.state = s]) PROVE Steady
    BY <2>2, StateIsSteady
  <2>. QED BY <1>10, <2>1, <2>2 DEF HandleTerminated, Fail, ConcludeAs, Conclude, registryVars
<1>. QED BY <1>2, <1>3, <1>4, <1>5, <1>6, <1>7, <1>8, <1>9, <1>10 DEF HandleOf

(* A registry that a shutdown or a reconciliation has been through: nobody is  *)
(* told to stop who was not told by `WithAuthority` or is not ordinary.       *)
LEMMA AppliedIsSteady ==
    ASSUME TypeOK, AuthorityHere, NEW requests, NEW first \in [Context -> ContextRecord],
           \A d \in Context :
              /\ context[d].stop => first[d].stop /\ first[d].iteration = context[d].iteration
              /\ context[d].local => first[d].local
              /\ d \in Authority => first[d].stop = context[d].stop,
           context' = WithAuthority(first, requests)
    PROVE  Steady
<1>. DEFINE told == Over(first, Context \ Authority)
<1>1. Authority \subseteq Context BY ConstantsAssumption
<1>2. \A d \in Context : context'[d] = IF d \in Authority /\ told THEN Shut(d, first[d], FALSE, requests)
                                       ELSE first[d]
  BY DEF WithAuthority
<1>. HIDE DEF told
<1>3. \A d \in Context :
        /\ Shut(d, first[d], FALSE, requests).iteration = first[d].iteration
        /\ first[d].stop => Shut(d, first[d], FALSE, requests).stop
        /\ first[d].local => Shut(d, first[d], FALSE, requests).local
  <2>1. ASSUME NEW d \in Context
        PROVE  /\ Shut(d, first[d], FALSE, requests).iteration = first[d].iteration
               /\ first[d].stop => Shut(d, first[d], FALSE, requests).stop
               /\ first[d].local => Shut(d, first[d], FALSE, requests).local
    <3>. DEFINE r == first[d]
    <3>1. r \in ContextRecord /\ FALSE \in BOOLEAN OBVIOUS
    <3>. HIDE DEF r
    <3>2. /\ Shut(d, r, FALSE, requests).iteration = r.iteration
          /\ r.stop => Shut(d, r, FALSE, requests).stop
          /\ r.local => Shut(d, r, FALSE, requests).local
      BY ONLY <3>1, ShutGently
    <3>. QED BY <3>2 DEF r
  <2>. QED BY <2>1
<1>4. StopKept BY <1>2, <1>3 DEF StopKept
<1>5. AuthorityHere' BY <1>1, <1>2, <1>3 DEF AuthorityHere
<1>6. told => Over(context', Context \ Authority) BY <1>2 DEF Over, told
<1>7. AuthorityWaits BY <1>1, <1>2, <1>6 DEF AuthorityWaits
<1>. QED BY <1>4, <1>5, <1>7 DEF Steady

LEMMA ShutdownIsSteady ==
    ASSUME TypeOK, AuthorityHere, HandleShutdown PROVE Steady
<1>. DEFINE first == [c \in Context |-> IF c \in Authority THEN context[c]
                                        ELSE Shut(c, context[c], FALSE, pending)]
<1>1. context' = WithAuthority(first, pending) BY DEF HandleShutdown, Apply
<1>2. ASSUME NEW d \in Context
      PROVE  /\ first[d] \in ContextRecord
             /\ context[d].stop => first[d].stop /\ first[d].iteration = context[d].iteration
             /\ context[d].local => first[d].local
             /\ d \in Authority => first[d].stop = context[d].stop
  <2>. DEFINE r == context[d]
              new == Shut(d, r, FALSE, pending)
  <2>1. r \in ContextRecord /\ FALSE \in BOOLEAN BY DEF TypeOK
  <2>2. first[d] = IF d \in Authority THEN r ELSE new OBVIOUS
  <2>. HIDE DEF r, new, first
  <2>3. /\ new \in ContextRecord /\ new.iteration = r.iteration
        /\ r.stop => new.stop
        /\ r.local => new.local
    BY ONLY <2>1, ShutGently DEF new
  <2>4. first[d] = r \/ (first[d] = new /\ d \notin Authority) BY <2>2
  <2>. QED BY <2>1, <2>3, <2>4 DEF r
<1>3. first \in [Context -> ContextRecord] BY <1>2
<1>. HIDE DEF first
<1>. QED BY <1>1, <1>2, <1>3, AppliedIsSteady

(* A forced shutdown tells nobody to stop: it aborts.                         *)
LEMMA ForcedShutdownIsSteady ==
    ASSUME TypeOK, AuthorityHere, HandleForcedShutdown PROVE Steady
<1>1. \A d \in Context : context'[d] = Shut(d, context[d], TRUE, pending)
  BY DEF HandleForcedShutdown, Apply
<1>2. ASSUME NEW d \in Context
      PROVE  /\ Shut(d, context[d], TRUE, pending).stop = context[d].stop
             /\ Shut(d, context[d], TRUE, pending).iteration = context[d].iteration
             /\ context[d].local => Shut(d, context[d], TRUE, pending).local
  <2>. DEFINE r == context[d]
              s == IF r.local /\ r.state \notin Waiting THEN "ABORTING" ELSE "ABORTED"
  <2>1. r \in ContextRecord BY DEF TypeOK
  <2>2. Shut(d, r, TRUE, pending) = r \/ Shut(d, r, TRUE, pending) = [r EXCEPT !.local = TRUE, !.state = s]
    BY <2>1 DEF Shut, ContextRecord
  <2>. HIDE DEF s, r
  <2>3. /\ Shut(d, r, TRUE, pending).stop = r.stop /\ Shut(d, r, TRUE, pending).iteration = r.iteration
        /\ r.local => Shut(d, r, TRUE, pending).local
    BY <2>1, <2>2 DEF ContextRecord
  <2>. QED BY <2>3 DEF r
<1>3. Authority \subseteq Context BY ConstantsAssumption
<1>4. StopKept BY <1>1, <1>2 DEF StopKept
<1>5. AuthorityHere' BY <1>1, <1>2, <1>3 DEF AuthorityHere
<1>6. AuthorityWaits BY <1>1, <1>2, <1>3 DEF AuthorityWaits
<1>. QED BY <1>4, <1>5, <1>6 DEF Steady

LEMMA ReconcileIsSteady ==
    ASSUME TypeOK, AuthorityHere, NEW P, Reconcile(P) PROVE Steady
<1>. DEFINE records == SettledContexts(P)
            again == {c \in Finishing(records, SettledSessions(P)) : CanReiterate(records[c])}
            started == [c \in Context |-> IF c \in again THEN NextIteration(records[c])
                                          ELSE records[c]]
<1>1. IF coordinator = "RUNNING"
      THEN context' = started /\ UNCHANGED coordinator
      ELSE context' = WithAuthority(started, pending \ P)
  BY DEF Reconcile, Apply
<1>2. /\ records \in [Context -> ContextRecord]
      /\ \A d \in Context : /\ records[d].local = context[d].local
                            /\ records[d].stop = context[d].stop
                            /\ records[d].iteration = context[d].iteration
  BY SettledKeeps
<1>. HIDE DEF records
<1>3. ASSUME NEW d \in Context
      PROVE  /\ started[d] \in ContextRecord
             /\ context[d].stop => started[d].stop /\ started[d].iteration = context[d].iteration
             /\ context[d].local => started[d].local
             /\ started[d].stop = context[d].stop
  <2>1. records[d] \in ContextRecord BY <1>2
  <2>2. CASE d \in again
    <3>1. started[d] = NextIteration(records[d]) /\ CanReiterate(records[d]) BY <2>2
    <3>2. ~ records[d].stop BY <3>1, CanReiterateMeans
    <3>. HIDE DEF started
    <3>. QED BY <1>2, <2>1, <3>1, <3>2, NextIterationKeeps
  <2>3. CASE d \notin again
    <3>1. started[d] = records[d] BY <2>3
    <3>. HIDE DEF started
    <3>. QED BY <1>2, <2>1, <3>1
  <2>. QED BY <2>2, <2>3
<1>4. started \in [Context -> ContextRecord] BY <1>3
<1>. HIDE DEF started
<1>5. CASE coordinator = "RUNNING"
  <2>1. context' = started /\ coordinator' # "STOPPING" BY <1>1, <1>5
  <2>2. Authority \subseteq Context BY ConstantsAssumption
  <2>3. StopKept BY <1>3, <2>1 DEF StopKept
  <2>4. AuthorityHere' BY <1>3, <2>1, <2>2 DEF AuthorityHere
  <2>5. AuthorityWaits BY <2>1 DEF AuthorityWaits
  <2>. QED BY <2>3, <2>4, <2>5 DEF Steady
<1>6. CASE coordinator # "RUNNING" BY <1>1, <1>3, <1>4, <1>6, AppliedIsSteady
<1>. QED BY <1>5, <1>6

LEMMA EmergencyIsSteady ==
    ASSUME TypeOK, AuthorityHere, Emergency PROVE Steady
<1>1. ASSUME NEW c \in Context, NEW s, SetContext(c, [context[c] EXCEPT !.state = s])
      PROVE  Steady
  BY <1>1, StateIsSteady
<1>2. ASSUME NEW c \in Context, EmergencyAbort(c) PROVE Steady
  BY <1>1, <1>2 DEF EmergencyAbort, SetState
<1>3. ASSUME NEW c \in Context, EmergencyConclude(c) PROVE Steady
  <2>. DEFINE r == [context[c] EXCEPT !.state = "ABORTED"]
  <2>1. context' = [context EXCEPT ![c] = r] BY <1>3 DEF EmergencyConclude
  <2>2. /\ r.stop = context[c].stop /\ r.local = context[c].local
        /\ r.iteration = context[c].iteration
    BY DEF TypeOK, ContextRecord
  <2>. HIDE DEF r
  <2>3. context'[c] = r /\ \A d \in Context \ {c} : context'[d] = context[d]
    BY <2>1 DEF TypeOK
  <2>4. Authority \subseteq Context BY ConstantsAssumption
  <2>5. StopKept BY <2>2, <2>3 DEF StopKept
  <2>6. AuthorityHere' BY <2>2, <2>3, <2>4 DEF AuthorityHere
  <2>7. AuthorityWaits BY <2>2, <2>3, <2>4 DEF AuthorityWaits
  <2>. QED BY <2>5, <2>6, <2>7 DEF Steady
<1>4. ASSUME NEW c \in Context, EmergencyReclaim(c) PROVE Steady
  <2>1. PICK raises \in BOOLEAN : SetContext(c, Reclaimed(c, raises)) /\ ~ context[c].local
    BY <1>4 DEF EmergencyReclaim, Reclaimed
  <2>. DEFINE r == Reclaimed(c, raises)
  <2>2. r.stop = context[c].stop /\ r.iteration = context[c].iteration
    BY KnownRecord, ReassignedIsRecord DEF Reclaimed
  <2>3. c \notin Authority BY <2>1 DEF AuthorityHere
  <2>4. SetContext(c, r) BY <2>1
  <2>. HIDE DEF r
  <2>. QED BY <2>2, <2>3, <2>4, SetIsSteady
<1>5. CASE EmergencyReady
  <2>1. context' = context BY <1>5 DEF EmergencyReady, registryVars
  <2>. QED BY <2>1, UnmovedIsSteady
<1>6. CASE Recover
  <2>. DEFINE recovered == {c \in executing : context[c].state \in Draining \cup Terminal}
              new(c) == IF c \in recovered /\ Registered(c)
                        THEN [context[c] EXCEPT !.state = Outcome(c)] ELSE context[c]
  <2>1. \A c \in Context : context'[c] = new(c) BY <1>6 DEF Recover
  <2>2. \A c \in Context : /\ new(c).stop = context[c].stop /\ new(c).local = context[c].local
                           /\ new(c).iteration = context[c].iteration
    BY DEF TypeOK, ContextRecord
  <2>. HIDE DEF new
  <2>3. Authority \subseteq Context BY ConstantsAssumption
  <2>4. StopKept BY <2>1, <2>2 DEF StopKept
  <2>5. AuthorityHere' BY <2>1, <2>2, <2>3 DEF AuthorityHere
  <2>6. AuthorityWaits BY <2>1, <2>2, <2>3 DEF AuthorityWaits
  <2>. QED BY <2>4, <2>5, <2>6 DEF Steady
<1>. QED BY <1>2, <1>3, <1>4, <1>5, <1>6 DEF Emergency

LEMMA StepsAreSteady ==
    ASSUME TypeOK, AuthorityHere, [Next]_vars PROVE Steady
<1>0. CASE context' = context BY <1>0, UnmovedIsSteady
<1>1. CASE User
  <2>1. ASSUME NEW c \in Context, Submit(c) PROVE Steady
    BY <1>0, <2>1, StateIsSteady DEF Submit, SetState
  <2>2. ASSUME NEW c \in Context, ReceiveSnapshot(c) PROVE Steady
    BY <1>0, <2>2 DEF ReceiveSnapshot, Give, Enqueue, registryVars
  <2>3. ASSUME NEW c \in Context, NEW type \in plan.commands, GiveCommand(type, c) PROVE Steady
    BY <1>0, <2>3 DEF GiveCommand, Give, Enqueue, registryVars
  <2>4. ASSUME NEW kind \in plan.shutdowns, RequestShutdown(kind) PROVE Steady
    BY <1>0, <2>4 DEF RequestShutdown, Enqueue, registryVars
  <2>. QED BY <1>1, <2>1, <2>2, <2>3, <2>4 DEF User
<1>2. CASE Handle
  <2>1. CASE HandleReconcile \/ Drop
    BY <1>0, <2>1 DEF HandleReconcile, Drop, registryVars
  <2>. QED BY <1>2, <2>1, MovesAreSteady, ShutdownIsSteady, ForcedShutdownIsSteady DEF Handle
<1>3. CASE ReconcileSome BY <1>3, ReconcileIsSteady DEF ReconcileSome
<1>4. CASE Emergency BY <1>4, EmergencyIsSteady
<1>5. CASE ForcedTimeout \/ ReconcileTimer \/ NotifyRelease
  BY <1>0, <1>5 DEF ForcedTimeout, ReconcileTimer, NotifyRelease, Enqueue, registryVars
<1>6. ASSUME NEW c \in Context, Report(c) PROVE Steady
  BY <1>0, <1>6 DEF Report, Enqueue, registryVars
<1>7. CASE Closed \/ UNCHANGED vars
  BY <1>0, <1>7 DEF Closed, vars, registryVars
<1>. QED BY <1>1, <1>2, <1>3, <1>4, <1>5, <1>6, <1>7 DEF Next

(* A context with authority is never with another engine.                     *)
LEMMA AuthorityStays == Spec => [](TypeOK /\ AuthorityHere)
<1>1. Spec => []TypeOK
  <2>1. LifecycleInv => TypeOK BY DEF LifecycleInv
  <2>. QED BY <2>1, LifecycleInvariant, PTL
<1>2. Init => AuthorityHere BY ConstantsAssumption DEF Init, AuthorityHere
<1>3. TypeOK /\ AuthorityHere /\ [Next]_vars => AuthorityHere'
  BY StepsAreSteady DEF Steady
<1>. QED BY <1>1, <1>2, <1>3, PTL DEF Spec

(* A stop that was accepted is not taken back, and no iteration starts after  *)
(* it: not by a resumption, a retry, a transfer or the end of a pause.        *)
THEOREM StopIsFinal == Spec => StopFinal
<1>1. TypeOK /\ AuthorityHere /\ [Next]_vars =>
        [\A c \in Context :
            context[c].stop => context'[c].stop /\ context'[c].iteration = context[c].iteration]_vars
  BY StepsAreSteady DEF Steady, StopKept
<1>. QED BY <1>1, AuthorityStays, PTL DEF Spec, StopFinal

(* While the engine stops gracefully nobody with authority is told to stop    *)
(* before the last ordinary context is finalized, wherever that one runs.     *)
THEOREM AuthorityGoesLast == Spec => AuthorityLast
<1>1. TypeOK /\ AuthorityHere /\ [Next]_vars =>
        [coordinator' = "STOPPING" /\ shutdown' = "GRACEFUL"
           /\ ~Over(context', Context \ Authority) =>
              \A c \in Authority : context'[c].stop => context[c].stop]_vars
  BY StepsAreSteady DEF Steady, AuthorityWaits
<1>. QED BY <1>1, AuthorityStays, PTL DEF Spec, AuthorityLast

-----------------------------------------------------------------------------
(* What remembers that a context is still to be started: messages about its   *)
(* way, and its place in the scheduler's queue.                               *)

Arrived(c) == <<"Registered", c>>
Let(c) == <<"Admitted", c>>
Begin(c) == <<"Start", c>>
WayMessages(c) == {Arrived(c), Let(c), Begin(c)}

Underway(c) ==
    Count(submissions, Arrived(c))
        + Count(active, Arrived(c)) + Count(active, Let(c)) + Count(active, Begin(c))

Brings(sent, c) == Count(sent, Arrived(c)) + Count(sent, Let(c)) + Count(sent, Begin(c))

(* Whether the message in hand is one of them.                                *)
Hand(c) == IF NextMessage \in WayMessages(c) THEN 1 ELSE 0

LEMMA TokensAre ==
    ASSUME TypeOK, NEW c
    PROVE  /\ StartTokens(c) = Underway(c) + Count(queued, c)
           /\ Underway(c) \in Nat /\ Count(queued, c) \in Nat
<1>1. active \in Seq(Message) /\ submissions \in Seq(Message) /\ queued \in Seq(Context) BY DEF TypeOK
<1>2. Count(queued, c) \in Nat /\ \A m : Count(active, m) \in Nat /\ Count(submissions, m) \in Nat
  BY <1>1, CountIs
<1>3. StartTokens(c) = Count(submissions, Arrived(c)) + Count(active, Arrived(c))
                          + Count(queued, c) + Count(active, Let(c)) + Count(active, Begin(c))
  BY DEF StartTokens, Arrived, Let, Begin
<1>. QED BY <1>2, <1>3 DEF Underway

LEMMA TokensBecome ==
    ASSUME TypeOK', NEW c
    PROVE  /\ StartTokens(c)' = Underway(c)' + Count(queued', c)
           /\ Underway(c)' \in Nat /\ Count(queued', c) \in Nat
<1>1. active' \in Seq(Message) /\ submissions' \in Seq(Message) /\ queued' \in Seq(Context)
  BY DEF TypeOK
<1>2. Count(queued', c) \in Nat /\ \A m : Count(active', m) \in Nat /\ Count(submissions', m) \in Nat
  BY <1>1, CountIs
<1>3. StartTokens(c)' = Count(submissions', Arrived(c)) + Count(active', Arrived(c))
                          + Count(queued', c) + Count(active', Let(c)) + Count(active', Begin(c))
  BY DEF StartTokens, Arrived, Let, Begin, Count
<1>4. Underway(c)' = Count(submissions', Arrived(c))
          + Count(active', Arrived(c)) + Count(active', Let(c)) + Count(active', Begin(c))
  BY DEF Underway, Arrived, Let, Begin, Count
<1>. QED BY <1>2, <1>3, <1>4

LEMMA BringsIs ==
    ASSUME NEW sent \in Seq(Message), NEW c
    PROVE  /\ Brings(sent, c) \in Nat
           /\ Count(sent, Arrived(c)) \in Nat /\ Count(sent, Let(c)) \in Nat
           /\ Count(sent, Begin(c)) \in Nat
           /\ (\A m \in WayMessages(c) : ~ Holds(sent, m)) => Brings(sent, c) = 0
<1>1. \A m : Count(sent, m) \in Nat /\ (Count(sent, m) = 0 <=> ~ Holds(sent, m)) BY CountIs
<1>. QED BY <1>1 DEF Brings, WayMessages

LEMMA WayMessagesDiffer ==
    \A c : Arrived(c) # Let(c) /\ Arrived(c) # Begin(c) /\ Let(c) # Begin(c)
BY DEF Arrived, Let, Begin

(* Messages about its way come and go one at a time.                          *)
LEMMA UnderwayAfter ==
    ASSUME TypeOK, Registrations, HasMessage, NEW c,
           NEW sent \in Seq(Message), NEW more \in Seq(RegisteredMessage), Consume(sent, more),
           Underway(c) <= 1,
           Underway(c) - Hand(c) + Brings(sent, c) + Count(more, Arrived(c)) <= 1
    PROVE  Underway(c)' = Underway(c) - Hand(c) + Brings(sent, c) + Count(more, Arrived(c))
<1>1. active \in Seq(Message) /\ submissions \in Seq(RegisteredMessage)
  BY DEF TypeOK, Registrations
<1>2. /\ \A m : Count(active, m) \in Nat /\ Count(submissions, m) \in Nat
      /\ \A m : Count(sent, m) \in Nat /\ Count(more, m) \in Nat
  BY <1>1, CountIs
<1>. DEFINE s0 == Count(submissions, Arrived(c))
            a0 == Count(active, Arrived(c))
            a1 == Count(active, Let(c))
            a2 == Count(active, Begin(c))
            t0 == Count(sent, Arrived(c))
            t1 == Count(sent, Let(c))
            t2 == Count(sent, Begin(c))
            n0 == Count(more, Arrived(c))
<1>6. s0 \in Nat /\ a0 \in Nat /\ a1 \in Nat /\ a2 \in Nat /\ t0 \in Nat /\ t1 \in Nat
        /\ t2 \in Nat /\ n0 \in Nat
  BY <1>2
<1>7. Underway(c) = s0 + a0 + a1 + a2 /\ Brings(sent, c) = t0 + t1 + t2 BY DEF Underway, Brings
<1>8. s0 + a0 + a1 + a2 <= 1 /\ (s0 + a0 + a1 + a2) - Hand(c) + (t0 + t1 + t2) + n0 <= 1
  BY <1>7
<1>3. /\ Count(submissions, Arrived(c)) <= 1 /\ Count(active, Arrived(c)) <= 1
      /\ Count(active, Let(c)) <= 1 /\ Count(active, Begin(c)) <= 1
  BY <1>2 DEF Underway
<1>4. CASE FromActive
  <2>. DEFINE rest == Tail(active)
              h == Head(active)
              gone(m) == IF h = m THEN 1 ELSE 0
  <2>1. /\ active # << >> /\ NextMessage = h
        /\ active' = rest \o sent /\ submissions' = submissions \o more
    BY <1>4 DEF FromActive, NextMessage, Consume
  <2>2. rest \in Seq(Message) BY <1>1, <2>1, TailHolds
  <2>3. /\ Count(rest, Arrived(c)) = Count(active, Arrived(c)) - gone(Arrived(c))
        /\ Count(rest, Let(c)) = Count(active, Let(c)) - gone(Let(c))
        /\ Count(rest, Begin(c)) = Count(active, Begin(c)) - gone(Begin(c))
    BY <1>1, <1>3, <2>1, TailCounts
  <2>4. Hand(c) = gone(Arrived(c)) + gone(Let(c)) + gone(Begin(c))
    BY <2>1, WayMessagesDiffer DEF Hand, WayMessages
  <2>5. \A m : gone(m) \in {0, 1} OBVIOUS
  <2>. HIDE DEF rest, gone, h
  <2>6. \A m : Count(rest, m) \in Nat BY <2>2, CountIs
  <2>. DEFINE r0 == Count(rest, Arrived(c))
              r1 == Count(rest, Let(c))
              r2 == Count(rest, Begin(c))
              g0 == gone(Arrived(c))
              g1 == gone(Let(c))
              g2 == gone(Begin(c))
  <2>11. /\ r0 \in Nat /\ r1 \in Nat /\ r2 \in Nat
         /\ g0 \in {0, 1} /\ g1 \in {0, 1} /\ g2 \in {0, 1}
         /\ r0 = a0 - g0 /\ r1 = a1 - g1 /\ r2 = a2 - g2 /\ Hand(c) = g0 + g1 + g2
    BY <2>3, <2>4, <2>5, <2>6
  <2>12. r0 + t0 <= 1 /\ r1 + t1 <= 1 /\ r2 + t2 <= 1 /\ s0 + n0 <= 1
    <3>. HIDE DEF s0, a0, a1, a2, t0, t1, t2, n0, r0, r1, r2, g0, g1, g2
    <3>. QED BY <1>6, <1>8, <2>11
  <2>7. /\ Count(rest, Arrived(c)) + Count(sent, Arrived(c)) <= 1
        /\ Count(rest, Let(c)) + Count(sent, Let(c)) <= 1
        /\ Count(rest, Begin(c)) + Count(sent, Begin(c)) <= 1
        /\ Count(submissions, Arrived(c)) + Count(more, Arrived(c)) <= 1
    BY <2>12
  <2>8. /\ Count(rest \o sent, Arrived(c)) = Count(rest, Arrived(c)) + Count(sent, Arrived(c))
        /\ Count(rest \o sent, Let(c)) = Count(rest, Let(c)) + Count(sent, Let(c))
        /\ Count(rest \o sent, Begin(c)) = Count(rest, Begin(c)) + Count(sent, Begin(c))
    BY <2>2, <2>7, ConcatCounts
  <2>9. Count(submissions \o more, Arrived(c)) = Count(submissions, Arrived(c)) + Count(more, Arrived(c))
    BY <1>1, <2>7, ConcatCounts
  <2>10. Underway(c)' = Count(submissions \o more, Arrived(c)) + Count(rest \o sent, Arrived(c))
                          + Count(rest \o sent, Let(c)) + Count(rest \o sent, Begin(c))
    BY <2>1 DEF Underway, Arrived, Let, Begin, Count
  <2>13. Underway(c)' = (s0 + n0) + (r0 + t0) + (r1 + t1) + (r2 + t2) BY <2>8, <2>9, <2>10
  <2>. HIDE DEF s0, a0, a1, a2, t0, t1, t2, n0, r0, r1, r2, g0, g1, g2
  <2>14. (s0 + n0) + (r0 + t0) + (r1 + t1) + (r2 + t2)
            = (s0 + a0 + a1 + a2) - Hand(c) + (t0 + t1 + t2) + n0
    BY <1>6, <2>11
  <2>. QED BY <1>7, <2>13, <2>14 DEF n0
<1>5. CASE ~ FromActive
  <2>. DEFINE rest == Tail(submissions)
              h == Head(submissions)
  <2>1. /\ submissions # << >> /\ NextMessage = h
        /\ active' = active \o sent /\ submissions' = rest \o more
    BY <1>5 DEF FromActive, NextMessage, Consume, HasMessage
  <2>2. rest \in Seq(RegisteredMessage) /\ h \in RegisteredMessage BY <1>1, <2>1, TailHolds
  <2>3. Count(rest, Arrived(c)) = Count(submissions, Arrived(c)) - (IF h = Arrived(c) THEN 1 ELSE 0)
    BY <1>1, <1>3, <2>1, TailCounts
  <2>4. Hand(c) = IF h = Arrived(c) THEN 1 ELSE 0
    <3>1. h # Let(c) /\ h # Begin(c) BY <2>2 DEF RegisteredMessage, Let, Begin
    <3>. QED BY <2>1, <3>1 DEF Hand, WayMessages
  <2>. HIDE DEF rest, h
  <2>5. Hand(c) \in {0, 1} BY DEF Hand
  <2>6. Count(rest, Arrived(c)) \in Nat BY <2>2, CountIs
  <2>. DEFINE r0 == Count(rest, Arrived(c))
  <2>11. r0 \in Nat /\ Hand(c) \in {0, 1} /\ r0 = s0 - Hand(c)
    BY <2>3, <2>4, <2>5, <2>6
  <2>12. a0 + t0 <= 1 /\ a1 + t1 <= 1 /\ a2 + t2 <= 1 /\ r0 + n0 <= 1
    <3>. HIDE DEF s0, a0, a1, a2, t0, t1, t2, n0, r0
    <3>. QED BY <1>6, <1>8, <2>11
  <2>7. /\ Count(active, Arrived(c)) + Count(sent, Arrived(c)) <= 1
        /\ Count(active, Let(c)) + Count(sent, Let(c)) <= 1
        /\ Count(active, Begin(c)) + Count(sent, Begin(c)) <= 1
        /\ Count(rest, Arrived(c)) + Count(more, Arrived(c)) <= 1
    BY <2>12
  <2>8. /\ Count(active \o sent, Arrived(c)) = Count(active, Arrived(c)) + Count(sent, Arrived(c))
        /\ Count(active \o sent, Let(c)) = Count(active, Let(c)) + Count(sent, Let(c))
        /\ Count(active \o sent, Begin(c)) = Count(active, Begin(c)) + Count(sent, Begin(c))
    BY <1>1, <2>7, ConcatCounts
  <2>9. Count(rest \o more, Arrived(c)) = Count(rest, Arrived(c)) + Count(more, Arrived(c))
    BY <2>2, <2>7, ConcatCounts
  <2>10. Underway(c)' = Count(rest \o more, Arrived(c)) + Count(active \o sent, Arrived(c))
                          + Count(active \o sent, Let(c)) + Count(active \o sent, Begin(c))
    BY <2>1 DEF Underway, Arrived, Let, Begin, Count
  <2>13. Underway(c)' = (r0 + n0) + (a0 + t0) + (a1 + t1) + (a2 + t2) BY <2>8, <2>9, <2>10
  <2>. HIDE DEF s0, a0, a1, a2, t0, t1, t2, n0, r0
  <2>14. (r0 + n0) + (a0 + t0) + (a1 + t1) + (a2 + t2)
            = (s0 + a0 + a1 + a2) - Hand(c) + (t0 + t1 + t2) + n0
    <3>1. Hand(c) = s0 - r0 BY <1>6, <2>11
    <3>. QED BY <1>6, <2>11, <3>1
  <2>. QED BY <1>7, <2>13, <2>14 DEF n0
<1>. QED BY <1>4, <1>5

-----------------------------------------------------------------------------
(* The scheduler admits what its queue holds.                                 *)

LEMMA ContainsIsHolds ==
    ASSUME NEW q \in Seq(Context), NEW c PROVE Contains(q, c) <=> Holds(q, c)
<1>1. DOMAIN q = 1..Len(q) BY LenProperties
<1>. QED BY <1>1 DEF Contains, Holds

(* The first n of a queue are let in.                                         *)
Rest(q, n) == SubSeq(q, n + 1, Len(q))
LetIn(q, n) == [i \in 1..n |-> Let(q[i])]
Among(q, n, c) == \E i \in 1..n : q[i] = c
Behind(q, n, c) == \E i \in (n + 1)..Len(q) : q[i] = c

Takes(q, adm, a, n) ==
    /\ n \in 0..Len(q)
    /\ a.queued = Rest(q, n)
    /\ \A c : c \in a.admitted <=> c \in adm \/ Among(q, n, c)
    /\ a.sent = LetIn(q, n)

LEMMA AdmissionIs ==
    ASSUME NEW q \in Seq(Context), NEW adm \in SUBSET Context, NEW contexts, NEW requests,
           NEW pressured
    PROVE  \E n : Takes(q, adm, Admission(q, adm, contexts, requests, pressured), n)
<1>. DEFINE slots == Slots(adm, contexts)
            n == IF pressured \/ requests # {} THEN 0
                 ELSE IF slots < Len(q) THEN slots ELSE Len(q)
            a == Admission(q, adm, contexts, requests, pressured)
<1>1. slots \in Nat /\ Len(q) \in Nat BY SlotsAreCounted
<1>. HIDE DEF slots
<1>2. n \in 0..Len(q) BY <1>1
<1>3. a = [queued |-> SubSeq(q, n + 1, Len(q)), admitted |-> adm \cup {q[i] : i \in 1..n},
           sent |-> [i \in 1..n |-> <<"Admitted", q[i]>>], watch |-> n < Len(q)]
  BY DEF Admission, slots
<1>. HIDE DEF n, a
<1>4. a.queued = Rest(q, n) BY <1>3 DEF Rest
<1>5. a.sent = LetIn(q, n) BY <1>3 DEF LetIn, Let
<1>6. \A c : c \in a.admitted <=> c \in adm \/ Among(q, n, c) BY <1>3 DEF Among
<1>7. Takes(q, adm, a, n) BY <1>2, <1>4, <1>5, <1>6 DEF Takes
<1>. QED BY <1>7 DEF a

(* What is admitted has waited, and what waits still waited before.           *)
LEMMA AdmissionTakes ==
    ASSUME NEW q \in Seq(Context), NEW n \in 0..Len(q), NEW c
    PROVE  /\ Rest(q, n) \in Seq(Context)
           /\ Holds(Rest(q, n), c) <=> Behind(q, n, c)
           /\ Once(q, c) => Once(Rest(q, n), c)
           /\ LetIn(q, n) \in Seq(Message)
           /\ Holds(LetIn(q, n), Let(c)) <=> Among(q, n, c)
           /\ Once(q, c) => Once(LetIn(q, n), Let(c))
           /\ \A m : m[1] # "Admitted" => ~ Holds(LetIn(q, n), m)
           /\ Holds(q, c) <=> Behind(q, n, c) \/ Among(q, n, c)
           /\ Once(q, c) => ~ (Behind(q, n, c) /\ Among(q, n, c))
<1>. DEFINE N == Len(q)
            w == SubSeq(q, n + 1, N)
            sent == [i \in 1..n |-> Let(q[i])]
<1>1. DOMAIN q = 1..N /\ N \in Nat /\ n \in Nat /\ n <= N BY LenProperties
<1>2. \A i \in 1..N : q[i] \in Context BY <1>1, ElementOfSeq
<1>3. /\ w \in Seq(Context) /\ Len(w) = N - n
      /\ \A i \in 1..(N - n) : w[i] = q[n + i]
  <2>1. n + 1 \in Int /\ N \in Int /\ \A i \in (n + 1)..N : q[i] \in Context BY <1>1, <1>2
  <2>2. /\ SubSeq(q, n + 1, N) \in Seq(Context)
        /\ Len(SubSeq(q, n + 1, N)) = IF n + 1 <= N THEN N - (n + 1) + 1 ELSE 0
        /\ \A i \in 1..(N - (n + 1) + 1) : SubSeq(q, n + 1, N)[i] = q[(n + 1) + i - 1]
    BY <2>1, SubSeqProperties
  <2>. HIDE DEF N, w
  <2>3. N - (n + 1) + 1 = N - n /\ (IF n + 1 <= N THEN N - (n + 1) + 1 ELSE 0) = N - n BY <1>1
  <2>4. \A i \in 1..(N - n) : (n + 1) + i - 1 = n + i BY <1>1
  <2>. QED BY <2>2, <2>3, <2>4 DEF w
<1>4. DOMAIN w = 1..(N - n) BY <1>3, LenProperties
<1>5. DOMAIN sent = 1..n /\ \A i \in 1..n : sent[i] = Let(q[i]) OBVIOUS
<1>6. sent \in Seq(Message)
  <2>1. \A i \in 1..n : i \in 1..N BY <1>1
  <2>2. \A i \in 1..n : Let(q[i]) \in Message
    BY <1>2, <2>1 DEF Let, Message, MessageType, AcceptedDuringShutdown
  <2>. QED BY <1>1, <2>2
<1>. HIDE DEF N, w, sent
<1>7. Holds(w, c) <=> \E i \in (n + 1)..N : q[i] = c
  <2>1. ASSUME NEW i \in (n + 1)..N PROVE i - n \in DOMAIN w /\ w[i - n] = q[i]
    <3>1. i - n \in 1..(N - n) /\ n + (i - n) = i BY <1>1
    <3>. QED BY <1>3, <1>4, <3>1
  <2>2. ASSUME NEW i \in DOMAIN w PROVE n + i \in (n + 1)..N /\ w[i] = q[n + i]
    BY <1>1, <1>3, <1>4
  <2>. QED BY <2>1, <2>2 DEF Holds
<1>8. Once(q, c) => Once(w, c)
  <2>. SUFFICES ASSUME Once(q, c), NEW i \in DOMAIN w, NEW j \in DOMAIN w, w[i] = c, w[j] = c
                PROVE  i = j
    BY DEF Once
  <2>1. /\ n + i \in DOMAIN q /\ n + j \in DOMAIN q /\ q[n + i] = c /\ q[n + j] = c
        /\ i \in Int /\ j \in Int
    BY <1>1, <1>3, <1>4
  <2>2. n + i = n + j BY <2>1 DEF Once
  <2>. QED BY <1>1, <2>1, <2>2
<1>9. \A x, y : Let(x) = Let(y) <=> x = y BY DEF Let
<1>10. Holds(sent, Let(c)) <=> \E i \in 1..n : q[i] = c BY <1>5, <1>9 DEF Holds
<1>11. Once(q, c) => Once(sent, Let(c))
  <2>1. \A i \in 1..n : i \in DOMAIN q BY <1>1
  <2>. QED BY <1>5, <1>9, <2>1 DEF Once
<1>12. \A m : m[1] # "Admitted" => ~ Holds(sent, m) BY <1>5 DEF Holds, Let
<1>13. Holds(q, c) <=> (\E i \in (n + 1)..N : q[i] = c) \/ (\E i \in 1..n : q[i] = c)
  <2>1. \A i \in DOMAIN q : i \in (n + 1)..N \/ i \in 1..n BY <1>1
  <2>2. (\A i \in (n + 1)..N : i \in DOMAIN q) /\ (\A i \in 1..n : i \in DOMAIN q) BY <1>1
  <2>. QED BY <2>1, <2>2 DEF Holds
<1>14. ASSUME Once(q, c) PROVE ~ ((\E i \in (n + 1)..N : q[i] = c) /\ (\E i \in 1..n : q[i] = c))
  <2>1. \A i, j \in DOMAIN q : q[i] = c /\ q[j] = c => i = j BY <1>14 DEF Once
  <2>2. \A i \in (n + 1)..N, j \in 1..n : i \in DOMAIN q /\ j \in DOMAIN q /\ i # j BY <1>1
  <2>. QED BY <2>1, <2>2
<1>15. Behind(q, n, c) <=> \E i \in (n + 1)..N : q[i] = c BY DEF Behind, N
<1>16. Among(q, n, c) <=> \E i \in 1..n : q[i] = c BY DEF Among
<1>17. w = Rest(q, n) /\ sent = LetIn(q, n) BY DEF Rest, LetIn, w, sent, N
<1>. QED BY <1>3, <1>6, <1>7, <1>8, <1>10, <1>11, <1>12, <1>13, <1>14, <1>15, <1>16, <1>17

(* The contexts in a queue are either let in or stay there.                   *)
Admits(q, adm, a, c) ==
    /\ a.sent \in Seq(Message) /\ a.queued \in Seq(Context)
    /\ Holds(a.queued, c) => Holds(q, c)
    /\ c \in a.admitted => c \in adm \/ Holds(q, c)
    /\ Count(q, c) <= 1 => Count(a.queued, c) + Brings(a.sent, c) = Count(q, c)

LEMMA AdmissionPasses ==
    ASSUME NEW q \in Seq(Context), NEW adm \in SUBSET Context, NEW contexts, NEW requests,
           NEW pressured, NEW c, NEW a, a = Admission(q, adm, contexts, requests, pressured)
    PROVE  Admits(q, adm, a, c)
<1>1. PICK n : Takes(q, adm, a, n) BY AdmissionIs
<1>2. /\ n \in 0..Len(q) /\ a.queued = Rest(q, n) /\ a.sent = LetIn(q, n)
      /\ c \in a.admitted <=> c \in adm \/ Among(q, n, c)
  BY <1>1 DEF Takes
<1>5. /\ Rest(q, n) \in Seq(Context)
      /\ Holds(Rest(q, n), c) <=> Behind(q, n, c)
      /\ Once(q, c) => Once(Rest(q, n), c)
      /\ LetIn(q, n) \in Seq(Message)
      /\ Holds(LetIn(q, n), Let(c)) <=> Among(q, n, c)
      /\ Once(q, c) => Once(LetIn(q, n), Let(c))
      /\ \A m : m[1] # "Admitted" => ~ Holds(LetIn(q, n), m)
      /\ Holds(q, c) <=> Behind(q, n, c) \/ Among(q, n, c)
      /\ Once(q, c) => ~ (Behind(q, n, c) /\ Among(q, n, c))
  BY <1>2, AdmissionTakes
<1>3. c \in a.admitted => c \in adm \/ Holds(q, c) BY <1>2, <1>5
<1>4. ASSUME Count(q, c) <= 1 PROVE Count(a.queued, c) + Brings(a.sent, c) = Count(q, c)
  <2>. DEFINE w == Rest(q, n)
              s == LetIn(q, n)
  <2>1. Once(q, c) /\ Count(q, c) = IF Holds(q, c) THEN 1 ELSE 0 BY <1>4, CountIs, CountOf
  <2>2. Count(w, c) = IF Holds(w, c) THEN 1 ELSE 0 BY <1>5, <2>1, CountOf
  <2>3. Count(s, Let(c)) = IF Holds(s, Let(c)) THEN 1 ELSE 0 BY <1>5, <2>1, CountOf
  <2>4. Count(s, Arrived(c)) = 0 /\ Count(s, Begin(c)) = 0
    <3>1. ~ Holds(s, Arrived(c)) /\ ~ Holds(s, Begin(c)) BY <1>5 DEF Arrived, Begin
    <3>. QED BY <1>5, <3>1, CountIs
  <2>5. Brings(s, c) = Count(s, Let(c)) BY <2>3, <2>4 DEF Brings
  <2>. QED BY <1>2, <1>5, <2>1, <2>2, <2>3, <2>5
<1>. QED BY <1>2, <1>3, <1>4, <1>5 DEF Admits

-----------------------------------------------------------------------------
(* A handler's messages, and what the scheduler admits after them.            *)

LEMMA HandIsUnderway ==
    ASSUME TypeOK, Registrations, HasMessage, NEW c
    PROVE  Hand(c) \in {0, 1} /\ Hand(c) <= Underway(c)
<1>1. active \in Seq(Message) /\ submissions \in Seq(RegisteredMessage)
  BY DEF TypeOK, Registrations
<1>2. Hand(c) \in {0, 1} BY DEF Hand
<1>3. /\ Count(active, Arrived(c)) \in Nat /\ Count(active, Let(c)) \in Nat
      /\ Count(active, Begin(c)) \in Nat /\ Count(submissions, Arrived(c)) \in Nat
  BY <1>1, CountIs
<1>4. ASSUME NextMessage \in WayMessages(c) PROVE Underway(c) >= 1
  <2>1. CASE FromActive
    <3>1. active # << >> /\ NextMessage = Head(active) BY <2>1 DEF FromActive, NextMessage
    <3>2. Holds(active, NextMessage) BY <1>1, <3>1, TailHolds
    <3>3. \A m : Count(active, m) = 0 <=> ~ Holds(active, m) BY <1>1, CountIs
    <3>4. \/ Count(active, Arrived(c)) # 0 \/ Count(active, Let(c)) # 0
          \/ Count(active, Begin(c)) # 0
      BY <1>4, <3>2, <3>3 DEF WayMessages
    <3>. QED BY <1>3, <3>4 DEF Underway
  <2>2. CASE ~ FromActive
    <3>1. submissions # << >> /\ NextMessage = Head(submissions)
      BY <2>2 DEF FromActive, NextMessage, HasMessage
    <3>2. Holds(submissions, NextMessage) /\ NextMessage \in RegisteredMessage
      BY <1>1, <3>1, TailHolds
    <3>3. NextMessage = Arrived(c)
      BY <1>4, <3>2 DEF WayMessages, RegisteredMessage, Let, Begin
    <3>4. Count(submissions, Arrived(c)) # 0 BY <1>1, <3>2, <3>3, CountIs
    <3>. QED BY <1>3, <3>4 DEF Underway
  <2>. QED BY <2>1, <2>2
<1>5. Underway(c) \in Nat BY TokensAre
<1>. QED BY <1>2, <1>4, <1>5 DEF Hand

(* A handler that sends no such message passes on what it does not handle.    *)
LEMMA ConsumePasses ==
    ASSUME TypeOK, TypeOK', Registrations, HasMessage, NEW c,
           NEW sent \in Seq(Message), NEW more \in Seq(RegisteredMessage), Consume(sent, more),
           UNCHANGED queued, StartTokens(c) <= 1,
           StartTokens(c) - Hand(c) + Brings(sent, c) + Count(more, Arrived(c)) <= 1
    PROVE  StartTokens(c)' = StartTokens(c) - Hand(c) + Brings(sent, c) + Count(more, Arrived(c))
<1>1. /\ StartTokens(c) = Underway(c) + Count(queued, c)
      /\ Underway(c) \in Nat /\ Count(queued, c) \in Nat
  BY TokensAre
<1>2. Hand(c) \in {0, 1} BY HandIsUnderway
<1>3. Brings(sent, c) \in Nat BY BringsIs
<1>4. Count(more, Arrived(c)) \in Nat BY CountIs
<1>. DEFINE h == Hand(c)
            b == Brings(sent, c)
            n == Count(more, Arrived(c))
            u == Underway(c)
            k == Count(queued, c)
<1>5. u <= 1 /\ u - h + b + n <= 1
  <2>. HIDE DEF h, b, n, u, k
  <2>1. u \in Nat /\ k \in Nat /\ h \in {0, 1} /\ b \in Nat /\ n \in Nat
    BY <1>1, <1>2, <1>3, <1>4 DEF u, k, h, b, n
  <2>2. u + k <= 1 /\ (u + k) - h + b + n <= 1 BY <1>1 DEF u, k, h, b, n
  <2>. QED BY <2>1, <2>2
<1>6. Underway(c)' = u - h + b + n BY <1>5, UnderwayAfter
<1>7. /\ StartTokens(c)' = Underway(c)' + Count(queued', c)
      /\ Underway(c)' \in Nat /\ Count(queued', c) \in Nat
  BY TokensBecome
<1>8. Count(queued', c) = k OBVIOUS
<1>. HIDE DEF h, b, n, u, k
<1>9. u \in Nat /\ k \in Nat /\ h \in {0, 1} /\ b \in Nat /\ n \in Nat
  BY <1>1, <1>2, <1>3, <1>4 DEF u, k, h, b, n
<1>10. StartTokens(c)' = (u - h + b + n) + k BY <1>6, <1>7, <1>8
<1>11. (u - h + b + n) + k = (u + k) - h + b + n BY <1>9
<1>. QED BY <1>1, <1>10, <1>11 DEF u, k, h, b, n

LEMMA AdmissionSends ==
    ASSUME TypeOK, TypeOK', Registrations, HasMessage,
           NEW q \in Seq(Context), NEW adm \in SUBSET Context, NEW contexts, NEW requests,
           NEW pressured, NEW a, a = Admission(q, adm, contexts, requests, pressured),
           NEW more \in Seq(RegisteredMessage),
           queued' = a.queued, admitted' = a.admitted, Consume(a.sent, more), NEW c
    PROVE  /\ Holds(queued', c) => Holds(q, c)
           /\ c \in admitted' => c \in adm \/ Holds(q, c)
           /\ Underway(c) <= 1 /\ Underway(c) - Hand(c) + Count(q, c) + Count(more, Arrived(c)) <= 1
                => StartTokens(c)' = Underway(c) - Hand(c) + Count(q, c) + Count(more, Arrived(c))
<1>1. q \in Seq(Context) /\ adm \in SUBSET Context /\ a = Admission(q, adm, contexts, requests, pressured)
  OBVIOUS
<1>4. Admits(q, adm, a, c) BY ONLY <1>1, AdmissionPasses
<1>2. /\ a.sent \in Seq(Message) /\ a.queued \in Seq(Context)
      /\ Holds(a.queued, c) => Holds(q, c)
      /\ c \in a.admitted => c \in adm \/ Holds(q, c)
      /\ Count(q, c) <= 1 => Count(a.queued, c) + Brings(a.sent, c) = Count(q, c)
  BY <1>4 DEF Admits
<1>3. ASSUME Underway(c) <= 1, Underway(c) - Hand(c) + Count(q, c) + Count(more, Arrived(c)) <= 1
      PROVE  StartTokens(c)' = Underway(c) - Hand(c) + Count(q, c) + Count(more, Arrived(c))
  <2>. DEFINE u == Underway(c)
              h == Hand(c)
              k == Count(q, c)
              n == Count(more, Arrived(c))
              b == Brings(a.sent, c)
              j == Count(a.queued, c)
  <2>1. /\ u \in Nat /\ h \in {0, 1} /\ h <= u /\ k \in Nat /\ n \in Nat
        /\ b \in Nat /\ j \in Nat
    BY <1>2, TokensAre, HandIsUnderway, CountIs, BringsIs
  <2>2. u <= 1 /\ u - h + k + n <= 1 BY <1>3
  <2>3. k <= 1
    <3>. HIDE DEF u, h, k, n
    <3>. QED BY <2>1, <2>2
  <2>4. j + b = k BY <1>2, <2>3
  <2>5. u - h + b + n <= 1
    <3>. HIDE DEF u, h, k, n, b, j
    <3>. QED BY <2>1, <2>2, <2>4
  <2>6. Underway(c)' = u - h + b + n BY <1>2, <2>2, <2>5, UnderwayAfter
  <2>7. StartTokens(c)' = Underway(c)' + Count(queued', c) BY TokensBecome
  <2>8. Count(queued', c) = j OBVIOUS
  <2>. HIDE DEF u, h, k, n, b, j
  <2>9. StartTokens(c)' = (u - h + b + n) + j BY <2>6, <2>7, <2>8
  <2>10. (u - h + b + n) + j = u - h + k + n BY <2>1, <2>4
  <2>. QED BY <2>9, <2>10 DEF u, h, k, n
<1>. QED BY <1>2, <1>3

LEMMA AdmissionMoves ==
    ASSUME TypeOK, TypeOK', Registrations, HasMessage,
           NEW q \in Seq(Context), NEW adm \in SUBSET Context, NEW contexts, NEW requests,
           NEW pressured, NEW a, a = Admission(q, adm, contexts, requests, pressured),
           queued' = a.queued, admitted' = a.admitted, Consume(a.sent, << >>), NEW c
    PROVE  /\ Holds(queued', c) => Holds(q, c)
           /\ c \in admitted' => c \in adm \/ Holds(q, c)
           /\ Underway(c) <= 1 /\ Underway(c) - Hand(c) + Count(q, c) <= 1
                => StartTokens(c)' = Underway(c) - Hand(c) + Count(q, c)
<1>1. << >> \in Seq(RegisteredMessage) /\ Count(<< >>, Arrived(c)) = 0
  BY EmptyIsQuiet, EmptyCounts
<1>2. /\ Holds(queued', c) => Holds(q, c)
      /\ c \in admitted' => c \in adm \/ Holds(q, c)
      /\ Underway(c) <= 1 /\ Underway(c) - Hand(c) + Count(q, c) + Count(<< >>, Arrived(c)) <= 1
           => StartTokens(c)' = Underway(c) - Hand(c) + Count(q, c) + Count(<< >>, Arrived(c))
  BY <1>1, AdmissionSends
<1>. DEFINE n == Underway(c) - Hand(c) + Count(q, c)
<1>3. n \in Int BY TokensAre, HandIsUnderway, CountIs
<1>4. n + Count(<< >>, Arrived(c)) = n
  <2>. HIDE DEF n
  <2>. QED BY <1>1, <1>3
<1>. QED BY <1>2, <1>4

LEMMA AdmitSends ==
    ASSUME TypeOK, TypeOK', Registrations, HasMessage,
           NEW q \in Seq(Context), NEW adm \in SUBSET Context,
           NEW more \in Seq(RegisteredMessage), Admit(q, adm, more), NEW c
    PROVE  /\ Holds(queued', c) => Holds(q, c)
           /\ c \in admitted' => c \in adm \/ Holds(q, c)
           /\ Underway(c) <= 1 /\ Underway(c) - Hand(c) + Count(q, c) + Count(more, Arrived(c)) <= 1
                => StartTokens(c)' = Underway(c) - Hand(c) + Count(q, c) + Count(more, Arrived(c))
<1>1. PICK pressured, a :
        /\ a = Admission(q, adm, context', pending', pressured)
        /\ queued' = a.queued /\ admitted' = a.admitted /\ Consume(a.sent, more)
  BY DEF Admit
<1>. QED BY <1>1, AdmissionSends

LEMMA AdmitPasses ==
    ASSUME TypeOK, TypeOK', Registrations, HasMessage,
           NEW q \in Seq(Context), NEW adm \in SUBSET Context, Admit(q, adm, << >>), NEW c
    PROVE  /\ Holds(queued', c) => Holds(q, c)
           /\ c \in admitted' => c \in adm \/ Holds(q, c)
           /\ Underway(c) <= 1 /\ Underway(c) - Hand(c) + Count(q, c) <= 1
                => StartTokens(c)' = Underway(c) - Hand(c) + Count(q, c)
<1>1. PICK pressured, a :
        /\ a = Admission(q, adm, context', pending', pressured)
        /\ queued' = a.queued /\ admitted' = a.admitted /\ Consume(a.sent, << >>)
  BY DEF Admit
<1>. QED BY <1>1, AdmissionMoves

(* Who leaves is not in the scheduler any more, whoever is admitted instead.  *)
LEMMA ReleaseSends ==
    ASSUME TypeOK, TypeOK', Registrations, HasMessage, NEW C \in SUBSET Context,
           NEW more \in Seq(RegisteredMessage), Release(C, more), NEW c
    PROVE  /\ Holds(queued', c) => Holds(queued, c) /\ c \notin C
           /\ c \in admitted' => c \notin C /\ (c \in admitted \/ Holds(queued, c))
           /\ /\ StartTokens(c) <= 1 /\ StartTokens(c) - Hand(c) + Count(more, Arrived(c)) <= 1
              /\ c \notin C \/ StartTokens(c) = 0
              => StartTokens(c)' = StartTokens(c) - Hand(c) + Count(more, Arrived(c))
<1>. DEFINE q == Without(queued, C)
            n == Count(more, Arrived(c))
            fits == /\ StartTokens(c) <= 1 /\ StartTokens(c) - Hand(c) + n <= 1
                    /\ c \notin C \/ StartTokens(c) = 0
<1>1. queued \in Seq(Context) /\ admitted \in SUBSET Context BY DEF TypeOK
<1>2. /\ q \in Seq(Context)
      /\ \A i \in DOMAIN q : q[i] \notin C /\ \E j \in DOMAIN queued : queued[j] = q[i]
  BY <1>1, WithoutKeeps
<1>3. Holds(q, c) => Holds(queued, c) /\ c \notin C BY <1>2 DEF Holds
<1>4. Count(queued, c) <= 1 => Count(q, c) = IF c \in C THEN 0 ELSE Count(queued, c)
  BY <1>1, WithoutCounts
<1>5. /\ StartTokens(c) = Underway(c) + Count(queued, c)
      /\ Underway(c) \in Nat /\ Count(queued, c) \in Nat
  BY TokensAre
<1>6. Hand(c) \in {0, 1} /\ n \in Nat BY HandIsUnderway, CountIs
<1>7. ASSUME fits
      PROVE  /\ Underway(c) <= 1 /\ Count(q, c) = Count(queued, c)
             /\ Underway(c) - Hand(c) + Count(queued, c) + n <= 1
  <2>. HIDE DEF q, n
  <2>1. Count(queued, c) <= 1 /\ Underway(c) <= 1 BY <1>5, <1>7
  <2>2. Count(q, c) = Count(queued, c) BY <1>4, <1>5, <1>7, <2>1
  <2>. QED BY <1>5, <1>6, <1>7, <2>1, <2>2
<1>8. CASE coordinator = "RUNNING" /\ q # << >>
  <2>1. Admit(q, admitted \ C, more) BY <1>8 DEF Release
  <2>2. admitted \ C \in SUBSET Context BY <1>1
  <2>. HIDE DEF q
  <2>3. /\ Holds(queued', c) => Holds(q, c)
        /\ c \in admitted' => c \in admitted \ C \/ Holds(q, c)
        /\ Underway(c) <= 1 /\ Underway(c) - Hand(c) + Count(q, c) + n <= 1
             => StartTokens(c)' = Underway(c) - Hand(c) + Count(q, c) + n
    BY <1>2, <2>1, <2>2, AdmitSends
  <2>. HIDE DEF n
  <2>4. ASSUME fits PROVE StartTokens(c)' = StartTokens(c) - Hand(c) + n
    <3>1. StartTokens(c)' = Underway(c) - Hand(c) + Count(queued, c) + n BY <1>7, <2>3, <2>4
    <3>. QED BY <1>5, <1>6, <3>1
  <2>. QED BY <1>3, <2>3, <2>4 DEF n
<1>9. CASE ~ (coordinator = "RUNNING" /\ q # << >>)
  <2>1. queued' = q /\ admitted' = admitted \ C /\ Consume(<< >>, more) BY <1>9 DEF Release
  <2>. HIDE DEF q
  <2>2. << >> \in Seq(Message) /\ Brings(<< >>, c) = 0
    BY EmptyIsQuiet, EmptyCounts DEF Quietly, Brings
  <2>3. ASSUME fits PROVE StartTokens(c)' = StartTokens(c) - Hand(c) + n
    <3>1. Underway(c) <= 1 /\ Count(q, c) = Count(queued, c) BY <1>7, <2>3
    <3>2. Underway(c) - Hand(c) + Brings(<< >>, c) + n <= 1
      <4>. HIDE DEF n
      <4>. QED BY <1>5, <1>6, <1>7, <2>2, <2>3
    <3>3. Underway(c)' = Underway(c) - Hand(c) + Brings(<< >>, c) + n
      BY <2>1, <2>2, <3>1, <3>2, UnderwayAfter
    <3>4. StartTokens(c)' = Underway(c)' + Count(queued', c) BY TokensBecome
    <3>5. Count(queued', c) = Count(queued, c) BY <2>1, <3>1
    <3>. HIDE DEF n
    <3>6. StartTokens(c)' = (Underway(c) - Hand(c) + 0 + n) + Count(queued, c)
      BY <2>2, <3>3, <3>4, <3>5
    <3>. QED BY <1>5, <1>6, <3>6
  <2>. QED BY <1>3, <2>1, <2>3
<1>. QED BY <1>8, <1>9

LEMMA ReleasePasses ==
    ASSUME TypeOK, TypeOK', Registrations, HasMessage,
           NEW C \in SUBSET Context, Release(C, << >>), NEW c
    PROVE  /\ Holds(queued', c) => Holds(queued, c) /\ c \notin C
           /\ c \in admitted' => c \notin C /\ (c \in admitted \/ Holds(queued, c))
           /\ StartTokens(c) <= 1 /\ c \notin C => StartTokens(c)' = StartTokens(c) - Hand(c)
<1>1. << >> \in Seq(RegisteredMessage) /\ Count(<< >>, Arrived(c)) = 0
  BY EmptyIsQuiet, EmptyCounts
<1>2. /\ Holds(queued', c) => Holds(queued, c) /\ c \notin C
      /\ c \in admitted' => c \notin C /\ (c \in admitted \/ Holds(queued, c))
      /\ /\ StartTokens(c) <= 1 /\ StartTokens(c) - Hand(c) + Count(<< >>, Arrived(c)) <= 1
         /\ c \notin C \/ StartTokens(c) = 0
         => StartTokens(c)' = StartTokens(c) - Hand(c) + Count(<< >>, Arrived(c))
  BY <1>1, ReleaseSends
<1>3. StartTokens(c) \in Nat /\ Hand(c) \in {0, 1}
  <2>1. StartTokens(c) = Underway(c) + Count(queued, c) /\ Underway(c) \in Nat /\ Count(queued, c) \in Nat
    BY TokensAre
  <2>. QED BY <2>1, HandIsUnderway
<1>. QED BY <1>1, <1>2, <1>3

-----------------------------------------------------------------------------
(* The invariant: who waits is remembered once, who is unknown is not, and    *)
(* registry, context and execution agree about each placement.                *)

Pended(c) ==
    /\ PlacementAgrees(c)
    /\ session[c] # "NONE" => context[c].state \notin Terminal

Cleared(c) == Coordinating /\ ~ Local(c) => c \notin pending \cup admitted /\ ~ Holds(queued, c)

Remembered(c) ==
    Coordinating =>
        /\ context[c].state = "NEW" => StartTokens(c) = 0
        /\ Local(c) /\ ~ context[c].stale =>
              StartTokens(c) = IF context[c].state \in {"VALIDATED", "QUEUED"} THEN 1 ELSE 0

Sound(c) == Remembered(c) /\ (~ context[c].stale => Pended(c) /\ Cleared(c))

WaitInv == \A c \in Context : Sound(c)

(* A step that has nothing to do with c.                                      *)
Alone(c) ==
    /\ context'[c] = context[c]
    /\ session'[c] = "NONE" <=> session[c] = "NONE"
    /\ session'[c] = "WAITING" <=> session[c] = "WAITING"
    /\ c \in pending' <=> c \in pending
    /\ c \in executing' <=> c \in executing

Passed(c) ==
    /\ StartTokens(c) <= 1 => StartTokens(c)' = StartTokens(c)
    /\ c \in admitted' => c \in admitted \/ Holds(queued, c)
    /\ Holds(queued', c) => Holds(queued, c)

LEMMA Bystander ==
    ASSUME NEW c \in Context, Sound(c), Alone(c),
           Coordinating' => Coordinating /\ Passed(c)
    PROVE  Sound(c)'
<1>1. Pended(c) => Pended(c)' BY DEF Pended, PlacementAgrees, Alone
<1>2. Local(c)' <=> Local(c) BY DEF Local, Registered, Alone
<1>3. Cleared(c) => Cleared(c)' BY <1>2 DEF Cleared, Alone, Passed
<1>4. Remembered(c)'
  <2>. SUFFICES ASSUME Coordinating'
                PROVE  /\ context'[c].state = "NEW" => StartTokens(c)' = 0
                       /\ Local(c)' /\ ~ context'[c].stale =>
                            StartTokens(c)' = IF context'[c].state \in {"VALIDATED", "QUEUED"} THEN 1 ELSE 0
    BY DEF Remembered
  <2>1. Coordinating /\ Passed(c) /\ Remembered(c) BY DEF Sound
  <2>. DEFINE k == StartTokens(c)
              j == StartTokens(c)'
  <2>2. k <= 1 => j = k BY <2>1 DEF Passed
  <2>3. /\ context[c].state = "NEW" => k = 0
        /\ Local(c) /\ ~ context[c].stale =>
              k = IF context[c].state \in {"VALIDATED", "QUEUED"} THEN 1 ELSE 0
    BY <2>1 DEF Remembered
  <2>. HIDE DEF k, j
  <2>4. /\ context[c].state = "NEW" => j = 0
        /\ Local(c) /\ ~ context[c].stale =>
              j = IF context[c].state \in {"VALIDATED", "QUEUED"} THEN 1 ELSE 0
    BY <2>2, <2>3
  <2>. QED BY <1>2, <2>4 DEF Alone, j
<1>5. context'[c].stale = context[c].stale BY DEF Alone
<1>. QED BY <1>1, <1>3, <1>4, <1>5 DEF Sound

(* Whose message is in hand.                                                  *)
LEMMA HandIs ==
    ASSUME NEW type, NEW d, NextMessage = <<type, d>>, NEW c
    PROVE  Hand(c) = IF c = d /\ type \in {"Registered", "Admitted", "Start"} THEN 1 ELSE 0
BY DEF Hand, WayMessages, Arrived, Let, Begin

(* Nothing is known of who has not been submitted.                            *)
LEMMA HandIsKnown ==
    ASSUME LifecycleInv, NEW c \in Context, Sound(c), Coordinating, HasMessage,
           NextMessage \in WayMessages(c)
    PROVE  context[c].state # "NEW"
<1>1. Hand(c) = 1 BY DEF Hand
<1>2. TypeOK /\ Registrations BY DEF LifecycleInv
<1>3. 1 <= Underway(c) BY <1>1, <1>2, HandIsUnderway
<1>4. /\ StartTokens(c) = Underway(c) + Count(queued, c)
      /\ Underway(c) \in Nat /\ Count(queued, c) \in Nat
  BY <1>2, TokensAre
<1>5. StartTokens(c) # 0 BY <1>3, <1>4
<1>. QED BY <1>5 DEF Sound, Remembered

(* A handler that sends nothing and lets the scheduler be.                    *)
LEMMA QuietPasses ==
    ASSUME LifecycleInv, LifecycleInv', NEW m, Receive(m), Consume(<< >>, << >>),
           UNCHANGED <<queued, admitted>>, NEW c
    PROVE  /\ StartTokens(c) <= 1 => StartTokens(c)' = StartTokens(c) - Hand(c)
           /\ Hand(c) = 0 => Passed(c)
<1>1. TypeOK /\ TypeOK' /\ Registrations /\ HasMessage BY DEF LifecycleInv, Receive
<1>2. << >> \in Seq(Message) /\ << >> \in Seq(RegisteredMessage) BY EmptyIsQuiet DEF Quietly
<1>3. Brings(<< >>, c) = 0 /\ Count(<< >>, Arrived(c)) = 0 BY EmptyCounts DEF Brings
<1>4. /\ StartTokens(c) = Underway(c) + Count(queued, c)
      /\ Underway(c) \in Nat /\ Count(queued, c) \in Nat
  BY <1>1, TokensAre
<1>5. Hand(c) \in {0, 1} BY <1>1, HandIsUnderway
<1>6. ASSUME StartTokens(c) <= 1 PROVE StartTokens(c)' = StartTokens(c) - Hand(c)
  <2>1. StartTokens(c) - Hand(c) + Brings(<< >>, c) + Count(<< >>, Arrived(c)) <= 1
    BY <1>3, <1>4, <1>5, <1>6
  <2>2. StartTokens(c)' = StartTokens(c) - Hand(c) + Brings(<< >>, c) + Count(<< >>, Arrived(c))
    BY <1>1, <1>2, <1>6, <2>1, ConsumePasses
  <2>. QED BY <1>3, <1>4, <1>5, <2>2
<1>7. ASSUME Hand(c) = 0 PROVE Passed(c) BY <1>4, <1>6, <1>7 DEF Passed
<1>. QED BY <1>6, <1>7

(* A message about d is handled, and only d is concerned.                     *)
LEMMA OthersPass ==
    ASSUME LifecycleInv, LifecycleInv', WaitInv, NEW type, NEW d \in Context, Receive(<<type, d>>),
           Consume(<< >>, << >>), UNCHANGED <<queued, admitted>>,
           \A c \in Context \ {d} : Alone(c)
    PROVE  \A c \in Context \ {d} : Sound(c)'
<1>. SUFFICES ASSUME NEW c \in Context \ {d} PROVE Sound(c)' OBVIOUS
<1>1. NextMessage = <<type, d>> /\ Coordinating BY DEF Receive
<1>2. Hand(c) = 0 BY <1>1, HandIs
<1>3. Passed(c)
  <2>. DEFINE m == <<type, d>>
  <2>1. Receive(m) OBVIOUS
  <2>. HIDE DEF m
  <2>. QED BY <1>2, <2>1, QuietPasses
<1>. QED BY <1>1, <1>3, Bystander DEF WaitInv

LEMMA IgnoreSound ==
    ASSUME LifecycleInv, LifecycleInv', WaitInv, NEW type, NEW d \in Context, Receive(<<type, d>>),
           Ignore, type \in {"Registered", "Admitted", "Start"} => ~ Local(d)
    PROVE  WaitInv'
<1>1. Consume(<< >>, << >>) /\ UNCHANGED <<registryVars, schedulerVars, managerVars, engineVars>>
  BY DEF Ignore
<1>2. \A c \in Context : Alone(c) BY <1>1 DEF Alone, registryVars, managerVars
<1>3. UNCHANGED <<queued, admitted>> /\ (Coordinating' <=> Coordinating)
  BY <1>1 DEF schedulerVars, engineVars, Coordinating
<1>4. \A c \in Context \ {d} : Sound(c)' BY <1>1, <1>2, <1>3, OthersPass
<1>5. Sound(d)'
  <2>1. NextMessage = <<type, d>> /\ Coordinating /\ HasMessage /\ Sound(d) BY DEF Receive, WaitInv
  <2>2. CASE Hand(d) = 0
    <3>. DEFINE m == <<type, d>>
    <3>1. Receive(m) OBVIOUS
    <3>. HIDE DEF m
    <3>2. Passed(d) BY <1>1, <1>3, <2>2, <3>1, QuietPasses
    <3>. QED BY <1>2, <2>1, <3>2, Bystander
  <2>3. CASE Hand(d) # 0
    <3>1. NextMessage \in WayMessages(d) BY <2>3 DEF Hand
    <3>2. type \in {"Registered", "Admitted", "Start"}
      BY <2>1, <3>1 DEF WayMessages, Arrived, Let, Begin
    <3>3. ~ Local(d) /\ context[d].state # "NEW" BY <2>1, <3>1, <3>2, HandIsKnown
    <3>4. ~ Local(d)' /\ context'[d].state # "NEW" BY <1>2, <3>3 DEF Alone, Local, Registered
    <3>5. Remembered(d)' BY <3>4 DEF Remembered
    <3>6. ~ context[d].stale => Pended(d)' BY <1>2, <2>1 DEF Sound, Pended, PlacementAgrees, Alone
    <3>7. ~ context[d].stale => Cleared(d)' BY <1>2, <1>3, <2>1, <3>3 DEF Sound, Cleared, Alone
    <3>. QED BY <1>2, <3>5, <3>6, <3>7 DEF Sound, Alone
  <2>. QED BY <2>2, <2>3
<1>. QED BY <1>4, <1>5 DEF WaitInv

(* When the coordinator is gone, only the placements have to agree.           *)
LEMMA LostSound ==
    ASSUME WaitInv, ~ Coordinating', NEW c \in Context,
           ~ context'[c].stale => ~ context[c].stale /\ (Pended(c) => Pended(c)')
    PROVE  Sound(c)'
<1>1. Remembered(c)' BY DEF Remembered
<1>2. Cleared(c)' BY DEF Cleared
<1>. QED BY <1>1, <1>2 DEF WaitInv, Sound

LEMMA FailSound ==
    ASSUME WaitInv, Fail PROVE WaitInv'
<1>1. coordinator' \in {"LOST", "LOST_STOPPING"} BY DEF Fail, Lose
<1>2. ~ Coordinating' BY <1>1 DEF Coordinating
<1>3. UNCHANGED <<registryVars, managerVars>> BY DEF Fail
<1>4. \A c \in Context : context'[c] = context[c] /\ (Pended(c) => Pended(c)')
  BY <1>3 DEF registryVars, managerVars, Pended, PlacementAgrees
<1>. QED BY <1>2, <1>4, LostSound DEF WaitInv

-----------------------------------------------------------------------------
(* Handlers that change the record of one context.                            *)

(* The state s suits what is pending for d.                                   *)
Suits(d, s) ==
    /\ d \in pending => s \in {"PLACEMENT_WAITING", "PAUSED"}
    /\ s = "PLACEMENT_WAITING" => d \in pending \/ ~ context[d].local
    /\ session[d] = "WAITING" => d \in pending \/ s \in Draining

NotYet == {"VALIDATED", "QUEUED"}

LEMMA UpdateSound ==
    ASSUME LifecycleInv, LifecycleInv', WaitInv, NEW type, NEW d \in Context, Receive(<<type, d>>),
           NEW r \in ContextRecord, Update(d, r), Registered(d),
           r.state \notin Terminal \cup {"NEW"}, r.local = context[d].local,
           r.stale = context[d].stale,
           Local(d) /\ ~ r.stale => (r.state \in NotYet <=> context[d].state \in NotYet /\ Hand(d) = 0),
           ~ r.stale => Suits(d, r.state)
    PROVE  WaitInv'
<1>. DEFINE m == <<type, d>>
<1>1. Receive(m) OBVIOUS
<1>. HIDE DEF m
<1>2. TypeOK /\ Registrations /\ HasMessage /\ Coordinating BY <1>1 DEF LifecycleInv, Receive
<1>3. /\ SetContext(d, r) /\ Consume(<< >>, << >>)
      /\ UNCHANGED <<pending, schedulerVars, managerVars, engineVars>>
  BY DEF Update
<1>4. context'[d] = r /\ \A c \in Context \ {d} : context'[c] = context[c] BY <1>2, <1>3, SetKeeps
<1>5. UNCHANGED <<queued, admitted, executing, session, coordinator>>
  BY <1>3 DEF schedulerVars, managerVars, engineVars
<1>6. \A c \in Context \ {d} : Alone(c) BY <1>3, <1>4, <1>5 DEF Alone
<1>7. \A c \in Context \ {d} : Sound(c)' BY <1>3, <1>5, <1>6, OthersPass
<1>8. StartTokens(d) <= 1 => StartTokens(d)' = StartTokens(d) - Hand(d)
  BY <1>1, <1>3, <1>5, QuietPasses
<1>9. Hand(d) \in {0, 1} BY <1>2, HandIsUnderway
<1>10. Local(d)' <=> Local(d) BY <1>4 DEF Local, Registered
<1>11. Sound(d) BY DEF WaitInv
<1>12. /\ StartTokens(d) = Underway(d) + Count(queued, d) /\ Hand(d) <= Underway(d)
       /\ Underway(d) \in Nat /\ Count(queued, d) \in Nat
  BY <1>2, TokensAre, HandIsUnderway
<1>13. Remembered(d)'
  <2>1. context'[d].state # "NEW" BY <1>4
  <2>2. ASSUME Local(d), ~ r.stale PROVE StartTokens(d)' = IF r.state \in NotYet THEN 1 ELSE 0
    <3>1. StartTokens(d) = IF context[d].state \in NotYet THEN 1 ELSE 0
      BY <1>2, <1>11, <2>2 DEF Sound, Remembered, NotYet
    <3>2. StartTokens(d)' = StartTokens(d) - Hand(d) BY <1>8, <3>1
    <3>3. Hand(d) = 1 => context[d].state \in NotYet BY <1>12, <3>1
    <3>. QED BY <1>9, <2>2, <3>1, <3>2, <3>3
  <2>. QED BY <1>4, <1>10, <2>1, <2>2 DEF Remembered, NotYet
<1>14. ASSUME ~ r.stale PROVE Pended(d)' /\ Cleared(d)'
  <2>1. Pended(d) /\ Cleared(d) BY <1>11, <1>14 DEF Sound
  <2>2. Pended(d)'
    <3>1. Suits(d, r.state) BY <1>14
    <3>. QED BY <1>3, <1>4, <1>5, <2>1, <3>1 DEF Suits, Pended, PlacementAgrees
  <2>3. Cleared(d)' BY <1>2, <1>3, <1>5, <1>10, <2>1 DEF Cleared
  <2>. QED BY <2>2, <2>3
<1>15. Sound(d)' BY <1>4, <1>13, <1>14 DEF Sound
<1>. QED BY <1>7, <1>15 DEF WaitInv

LEMMA StateLeaves ==
    ASSUME NEW r \in ContextRecord, NEW s \in ContextState \cup {"NEW"}
    PROVE  [r EXCEPT !.state = s].stale = r.stale
BY DEF ContextRecord

LEMMA PauseSound ==
    ASSUME LifecycleInv, LifecycleInv', WaitInv, NEW d \in Context, HandlePause(d)
    PROVE  WaitInv'
<1>. DEFINE paused == [context[d] EXCEPT !.state = "PAUSED"]
<1>1. Receive(<<"Pause", d>>) BY DEF HandlePause
<1>2. CASE ~ Local(d) \/ context[d].state \notin Running
  BY <1>1, <1>2, IgnoreSound DEF HandlePause
<1>3. CASE ~ (~ Local(d) \/ context[d].state \notin Running)
  <2>1. Update(d, paused) BY <1>3 DEF HandlePause
  <2>2. context[d] \in ContextRecord BY KnownRecord DEF LifecycleInv
  <2>3. /\ paused \in ContextRecord /\ paused.state = "PAUSED" /\ paused.local = context[d].local
        /\ paused.stale = context[d].stale
    BY <2>2, StateOnly, StateLeaves DEF ContextState
  <2>. HIDE DEF paused
  <2>4. Hand(d) = 0 BY <1>1, HandIs DEF Receive
  <2>5. ~ context[d].stale => Suits(d, "PAUSED")
    BY <1>3 DEF WaitInv, Sound, Pended, PlacementAgrees, Suits, Running, Draining, Terminal
  <2>6. Registered(d) /\ context[d].state \notin NotYet BY <1>3 DEF Local, Running, NotYet
  <2>. QED BY <1>1, <2>1, <2>3, <2>4, <2>5, <2>6, UpdateSound DEF NotYet, Terminal
<1>. QED BY <1>2, <1>3

LEMMA ResumeSound ==
    ASSUME LifecycleInv, LifecycleInv', WaitInv, NEW d \in Context, HandleResume(d)
    PROVE  WaitInv'
<1>. DEFINE s == Resumed(d, pending)
            resumed == [context[d] EXCEPT !.state = s]
<1>1. Receive(<<"Resume", d>>) BY DEF HandleResume
<1>2. CASE ~ Local(d) \/ context[d].state # "PAUSED"
  BY <1>1, <1>2, IgnoreSound DEF HandleResume
<1>3. CASE ~ (~ Local(d) \/ context[d].state # "PAUSED")
  <2>1. Update(d, resumed) BY <1>3 DEF HandleResume
  <2>2. context[d] \in ContextRecord BY KnownRecord DEF LifecycleInv
  <2>3. s = IF d \in pending THEN "PLACEMENT_WAITING" ELSE "RUNNING" BY DEF Resumed
  <2>. HIDE DEF s
  <2>4. s \in ContextState BY <2>3 DEF ContextState, Running
  <2>5. /\ resumed \in ContextRecord /\ resumed.state = s /\ resumed.local = context[d].local
        /\ resumed.stale = context[d].stale
    BY <2>2, <2>4, StateOnly, StateLeaves
  <2>. HIDE DEF resumed
  <2>6. Hand(d) = 0 BY <1>1, HandIs DEF Receive
  <2>7. ~ context[d].stale => Suits(d, s)
    BY <1>3, <2>3 DEF WaitInv, Sound, Pended, PlacementAgrees, Suits, Draining, Terminal
  <2>8. Registered(d) /\ context[d].state \notin NotYet BY <1>3 DEF Local, NotYet
  <2>9. s \notin Terminal \cup {"NEW"} /\ s \notin NotYet BY <2>3 DEF NotYet, Terminal
  <2>. QED BY <1>1, <2>1, <2>5, <2>6, <2>7, <2>8, <2>9, UpdateSound
<1>. QED BY <1>2, <1>3

(* A context ends or goes elsewhere: nothing of it is kept.                   *)
LEMMA GoneSound ==
    ASSUME LifecycleInv, LifecycleInv', WaitInv, NEW type, NEW d \in Context, Receive(<<type, d>>),
           NEW r \in ContextRecord, Conclude(d, r), UNCHANGED engineVars,
           r.state \in Terminal \/ (r.state = "QUEUED" /\ ~ r.local),
           ~ r.stale => session'[d] = "NONE",
           \A c \in Context \ {d} : session'[c] = session[c] /\ (c \in executing' <=> c \in executing)
    PROVE  WaitInv'
<1>1. TypeOK /\ TypeOK' /\ Registrations /\ HasMessage /\ Coordinating /\ NextMessage = <<type, d>>
  BY DEF LifecycleInv, Receive
<1>2. SetContext(d, r) /\ pending' = pending \ {d} /\ Release({d}, << >>) BY DEF Conclude
<1>3. context'[d] = r /\ \A c \in Context \ {d} : context'[c] = context[c] BY <1>1, <1>2, SetKeeps
<1>4. ASSUME NEW c \in Context
      PROVE  /\ Holds(queued', c) => Holds(queued, c) /\ c \notin {d}
             /\ c \in admitted' => c \notin {d} /\ (c \in admitted \/ Holds(queued, c))
             /\ StartTokens(c) <= 1 /\ c \notin {d} => StartTokens(c)' = StartTokens(c) - Hand(c)
  <2>1. {d} \in SUBSET Context OBVIOUS
  <2>. QED BY <1>1, <1>2, <2>1, ReleasePasses
<1>5. ASSUME NEW c \in Context \ {d} PROVE Sound(c)'
  <2>1. Hand(c) = 0 BY <1>1, HandIs
  <2>2. StartTokens(c) \in Nat BY <1>1, TokensAre
  <2>3. Passed(c) BY <1>4, <2>1, <2>2 DEF Passed
  <2>4. Alone(c) BY <1>2, <1>3 DEF Alone
  <2>. QED BY <1>1, <2>3, <2>4, Bystander DEF WaitInv
<1>6. Sound(d)'
  <2>1. ~ Local(d)' /\ context'[d].state # "NEW" /\ context'[d].state # "PLACEMENT_WAITING"
    BY <1>3 DEF Local, Registered, Terminal
  <2>2. Remembered(d)' BY <2>1 DEF Remembered
  <2>3. ~ r.stale => Pended(d)' BY <1>2, <2>1 DEF Pended, PlacementAgrees
  <2>4. Cleared(d)' BY <1>2, <1>4 DEF Cleared
  <2>. QED BY <1>3, <2>2, <2>3, <2>4 DEF Sound
<1>. QED BY <1>5, <1>6 DEF WaitInv

(* A context ends without an execution.                                       *)
LEMMA ConcludeSound ==
    ASSUME LifecycleInv, LifecycleInv', WaitInv, NEW type, NEW d \in Context, Receive(<<type, d>>),
           NEW r \in ContextRecord, Conclude(d, r), UNCHANGED <<managerVars, engineVars>>,
           r.state \in Terminal, ~ r.stale => session[d] = "NONE"
    PROVE  WaitInv'
BY GoneSound DEF managerVars

LEMMA StoppedIs ==
    ASSUME NEW c, NEW r \in ContextRecord, NEW requests
    PROVE  /\ Stopped(c, r, requests) \in ContextRecord
           /\ Stopped(c, r, requests).local = r.local
           /\ Stopped(c, r, requests).stale = r.stale
           /\ Stopped(c, r, requests).state = IF r.state \in Waiting THEN "FINISHED"
                                             ELSE IF r.state = "PAUSED" THEN Resumed(c, requests)
                                             ELSE r.state
<1>. DEFINE s == IF r.state \in Waiting THEN "FINISHED"
                 ELSE IF r.state = "PAUSED" THEN Resumed(c, requests) ELSE r.state
            halted == [r EXCEPT !.stop = TRUE]
            stopped == Stopped(c, r, requests)
<1>1. r.state \in ContextState \cup {"NEW"} BY DEF ContextRecord
<1>2. s \in ContextState \cup {"NEW"} BY <1>1 DEF Resumed, ContextState, Running, Terminal
<1>3. halted \in ContextRecord /\ halted.local = r.local /\ halted.stale = r.stale
        /\ halted.state = r.state
  BY DEF ContextRecord
<1>4. stopped = [halted EXCEPT !.state = s]
  <2>. HIDE DEF s
  <2>1. stopped = [r EXCEPT !.stop = TRUE, !.state = s] BY DEF Stopped, s
  <2>. QED BY <2>1 DEF ContextRecord
<1>. HIDE DEF s, halted, stopped
<1>5. /\ stopped \in ContextRecord /\ stopped.state = s /\ stopped.local = halted.local
      /\ stopped.stale = halted.stale
  BY <1>2, <1>3, <1>4, StateOnly, StateLeaves
<1>6. /\ stopped \in ContextRecord /\ stopped.state = s /\ stopped.local = r.local
      /\ stopped.stale = r.stale
  BY <1>3, <1>5
<1>. QED BY <1>6 DEF s, stopped

LEMMA StopSound ==
    ASSUME LifecycleInv, LifecycleInv', WaitInv, NEW d \in Context, HandleStop(d)
    PROVE  WaitInv'
<1>. DEFINE stopped == Stopped(d, context[d], pending)
            ignored == ~ Local(d) \/ context[d].state \in Draining \/ context[d].stop
<1>1. Receive(<<"Stop", d>>) BY DEF HandleStop
<1>2. context[d] \in ContextRecord BY KnownRecord DEF LifecycleInv
<1>3. CASE ignored BY <1>1, <1>3, IgnoreSound DEF HandleStop
<1>4. /\ stopped \in ContextRecord /\ stopped.local = context[d].local
      /\ stopped.stale = context[d].stale
      /\ stopped.state = IF context[d].state \in Waiting THEN "FINISHED"
                         ELSE IF context[d].state = "PAUSED" THEN Resumed(d, pending)
                         ELSE context[d].state
  BY <1>2, StoppedIs
<1>5. CASE ~ ignored /\ context[d].state \in Waiting
  <2>1. Conclude(d, stopped) /\ UNCHANGED <<managerVars, engineVars>> BY <1>5 DEF HandleStop
  <2>2. session[d] = "NONE" BY <1>5, NotBegun
  <2>3. stopped \in ContextRecord /\ stopped.state \in Terminal BY <1>4, <1>5 DEF Terminal
  <2>. HIDE DEF stopped, ignored
  <2>. QED BY <1>1, <2>1, <2>2, <2>3, ConcludeSound
<1>6. CASE ~ ignored /\ context[d].state \notin Waiting
  <2>1. Update(d, stopped) BY <1>6 DEF HandleStop
  <2>2. /\ stopped \in ContextRecord /\ stopped.local = context[d].local
        /\ stopped.stale = context[d].stale
        /\ stopped.state = IF context[d].state = "PAUSED" THEN Resumed(d, pending) ELSE context[d].state
    BY <1>4, <1>6
  <2>3. Local(d) /\ Registered(d) /\ context[d].state \notin NotYet \cup Draining
    BY <1>6 DEF Local, NotYet, Waiting
  <2>. HIDE DEF stopped, ignored
  <2>4. Hand(d) = 0 BY <1>1, HandIs DEF Receive
  <2>5. stopped.state \notin Terminal \cup {"NEW"} /\ stopped.state \notin NotYet
    BY <2>2, <2>3 DEF Registered, Terminal, NotYet, Resumed
  <2>6. ASSUME ~ context[d].stale PROVE Suits(d, stopped.state)
    <3>1. PlacementAgrees(d) BY <2>6 DEF WaitInv, Sound, Pended
    <3>2. context[d].state \notin Draining \cup Terminal BY <2>3 DEF Registered
    <3>3. CASE context[d].state = "PAUSED"
      <4>1. stopped.state = IF d \in pending THEN "PLACEMENT_WAITING" ELSE "RUNNING"
        BY <2>2, <3>3 DEF Resumed
      <4>. QED BY <3>1, <3>2, <4>1 DEF PlacementAgrees, Suits
    <3>4. CASE context[d].state # "PAUSED"
      <4>1. stopped.state = context[d].state BY <2>2, <3>4
      <4>. QED BY <3>1, <3>2, <4>1 DEF PlacementAgrees, Suits
    <3>. QED BY <3>3, <3>4
  <2>. QED BY <1>1, <2>1, <2>2, <2>3, <2>4, <2>5, <2>6, UpdateSound
<1>. QED BY <1>3, <1>5, <1>6

LEMMA StartSound ==
    ASSUME LifecycleInv, LifecycleInv', WaitInv, NEW d \in Context, HandleStart(d)
    PROVE  WaitInv'
<1>1. Receive(<<"Start", d>>) BY DEF HandleStart
<1>2. context[d] \in ContextRecord BY KnownRecord DEF LifecycleInv
<1>3. CASE ~ Local(d) BY <1>1, <1>3, IgnoreSound DEF HandleStart
<1>4. Hand(d) = 1 BY <1>1, HandIs DEF Receive
<1>5. ASSUME Local(d), ~ context[d].stale PROVE context[d].state \in NotYet /\ session[d] = "NONE"
  <2>1. TypeOK /\ Registrations /\ HasMessage /\ Coordinating BY <1>1 DEF LifecycleInv, Receive
  <2>2. Underway(d) >= 1 /\ Underway(d) \in Nat /\ Count(queued, d) \in Nat
          /\ StartTokens(d) = Underway(d) + Count(queued, d)
    BY <1>4, <2>1, TokensAre, HandIsUnderway
  <2>3. StartTokens(d) = IF context[d].state \in NotYet THEN 1 ELSE 0
    BY <1>5, <2>1 DEF WaitInv, Sound, Remembered, NotYet
  <2>4. context[d].state \in NotYet BY <2>2, <2>3
  <2>5. context[d].state \in Waiting BY <2>4 DEF NotYet, Waiting
  <2>. QED BY <2>4, <2>5, NotBegun
<1>6. CASE Local(d) /\ context[d].stop
  <2>. DEFINE ended == [context[d] EXCEPT !.state = "FINISHED"]
  <2>1. Conclude(d, ended) /\ UNCHANGED <<managerVars, engineVars>>
    BY <1>6 DEF HandleStart, ConcludeAs
  <2>2. ended \in ContextRecord /\ ended.state = "FINISHED" /\ ended.stale = context[d].stale
    BY <1>2, StateOnly, StateLeaves DEF ContextState, Terminal
  <2>. HIDE DEF ended
  <2>. QED BY <1>1, <1>5, <1>6, <2>1, <2>2, ConcludeSound DEF Terminal
<1>7. CASE Local(d) /\ ~ context[d].stop /\ "RUNNING" \notin Allowed[context[d].state]
  <2>1. Fail BY <1>7 DEF HandleStart
  <2>. QED BY <2>1, FailSound
<1>8. CASE Local(d) /\ ~ context[d].stop /\ "RUNNING" \in Allowed[context[d].state]
  <2>. DEFINE begun == [context[d] EXCEPT !.state = "RUNNING"]
              started == [context[d] EXCEPT !.state = "RUNNING", !.iteration = @ + 1]
  <2>1. SetContext(d, started) /\ Consume(<< >>, << >>)
          /\ UNCHANGED <<pending, schedulerVars, managerVars, engineVars>>
    BY <1>8 DEF HandleStart
  <2>2. begun \in ContextRecord /\ begun.state = "RUNNING" /\ begun.stale = context[d].stale
          /\ begun.local = context[d].local
    BY <1>2, StateOnly, StateLeaves DEF ContextState, Running
  <2>3. started = NextIteration(begun) BY <1>2 DEF NextIteration, ContextRecord
  <2>. HIDE DEF started, begun
  <2>4. /\ started \in ContextRecord /\ started.state = "RUNNING" /\ started.stale = context[d].stale
        /\ started.local = context[d].local
    BY <2>2, <2>3 DEF NextIteration, ContextRecord
  <2>5. Update(d, started) BY <2>1 DEF Update
  <2>6. ASSUME ~ context[d].stale PROVE Suits(d, "RUNNING") /\ context[d].state \in NotYet
    <3>1. PlacementAgrees(d) /\ context[d].state \in NotYet /\ session[d] = "NONE"
      BY <1>5, <1>8, <2>6 DEF WaitInv, Sound, Pended
    <3>. QED BY <3>1 DEF PlacementAgrees, Suits, NotYet
  <2>7. Registered(d) BY <1>8 DEF Local
  <2>. QED BY <1>1, <1>4, <2>4, <2>5, <2>6, <2>7, UpdateSound DEF NotYet, Terminal
<1>. QED BY <1>3, <1>6, <1>7, <1>8

LEMMA AbortSound ==
    ASSUME LifecycleInv, LifecycleInv', WaitInv, NEW d \in Context, HandleAbort(d)
    PROVE  WaitInv'
<1>. DEFINE ignored == ~ Local(d) \/ context[d].state \in Draining
<1>1. Receive(<<"Abort", d>>) BY DEF HandleAbort
<1>2. context[d] \in ContextRecord BY KnownRecord DEF LifecycleInv
<1>3. CASE ignored BY <1>1, <1>3, IgnoreSound DEF HandleAbort
<1>4. CASE ~ ignored /\ context[d].state \in Waiting
  <2>. DEFINE ended == [context[d] EXCEPT !.state = "ABORTED"]
  <2>1. Conclude(d, ended) /\ UNCHANGED <<managerVars, engineVars>>
    BY <1>4 DEF HandleAbort, ConcludeAs
  <2>2. ended \in ContextRecord /\ ended.state = "ABORTED" /\ ended.stale = context[d].stale
    BY <1>2, StateOnly, StateLeaves DEF ContextState, Terminal
  <2>3. session[d] = "NONE" BY <1>4, NotBegun
  <2>. HIDE DEF ended, ignored
  <2>. QED BY <1>1, <2>1, <2>2, <2>3, ConcludeSound DEF Terminal
<1>5. CASE ~ ignored /\ context[d].state \notin Waiting
  <2>. DEFINE r == [context[d] EXCEPT !.state = "ABORTING"]
              m == <<"Abort", d>>
  <2>1. /\ SetContext(d, r) /\ pending' = pending \ {d} /\ Consume(<< >>, << >>)
        /\ UNCHANGED schedulerVars /\ UNCHANGED <<managerVars, engineVars>>
    BY <1>5 DEF HandleAbort, SetState
  <2>2. r \in ContextRecord /\ r.state = "ABORTING" /\ r.stale = context[d].stale
          /\ r.local = context[d].local
    BY <1>2, StateOnly, StateLeaves DEF ContextState, Draining
  <2>3. TypeOK /\ Coordinating BY <1>1 DEF LifecycleInv, Receive
  <2>4. Local(d) /\ context[d].state \notin NotYet \cup Terminal \cup {"NEW"}
    BY <1>5 DEF NotYet, Waiting, Local, Registered
  <2>5. Receive(m) BY <1>1
  <2>. HIDE DEF r, ignored, m
  <2>6. context'[d] = r /\ \A c \in Context \ {d} : context'[c] = context[c]
    BY <2>1, <2>2, <2>3, SetKeeps
  <2>7. UNCHANGED <<queued, admitted, executing, session, coordinator>>
    BY <2>1 DEF schedulerVars, managerVars, engineVars
  <2>8. \A c \in Context \ {d} : Alone(c) BY <2>1, <2>6, <2>7 DEF Alone
  <2>9. \A c \in Context \ {d} : Sound(c)' BY <1>1, <2>1, <2>7, <2>8, OthersPass
  <2>10. Hand(d) = 0 BY <1>1, HandIs DEF Receive
  <2>11. Passed(d) BY <2>1, <2>5, <2>7, <2>10, QuietPasses
  <2>12. Sound(d) BY DEF WaitInv
  <2>13. Local(d)' BY <2>2, <2>4, <2>6 DEF Local, Registered, Terminal
  <2>14. Remembered(d)'
    <3>1. ASSUME ~ context[d].stale PROVE StartTokens(d)' = 0
      <4>1. StartTokens(d) = 0 BY <2>3, <2>4, <2>12, <3>1 DEF Sound, Remembered, NotYet
      <4>. QED BY <2>11, <4>1 DEF Passed
    <3>. QED BY <2>2, <2>6, <3>1 DEF Remembered
  <2>15. ~ r.stale => Pended(d)'
    BY <2>1, <2>2, <2>6 DEF Pended, PlacementAgrees, Draining, Terminal
  <2>16. Cleared(d)' BY <2>13 DEF Cleared
  <2>17. Sound(d)' BY <2>6, <2>14, <2>15, <2>16 DEF Sound
  <2>. QED BY <2>9, <2>17 DEF WaitInv
<1>. QED BY <1>3, <1>4, <1>5

(* Nothing of what a handler sends is about c.                                *)
LEMMA MessagesPass ==
    ASSUME LifecycleInv, LifecycleInv', NEW m, Receive(m), UNCHANGED <<queued, admitted>>,
           NEW sent \in Seq(Message), NEW more \in Seq(RegisteredMessage), Consume(sent, more),
           NEW c, Hand(c) = 0, Brings(sent, c) = 0, Count(more, Arrived(c)) = 0
    PROVE  Passed(c)
<1>1. TypeOK /\ TypeOK' /\ Registrations /\ HasMessage BY DEF LifecycleInv, Receive
<1>2. StartTokens(c) \in Nat
  <2>1. StartTokens(c) = Underway(c) + Count(queued, c) /\ Underway(c) \in Nat /\ Count(queued, c) \in Nat
    BY <1>1, TokensAre
  <2>. QED BY <2>1
<1>3. ASSUME StartTokens(c) <= 1 PROVE StartTokens(c)' = StartTokens(c)
  <2>1. StartTokens(c) - Hand(c) + Brings(sent, c) + Count(more, Arrived(c)) = StartTokens(c)
    BY <1>2
  <2>2. StartTokens(c) - Hand(c) + Brings(sent, c) + Count(more, Arrived(c)) <= 1 BY <1>3, <2>1
  <2>3. StartTokens(c)' = StartTokens(c) - Hand(c) + Brings(sent, c) + Count(more, Arrived(c))
    BY <1>1, <1>3, <2>2, ConsumePasses
  <2>. QED BY <2>1, <2>3
<1>. QED BY <1>3 DEF Passed

(* Messages that are about an execution are not about the way there.          *)
LEMMA OneBrings ==
    ASSUME NEW type, NEW d, NEW c
    PROVE  /\ Brings(<< <<type, d>> >>, c)
                = IF c = d /\ type \in {"Registered", "Admitted", "Start"} THEN 1 ELSE 0
           /\ Count(<< <<type, d>> >>, Arrived(c)) = IF c = d /\ type = "Registered" THEN 1 ELSE 0
<1>. DEFINE m == <<type, d>>
<1>1. /\ Count(<< m >>, Arrived(c)) = IF m = Arrived(c) THEN 1 ELSE 0
      /\ Count(<< m >>, Let(c)) = IF m = Let(c) THEN 1 ELSE 0
      /\ Count(<< m >>, Begin(c)) = IF m = Begin(c) THEN 1 ELSE 0
  BY OneCounts
<1>2. /\ m = Arrived(c) <=> type = "Registered" /\ c = d
      /\ m = Let(c) <=> type = "Admitted" /\ c = d
      /\ m = Begin(c) <=> type = "Start" /\ c = d
  BY DEF Arrived, Let, Begin
<1>. HIDE DEF m
<1>3. /\ Brings(<< m >>, c) = IF c = d /\ type \in {"Registered", "Admitted", "Start"} THEN 1 ELSE 0
      /\ Count(<< m >>, Arrived(c)) = IF c = d /\ type = "Registered" THEN 1 ELSE 0
  BY <1>1, <1>2 DEF Brings
<1>. QED BY <1>3 DEF m

LEMMA ReassignedLeaves ==
    ASSUME NEW d \in Context, NEW r \in ContextRecord
    PROVE  /\ Reassigned(d, r, TRUE).stale <=> r.stale \/ Overtakes(d)
           /\ Reassigned(d, r, FALSE).stale <=> r.stale
<1>1. \A here \in BOOLEAN : Reassigned(d, r, here)
        = [r EXCEPT !.state = "QUEUED", !.local = here, !.stale = r.stale \/ (here /\ Overtakes(d))]
  BY DEF ContextRecord, Reassigned
<1>. DEFINE mark(here) == r.stale \/ (here /\ Overtakes(d))
<1>2. \A here \in BOOLEAN : mark(here) \in BOOLEAN BY DEF ContextRecord
<1>3. \A here \in BOOLEAN : Reassigned(d, r, here) = [r EXCEPT !.state = "QUEUED", !.local = here, !.stale = mark(here)]
  BY <1>1
<1>4. (mark(TRUE) <=> r.stale \/ Overtakes(d)) /\ (mark(FALSE) <=> r.stale) OBVIOUS
<1>. HIDE DEF mark
<1>. QED BY <1>2, <1>3, <1>4 DEF ContextRecord

(* The registration of d is queued, and the scheduler may release d first.    *)
Registers(d) ==
    \/ Consume(<< >>, << <<"Registered", d>> >>) /\ UNCHANGED <<pending, schedulerVars>>
    \/ pending' = pending \ {d} /\ Release({d}, << <<"Registered", d>> >>)

LEMMA RegistersPasses ==
    ASSUME LifecycleInv, LifecycleInv', NEW m, Receive(m), NEW d \in Context, Registers(d),
           NEW c \in Context, Hand(c) = 0
    PROVE  /\ c # d => Passed(c)
           /\ c = d /\ StartTokens(c) = 0 => StartTokens(c)' = 1
<1>. DEFINE more == << <<"Registered", d>> >>
            n == Count(more, Arrived(c))
<1>1. TypeOK /\ TypeOK' /\ Registrations /\ HasMessage BY DEF LifecycleInv, Receive
<1>2. more \in Seq(RegisteredMessage) BY DEF RegisteredMessage
<1>3. n = IF c = d THEN 1 ELSE 0 BY OneBrings
<1>4. << >> \in Seq(Message) /\ Brings(<< >>, c) = 0 BY EmptyIsQuiet, EmptyCounts DEF Quietly, Brings
<1>5. StartTokens(c) \in Nat
  <2>1. StartTokens(c) = Underway(c) + Count(queued, c) /\ Underway(c) \in Nat /\ Count(queued, c) \in Nat
    BY <1>1, TokensAre
  <2>. QED BY <2>1
<1>6. \/ Consume(<< >>, more) /\ UNCHANGED schedulerVars
      \/ Release({d}, more)
  BY DEF Registers
<1>. HIDE DEF more
<1>7. CASE Consume(<< >>, more) /\ UNCHANGED schedulerVars
  <2>1. UNCHANGED <<queued, admitted>> BY <1>7 DEF schedulerVars
  <2>2. ASSUME c # d PROVE Passed(c) BY <1>2, <1>3, <1>4, <1>7, <2>1, <2>2, MessagesPass
  <2>3. ASSUME c = d, StartTokens(c) = 0 PROVE StartTokens(c)' = 1
    <3>1. StartTokens(c) - Hand(c) + Brings(<< >>, c) + Count(more, Arrived(c)) = 1
      BY <1>3, <1>4, <2>3
    <3>2. /\ StartTokens(c) <= 1
          /\ StartTokens(c) - Hand(c) + Brings(<< >>, c) + Count(more, Arrived(c)) <= 1
      BY <2>3, <3>1
    <3>3. StartTokens(c)' = StartTokens(c) - Hand(c) + Brings(<< >>, c) + Count(more, Arrived(c))
      BY ONLY <1>1, <1>2, <1>4, <1>7, <2>1, <3>2, ConsumePasses
    <3>. QED BY <3>1, <3>3
  <2>. QED BY <2>2, <2>3
<1>8. CASE Release({d}, more)
  <2>1. {d} \in SUBSET Context OBVIOUS
  <2>2. /\ Holds(queued', c) => Holds(queued, c) /\ c \notin {d}
        /\ c \in admitted' => c \notin {d} /\ (c \in admitted \/ Holds(queued, c))
        /\ /\ StartTokens(c) <= 1 /\ StartTokens(c) - Hand(c) + Count(more, Arrived(c)) <= 1
           /\ c \notin {d} \/ StartTokens(c) = 0
           => StartTokens(c)' = StartTokens(c) - Hand(c) + Count(more, Arrived(c))
    BY <1>1, <1>2, <1>8, <2>1, ReleaseSends
  <2>3. ASSUME c # d PROVE Passed(c) BY <1>3, <1>5, <2>2, <2>3 DEF Passed
  <2>4. ASSUME c = d, StartTokens(c) = 0 PROVE StartTokens(c)' = 1 BY <1>3, <2>2, <2>4
  <2>. QED BY <2>3, <2>4
<1>. QED BY <1>6, <1>7, <1>8

(* A context comes here, or comes back: it waits for its start again.         *)
LEMMA ReassignSound ==
    ASSUME LifecycleInv, LifecycleInv', WaitInv, NEW d \in Context,
           NEW type \in {"TransferIn", "Snapshot"}, Receive(<<type, d>>),
           Registered(d), ~ context[d].local \/ context[d].state = "ROUTING",
           NEW r0 \in ContextRecord, r0.stale = context[d].stale,
           SetContext(d, Reassigned(d, r0, TRUE)), Registers(d),
           UNCHANGED <<managerVars, engineVars>>
    PROVE  WaitInv'
<1>. DEFINE m == <<type, d>>
            r == Reassigned(d, r0, TRUE)
<1>1. Receive(m) /\ SetContext(d, r) OBVIOUS
<1>2. /\ r \in ContextRecord /\ r.state = "QUEUED" /\ r.local
      /\ r.stale <=> context[d].stale \/ Overtakes(d)
  BY ReassignedIsRecord, ReassignedLeaves
<1>5. \A c : Hand(c) = 0 BY HandIs DEF Receive
<1>. HIDE DEF m, r
<1>6. TypeOK /\ TypeOK' /\ Registrations /\ HasMessage /\ Coordinating BY <1>1 DEF LifecycleInv, Receive
<1>7. pending' \in {pending, pending \ {d}} BY DEF Registers
<1>8. UNCHANGED <<executing, session, coordinator>> BY DEF managerVars, engineVars
<1>9. context'[d] = r /\ \A c \in Context \ {d} : context'[c] = context[c] BY <1>1, <1>2, <1>6, SetKeeps
<1>10. ASSUME NEW c \in Context \ {d} PROVE Sound(c)'
  <2>1. Passed(c) BY <1>1, <1>5, RegistersPasses
  <2>2. Alone(c) BY <1>7, <1>8, <1>9 DEF Alone
  <2>. QED BY <1>6, <2>1, <2>2, Bystander DEF WaitInv
<1>11. Sound(d) BY DEF WaitInv
<1>12. ASSUME ~ r.stale PROVE StartTokens(d)' = 1
  <2>1. StartTokens(d) = 0
    <3>1. CASE ~ context[d].local BY <1>2, <1>12, <3>1 DEF Overtakes
    <3>2. CASE context[d].local
      <4>1. Local(d) /\ context[d].state = "ROUTING" /\ ~ context[d].stale BY <1>2, <1>12, <3>2 DEF Local
      <4>. QED BY <1>6, <1>11, <4>1 DEF Sound, Remembered
    <3>. QED BY <3>1, <3>2
  <2>. QED BY <1>1, <1>5, <2>1, RegistersPasses
<1>13. Remembered(d)' BY <1>2, <1>9, <1>12 DEF Remembered
<1>14. ASSUME ~ r.stale PROVE Pended(d)'
  <2>1. session[d] = "NONE" BY NotBegun DEF Waiting
  <2>2. d \notin pending BY <1>2, <1>11, <1>14, <2>1 DEF Sound, Pended, PlacementAgrees
  <2>. QED BY <1>2, <1>7, <1>8, <1>9, <2>1, <2>2 DEF Pended, PlacementAgrees
<1>15. Cleared(d)'
  <2>1. Local(d)' BY <1>2, <1>9 DEF Local, Registered, Terminal
  <2>. QED BY <2>1 DEF Cleared
<1>16. Sound(d)' BY <1>9, <1>13, <1>14, <1>15 DEF Sound
<1>. QED BY <1>10, <1>16 DEF WaitInv

LEMMA TransferInSound ==
    ASSUME LifecycleInv, LifecycleInv', WaitInv, NEW d \in Context, HandleTransferIn(d)
    PROVE  WaitInv'
<1>. DEFINE kept == ~ Transferable(d) \/ (context[d].local /\ context[d].state # "ROUTING")
<1>1. Receive(<<"TransferIn", d>>) BY DEF HandleTransferIn
<1>2. CASE kept BY <1>1, <1>2, IgnoreSound DEF HandleTransferIn
<1>3. CASE ~ kept
  <2>1. /\ SetContext(d, Reassigned(d, context[d], TRUE)) /\ Registers(d)
        /\ UNCHANGED <<managerVars, engineVars>>
    BY <1>3 DEF HandleTransferIn, Registers
  <2>2. context[d] \in ContextRecord BY KnownRecord DEF LifecycleInv
  <2>3. Registered(d) BY <1>3 DEF Transferable
  <2>. QED BY <1>1, <1>3, <2>1, <2>2, <2>3, ReassignSound
<1>. QED BY <1>2, <1>3

LEMMA TransferOutSound ==
    ASSUME LifecycleInv, LifecycleInv', WaitInv, NEW d \in Context, HandleTransferOut(d)
    PROVE  WaitInv'
<1>. DEFINE away == Reassigned(d, context[d], FALSE)
            kept == ~ Transferable(d) \/ (context[d].local /\ context[d].state \notin {"ROUTING", "QUEUED"})
<1>1. Receive(<<"TransferOut", d>>) BY DEF HandleTransferOut
<1>2. CASE kept BY <1>1, <1>2, IgnoreSound DEF HandleTransferOut
<1>3. CASE ~ kept
  <2>1. Conclude(d, away) /\ Leave({d}) /\ UNCHANGED engineVars
    BY <1>3 DEF HandleTransferOut, Conclude
  <2>2. session[d] = "NONE" BY <1>3, NotBegun DEF Waiting
  <2>3. context[d] \in ContextRecord /\ TypeOK BY KnownRecord DEF LifecycleInv
  <2>4. away \in ContextRecord /\ away.state = "QUEUED" /\ ~ away.local
    BY <2>3, ReassignedIsRecord
  <2>5. session'[d] = "NONE" BY <2>1, <2>2 DEF Leave
  <2>6. \A c \in Context \ {d} : session'[c] = session[c] /\ (c \in executing' <=> c \in executing)
    BY <2>1 DEF Leave
  <2>. HIDE DEF away, kept
  <2>. QED BY <1>1, <2>1, <2>4, <2>5, <2>6, GoneSound
<1>. QED BY <1>2, <1>3

LEMMA SnapshotSound ==
    ASSUME LifecycleInv, LifecycleInv', WaitInv, NEW d \in Context, HandleSnapshot(d)
    PROVE  WaitInv'
<1>. DEFINE more == << <<"Registered", d>> >>
<1>1. Receive(<<"Snapshot", d>>) BY DEF HandleSnapshot
<1>2. CASE ~ Registered(d) \/ context[d].local BY <1>1, <1>2, IgnoreSound DEF HandleSnapshot
<1>3. CASE ~ (~ Registered(d) \/ context[d].local)
  <2>1. session[d] = "NONE" BY <1>3, NotBegun
  <2>2. context[d] \in ContextRecord BY KnownRecord DEF LifecycleInv
  <2>3. PICK stop \in {s \in BOOLEAN : context[d].stop => s}, state \in {"RUNNING", "ABORTING"} :
          LET owner == [context[d] EXCEPT !.stop = stop] IN
          \/ Update(d, [owner EXCEPT !.state = state])
          \/ /\ Conclude(d, [owner EXCEPT !.state = "FINISHED"])
             /\ UNCHANGED <<managerVars, engineVars>>
          \/ /\ SetContext(d, Reassigned(d, owner, TRUE))
             /\ Consume(<< >>, more)
             /\ UNCHANGED <<pending, schedulerVars, managerVars, engineVars>>
    BY <1>3 DEF HandleSnapshot
  <2>. DEFINE owner == [context[d] EXCEPT !.stop = stop]
              runs == [owner EXCEPT !.state = state]
              ends == [owner EXCEPT !.state = "FINISHED"]
  <2>4. Update(d, runs) \/ (Conclude(d, ends) /\ UNCHANGED <<managerVars, engineVars>>)
          \/ (SetContext(d, Reassigned(d, owner, TRUE)) /\ Consume(<< >>, more)
                 /\ UNCHANGED <<pending, schedulerVars, managerVars, engineVars>>)
    BY <2>3
  <2>5. owner \in ContextRecord /\ owner.stale = context[d].stale /\ owner.local = context[d].local
    BY <2>2, <2>3 DEF ContextRecord
  <2>. HIDE DEF owner
  <2>6. /\ runs \in ContextRecord /\ runs.state = state /\ runs.local = context[d].local
        /\ runs.stale = context[d].stale
        /\ ends \in ContextRecord /\ ends.state = "FINISHED" /\ ends.stale = context[d].stale
    BY <2>5, StateOnly, StateLeaves DEF ContextState, Running, Draining, Terminal
  <2>. HIDE DEF runs, ends
  <2>7. CASE Update(d, runs)
    <3>1. ~ Local(d) /\ Registered(d) BY <1>3 DEF Local
    <3>2. ~ context[d].stale => Suits(d, state)
      BY <2>1 DEF WaitInv, Sound, Pended, PlacementAgrees, Suits
    <3>. QED BY <1>1, <2>6, <2>7, <3>1, <3>2, UpdateSound DEF Terminal
  <2>8. CASE Conclude(d, ends) /\ UNCHANGED <<managerVars, engineVars>>
    BY <1>1, <2>1, <2>6, <2>8, ConcludeSound DEF Terminal
  <2>9. CASE /\ SetContext(d, Reassigned(d, owner, TRUE)) /\ Consume(<< >>, more)
             /\ UNCHANGED <<pending, schedulerVars, managerVars, engineVars>>
    <3>1. Registers(d) BY <2>9 DEF Registers
    <3>. QED BY <1>1, <1>3, <2>5, <2>9, <3>1, ReassignSound
  <2>. QED BY <2>4, <2>7, <2>8, <2>9
<1>. QED BY <1>2, <1>3

-----------------------------------------------------------------------------
(* Registration and admission.                                                *)

LEMMA RegisterSound ==
    ASSUME LifecycleInv, LifecycleInv', WaitInv, NEW d \in Context,
           NEW type \in {"Registered", "Admitted"}, Receive(<<type, d>>), Local(d), Register(d)
    PROVE  WaitInv'
<1>. DEFINE m == <<type, d>>
            sent == << <<"Start", d>> >>
<1>1. CASE d \in executing BY <1>1, FailSound DEF Register
<1>2. CASE d \notin executing
  <2>1. /\ executing' = executing \cup {d} /\ Consume(sent, << >>)
        /\ UNCHANGED <<registryVars, schedulerVars, terminating, session, done, engineVars>>
    BY <1>2 DEF Register
  <2>2. Receive(m) OBVIOUS
  <2>3. sent \in Seq(Message) /\ << >> \in Seq(RegisteredMessage)
    <3>1. <<"Start", d>> \in Message BY DEF Message, MessageType, AcceptedDuringShutdown
    <3>. QED BY <3>1, EmptyIsQuiet
  <2>4. \A c : Brings(sent, c) = IF c = d THEN 1 ELSE 0 BY OneBrings
  <2>5. \A c : Hand(c) = IF c = d THEN 1 ELSE 0 BY HandIs DEF Receive
  <2>. HIDE DEF m, sent
  <2>6. TypeOK /\ TypeOK' /\ Registrations /\ HasMessage /\ Coordinating
    BY <2>2 DEF LifecycleInv, Receive
  <2>7. UNCHANGED <<queued, admitted, context, pending, session, coordinator>>
    BY <2>1 DEF registryVars, schedulerVars, engineVars
  <2>8. \A c : Count(<< >>, Arrived(c)) = 0 BY EmptyCounts
  <2>9. ASSUME NEW c \in Context \ {d} PROVE Sound(c)'
    <3>1. Hand(c) = 0 /\ Brings(sent, c) = 0 /\ Count(<< >>, Arrived(c)) = 0 BY <2>4, <2>5, <2>8
    <3>2. Passed(c) BY <2>1, <2>2, <2>3, <2>7, <3>1, MessagesPass
    <3>3. Alone(c) BY <2>1, <2>7 DEF Alone
    <3>. QED BY <2>6, <3>2, <3>3, Bystander DEF WaitInv
  <2>10. Sound(d) BY DEF WaitInv
  <2>11. ASSUME StartTokens(d) <= 1 PROVE StartTokens(d)' = StartTokens(d)
    <3>1. StartTokens(d) \in Nat
      <4>1. StartTokens(d) = Underway(d) + Count(queued, d) /\ Underway(d) \in Nat /\ Count(queued, d) \in Nat
        BY <2>6, TokensAre
      <4>. QED BY <4>1
    <3>2. Hand(d) = 1 /\ Brings(sent, d) = 1 /\ Count(<< >>, Arrived(d)) = 0 BY <2>4, <2>5, <2>8
    <3>3. StartTokens(d) - Hand(d) + Brings(sent, d) + Count(<< >>, Arrived(d)) = StartTokens(d)
      BY <3>1, <3>2
    <3>4. /\ StartTokens(d) - Hand(d) + Brings(sent, d) + Count(<< >>, Arrived(d)) <= 1
          /\ UNCHANGED queued
      BY <2>7, <2>11, <3>3
    <3>5. StartTokens(d)' = StartTokens(d) - Hand(d) + Brings(sent, d) + Count(<< >>, Arrived(d))
      BY ONLY <2>1, <2>3, <2>6, <2>11, <3>4, ConsumePasses
    <3>. QED BY <3>3, <3>5
  <2>12. Remembered(d)'
    <3>1. context'[d].state # "NEW" BY <2>7 DEF Local, Registered
    <3>2. ASSUME ~ context[d].stale
          PROVE  StartTokens(d)' = IF context[d].state \in NotYet THEN 1 ELSE 0
      <4>1. StartTokens(d) = IF context[d].state \in NotYet THEN 1 ELSE 0
        BY <2>6, <2>10, <3>2 DEF Sound, Remembered, NotYet
      <4>. QED BY <2>11, <4>1
    <3>. QED BY <2>7, <3>1, <3>2 DEF Remembered, NotYet
  <2>13. ASSUME ~ context[d].stale PROVE Pended(d)'
    <3>1. Pended(d) BY <2>10, <2>13 DEF Sound
    <3>. QED BY <2>1, <2>7, <3>1 DEF Pended, PlacementAgrees
  <2>14. Cleared(d)'
    <3>1. Local(d)' BY <2>7 DEF Local, Registered
    <3>. QED BY <3>1 DEF Cleared
  <2>15. Sound(d)' BY <2>7, <2>12, <2>13, <2>14 DEF Sound
  <2>. QED BY <2>9, <2>15 DEF WaitInv
<1>. QED BY <1>1, <1>2

(* A queue with one more at its end.                                          *)
LEMMA AppendCounts ==
    ASSUME NEW S, NEW s \in Seq(S), NEW e \in S, NEW m,
           Count(s, m) + (IF e = m THEN 1 ELSE 0) <= 1
    PROVE  Count(Append(s, e), m) = Count(s, m) + (IF e = m THEN 1 ELSE 0)
<1>1. Append(s, e) = s \o << e >> BY AppendIsConcat
<1>2. << e >> \in Seq(S) OBVIOUS
<1>3. Count(<< e >>, m) = IF e = m THEN 1 ELSE 0 BY OneCounts
<1>. DEFINE t == << e >>
<1>. HIDE DEF t
<1>4. t \in Seq(S) /\ Count(t, m) = IF e = m THEN 1 ELSE 0 BY <1>2, <1>3 DEF t
<1>5. Count(s, m) + Count(t, m) <= 1 BY <1>4
<1>6. Count(s \o t, m) = Count(s, m) + Count(t, m) BY <1>4, <1>5, ConcatCounts
<1>. QED BY <1>1, <1>4, <1>6 DEF t

LEMMA AdmitContextSound ==
    ASSUME LifecycleInv, LifecycleInv', WaitInv, NEW d \in Context,
           Receive(<<"Registered", d>>), Local(d), AdmitContext(d)
    PROVE  WaitInv'
<1>. DEFINE q == IF Contains(queued, d) THEN queued ELSE Append(queued, d)
<1>1. CASE context[d].state # "QUEUED" BY <1>1, FailSound DEF AdmitContext
<1>2. CASE context[d].state = "QUEUED"
  <2>1. /\ UNCHANGED <<registryVars, managerVars, engineVars>>
        /\ Admit(q, admitted, << >>)
    BY <1>2 DEF AdmitContext
  <2>2. TypeOK /\ TypeOK' /\ Registrations /\ HasMessage /\ Coordinating
    BY DEF LifecycleInv, Receive
  <2>3. \A c : Hand(c) = IF c = d THEN 1 ELSE 0 BY HandIs DEF Receive
  <2>4. queued \in Seq(Context) /\ admitted \in SUBSET Context BY <2>2 DEF TypeOK
  <2>5. q \in Seq(Context) BY <2>4, AppendProperties
  <2>6. ASSUME NEW c \in Context, Count(queued, c) + (IF c = d THEN 1 ELSE 0) <= 1
        PROVE  Count(q, c) = Count(queued, c) + (IF c = d THEN 1 ELSE 0)
    <3>1. Count(queued, c) \in Nat /\ (Count(queued, c) = 0 <=> ~ Holds(queued, c)) BY <2>4, CountIs
    <3>2. CASE Contains(queued, d)
      <4>1. Holds(queued, d) BY <2>4, <3>2, ContainsIsHolds
      <4>. QED BY <2>6, <3>1, <3>2, <4>1
    <3>3. CASE ~ Contains(queued, d) BY <2>4, <2>6, <3>3, AppendCounts
    <3>. QED BY <3>2, <3>3
  <2>7. \A c : Holds(q, c) => Holds(queued, c) \/ c = d BY <2>4, AppendHolds
  <2>. HIDE DEF q
  <2>8. ASSUME NEW c \in Context
        PROVE  /\ Holds(queued', c) => Holds(q, c)
               /\ c \in admitted' => c \in admitted \/ Holds(q, c)
               /\ Underway(c) <= 1 /\ Underway(c) - Hand(c) + Count(q, c) <= 1
                    => StartTokens(c)' = Underway(c) - Hand(c) + Count(q, c)
    BY <2>1, <2>2, <2>4, <2>5, AdmitPasses
  <2>9. ASSUME NEW c \in Context
        PROVE  StartTokens(c) <= 1 => StartTokens(c)' = StartTokens(c)
    <3>. SUFFICES ASSUME StartTokens(c) <= 1 PROVE StartTokens(c)' = StartTokens(c) OBVIOUS
    <3>1. /\ StartTokens(c) = Underway(c) + Count(queued, c)
          /\ Underway(c) \in Nat /\ Count(queued, c) \in Nat
      BY <2>2, TokensAre
    <3>2. Hand(c) = (IF c = d THEN 1 ELSE 0) /\ Hand(c) <= Underway(c)
      BY <2>2, <2>3, HandIsUnderway
    <3>3. Underway(c) <= 1 /\ Count(queued, c) + (IF c = d THEN 1 ELSE 0) <= 1 BY <3>1, <3>2
    <3>4. Count(q, c) = Count(queued, c) + (IF c = d THEN 1 ELSE 0) BY <2>6, <3>3
    <3>5. Underway(c) - Hand(c) + Count(q, c) = StartTokens(c) BY <3>1, <3>2, <3>4
    <3>6. Underway(c) - Hand(c) + Count(q, c) <= 1 BY <3>5
    <3>7. StartTokens(c)' = Underway(c) - Hand(c) + Count(q, c) BY <2>8, <3>3, <3>6
    <3>. QED BY <3>5, <3>7
  <2>10. \A c \in Context : Alone(c) BY <2>1 DEF Alone, registryVars, managerVars
  <2>11. ASSUME NEW c \in Context \ {d} PROVE Sound(c)'
    <3>1. Passed(c) BY <2>7, <2>8, <2>9 DEF Passed
    <3>. QED BY <2>2, <2>10, <3>1, Bystander DEF WaitInv
  <2>12. Sound(d)'
    <3>1. Sound(d) /\ Alone(d) BY <2>10 DEF WaitInv
    <3>2. Local(d)' /\ context'[d].state # "NEW" BY <3>1 DEF Alone, Local, Registered
    <3>3. ASSUME ~ context[d].stale PROVE StartTokens(d)' = 1
      <4>1. StartTokens(d) = 1 BY <1>2, <2>2, <3>1, <3>3 DEF Sound, Remembered
      <4>. QED BY <2>9, <4>1
    <3>4. Remembered(d)' BY <1>2, <3>1, <3>2, <3>3 DEF Remembered, Alone
    <3>5. Pended(d) => Pended(d)' BY <3>1 DEF Pended, PlacementAgrees, Alone
    <3>6. Cleared(d)' BY <3>2 DEF Cleared
    <3>. QED BY <3>1, <3>4, <3>5, <3>6 DEF Sound, Alone
  <2>. QED BY <2>11, <2>12 DEF WaitInv
<1>. QED BY <1>1, <1>2

LEMMA RegisteredSound ==
    ASSUME LifecycleInv, LifecycleInv', WaitInv, NEW d \in Context, HandleRegistered(d)
    PROVE  WaitInv'
<1>1. Receive(<<"Registered", d>>) BY DEF HandleRegistered
<1>2. CASE ~ Local(d) BY <1>1, <1>2, IgnoreSound DEF HandleRegistered
<1>3. CASE Local(d) /\ d \in Authority
  <2>1. Register(d) BY <1>3 DEF HandleRegistered
  <2>. QED BY <1>1, <1>3, <2>1, RegisterSound
<1>4. CASE Local(d) /\ d \notin Authority
  <2>1. AdmitContext(d) BY <1>4 DEF HandleRegistered
  <2>. QED BY <1>1, <1>4, <2>1, AdmitContextSound
<1>. QED BY <1>2, <1>3, <1>4

LEMMA AdmittedSound ==
    ASSUME LifecycleInv, LifecycleInv', WaitInv, NEW d \in Context, HandleAdmitted(d)
    PROVE  WaitInv'
<1>1. Receive(<<"Admitted", d>>) BY DEF HandleAdmitted
<1>2. CASE ~ Local(d) BY <1>1, <1>2, IgnoreSound DEF HandleAdmitted
<1>3. CASE Local(d)
  <2>1. Register(d) BY <1>3 DEF HandleAdmitted
  <2>. QED BY <1>1, <1>3, <2>1, RegisterSound
<1>. QED BY <1>2, <1>3

(* A message that is about no context.                                        *)
LEMMA NobodysHand ==
    ASSUME NEW type, type \notin {"Registered", "Admitted", "Start"}, NEW d,
           NextMessage = <<type, d>>, NEW c
    PROVE  Hand(c) = 0
BY DEF Hand, WayMessages, Arrived, Let, Begin

LEMMA ReconcileMessageSound ==
    ASSUME LifecycleInv, LifecycleInv', WaitInv, HandleReconcile
    PROVE  WaitInv'
<1>1. TypeOK /\ TypeOK' /\ Registrations /\ HasMessage /\ Coordinating
        /\ NextMessage = <<"Reconcile", "ALL">>
  BY DEF LifecycleInv, HandleReconcile, Receive, ReconcileMessage
<1>2. UNCHANGED <<registryVars, managerVars, engineVars>> BY DEF HandleReconcile
<1>3. PICK pressured, a :
        /\ a = Admission(queued, admitted, context, pending, pressured)
        /\ queued' = a.queued /\ admitted' = a.admitted /\ Consume(a.sent, << >>)
  BY DEF HandleReconcile
<1>4. queued \in Seq(Context) /\ admitted \in SUBSET Context BY <1>1 DEF TypeOK
<1>5. ASSUME NEW c \in Context PROVE Sound(c)'
  <2>1. /\ Holds(queued', c) => Holds(queued, c)
        /\ c \in admitted' => c \in admitted \/ Holds(queued, c)
        /\ Underway(c) <= 1 /\ Underway(c) - Hand(c) + Count(queued, c) <= 1
             => StartTokens(c)' = Underway(c) - Hand(c) + Count(queued, c)
    BY <1>1, <1>3, <1>4, AdmissionMoves
  <2>2. Hand(c) = 0 BY <1>1, NobodysHand
  <2>3. /\ StartTokens(c) = Underway(c) + Count(queued, c)
        /\ Underway(c) \in Nat /\ Count(queued, c) \in Nat
    BY <1>1, TokensAre
  <2>4. StartTokens(c) <= 1 => StartTokens(c)' = StartTokens(c) BY <2>1, <2>2, <2>3
  <2>5. Passed(c) BY <2>1, <2>4 DEF Passed
  <2>6. Alone(c) BY <1>2 DEF Alone, registryVars, managerVars
  <2>. QED BY <1>1, <2>5, <2>6, Bystander DEF WaitInv
<1>. QED BY <1>5 DEF WaitInv

-----------------------------------------------------------------------------
(* Collecting sessions, and hearing of the end.                               *)

LEMMA OutcomesBringNothing ==
    ASSUME NEW D \in SUBSET Context
    PROVE  LET sent == SetToSeq({<<"Terminated", c>> : c \in D}) IN
           /\ sent \in Seq(Message)
           /\ \A c : Brings(sent, c) = 0
<1>. DEFINE M == {<<"Terminated", c>> : c \in D}
            sent == SetToSeq(M)
<1>1. sent \in Seq(M)
  <2>1. IsFiniteSet(M) BY MessagesAreFinite DEF Messages
  <2>. HIDE DEF M
  <2>. QED BY <2>1, SetToSeqKeeps
<1>2. M \subseteq Message BY DEF Message, MessageType, AcceptedDuringShutdown
<1>3. \A m \in M : m[1] = "Terminated" OBVIOUS
<1>. HIDE DEF M, sent
<1>4. sent \in Seq(Message) BY <1>1, <1>2
<1>5. \A i \in DOMAIN sent : sent[i] \in M BY <1>1
<1>6. \A c : \A m \in WayMessages(c) : ~ Holds(sent, m)
  BY <1>3, <1>5 DEF Holds, WayMessages, Arrived, Let, Begin
<1>7. \A c : Brings(sent, c) = 0 BY <1>4, <1>6, BringsIs
<1>. QED BY <1>4, <1>7 DEF sent, M

(* An execution that reports goes on, and nothing is on the way to it.        *)
LEMMA ReportedIs ==
    ASSUME LifecycleInv, WaitInv, NEW d \in Context, session[d] = "REPORTED", Coordinating
    PROVE  /\ context[d] \in ContextRecord /\ context[d].local
           /\ context[d].state \notin Waiting \cup {"NEW"}
           /\ ~ context[d].stale =>
                /\ Local(d) /\ StartTokens(d) = 0 /\ d \notin pending
                /\ context[d].state \in {"RUNNING", "PAUSED"} \cup Draining
<1>1. /\ context[d] \in ContextRecord /\ context[d].local
      /\ context[d].state \notin Waiting \cup {"NEW"}
  BY DEF LifecycleInv, TypeOK, ExecutionOwned, Begun
<1>2. ASSUME ~ context[d].stale
      PROVE  /\ Local(d) /\ StartTokens(d) = 0 /\ d \notin pending
             /\ context[d].state \in {"RUNNING", "PAUSED"} \cup Draining
  <2>1. Pended(d) /\ Remembered(d) BY <1>2 DEF WaitInv, Sound
  <2>2. Local(d) /\ d \notin pending /\ context[d].state # "PLACEMENT_WAITING"
    BY <1>1, <2>1 DEF Pended, PlacementAgrees, Local, Registered
  <2>3. StartTokens(d) = 0 BY <1>1, <1>2, <2>1, <2>2 DEF Remembered, Waiting
  <2>4. context[d].state \in {"RUNNING", "PAUSED"} \cup Draining
    BY <1>1, <2>2 DEF ContextRecord, ContextState, Running, Waiting, Local, Registered
  <2>. QED BY <2>2, <2>3, <2>4
<1>. QED BY <1>1, <1>2

LEMMA NextIterationLeaves ==
    ASSUME NEW r \in ContextRecord PROVE NextIteration(r).stale = r.stale
BY DEF NextIteration, ContextRecord

(* The session of d is collected, and d goes on with the record r.            *)
LEMMA CollectSound ==
    ASSUME LifecycleInv, WaitInv, NEW d \in Context, session[d] = "REPORTED", Coordinating,
           \A c \in Context : Passed(c), UNCHANGED executing,
           NEW r \in ContextRecord, SetContext(d, r),
           r.local = context[d].local, r.stale = context[d].stale,
           ~ r.stale => r.state \notin NotYet \cup Terminal, r.state # "NEW",
           NEW s \in SessionState, session' = [session EXCEPT ![d] = s],
           \A c \in Context \ {d} : c \in pending' <=> c \in pending,
           ~ r.stale => Pended(d)'
    PROVE  WaitInv'
<1>1. TypeOK BY DEF LifecycleInv
<1>2. context'[d] = r /\ \A c \in Context \ {d} : context'[c] = context[c] BY <1>1, SetKeeps
<1>3. \A c \in Context \ {d} : session'[c] = session[c] BY <1>1 DEF TypeOK
<1>4. ASSUME NEW c \in Context \ {d} PROVE Sound(c)'
  <2>1. Alone(c) BY <1>2, <1>3 DEF Alone
  <2>2. Passed(c) /\ Sound(c) BY DEF WaitInv
  <2>. QED BY <2>1, <2>2, Bystander
<1>5. Sound(d)'
  <2>1. ASSUME ~ r.stale PROVE StartTokens(d)' = 0 /\ Local(d)'
    <3>1. StartTokens(d) = 0 /\ Local(d) BY <2>1, ReportedIs
    <3>2. Passed(d) OBVIOUS
    <3>3. StartTokens(d)' = 0 BY <3>1, <3>2 DEF Passed
    <3>4. Local(d)' BY <1>2, <2>1, <3>1 DEF Local, Registered
    <3>. QED BY <3>3, <3>4
  <2>2. Remembered(d)' BY <1>2, <2>1 DEF Remembered, NotYet
  <2>3. ~ r.stale => Cleared(d)' BY <2>1 DEF Cleared
  <2>. QED BY <1>2, <2>2, <2>3 DEF Sound
<1>. QED BY <1>4, <1>5 DEF WaitInv

LEMMA RetrieveSound ==
    ASSUME LifecycleInv, LifecycleInv', WaitInv, NEW d \in Context, HandleRetrieve(d)
    PROVE  WaitInv'
<1>. DEFINE m == <<"Retrieve", d>>
<1>1. Receive(m) BY DEF HandleRetrieve
<1>2. CASE session[d] # "REPORTED" BY <1>1, <1>2, IgnoreSound DEF HandleRetrieve
<1>3. CASE session[d] = "REPORTED" /\ d \notin executing
  <2>1. Fail BY <1>3 DEF HandleRetrieve
  <2>. QED BY <2>1, FailSound
<1>4. CASE session[d] = "REPORTED" /\ d \in executing
  <2>1. \A c : Hand(c) = 0 BY <1>1, HandIs DEF Receive
  <2>. HIDE DEF m
  <2>2. TypeOK /\ TypeOK' /\ Registrations /\ HasMessage /\ Coordinating
          /\ queued \in Seq(Context) /\ admitted \in SUBSET Context
    BY <1>1 DEF LifecycleInv, Receive, TypeOK
  <2>3. /\ context[d] \in ContextRecord /\ context[d].local
        /\ context[d].state \notin Waiting \cup {"NEW"}
        /\ ~ context[d].stale =>
             /\ Local(d) /\ StartTokens(d) = 0 /\ d \notin pending
             /\ context[d].state \in {"RUNNING", "PAUSED"} \cup Draining
    BY <1>4, <2>2, ReportedIs
  <2>4. "NONE" \in SessionState /\ "RESCHEDULED" \in SessionState /\ "WAITING" \in SessionState
    BY DEF SessionState
  <2>5. ASSUME NEW sent \in Seq(Message), \A c : Brings(sent, c) = 0, Consume(sent, << >>),
               UNCHANGED <<queued, admitted>>
        PROVE  \A c \in Context : Passed(c)
    <3>1. << >> \in Seq(RegisteredMessage) /\ \A c : Count(<< >>, Arrived(c)) = 0
      BY EmptyIsQuiet, EmptyCounts
    <3>. SUFFICES ASSUME NEW c \in Context PROVE Passed(c) OBVIOUS
    <3>2. Hand(c) = 0 /\ Brings(sent, c) = 0 /\ Count(<< >>, Arrived(c)) = 0 BY <2>1, <2>5, <3>1
    <3>. QED BY <1>1, <2>5, <3>1, <3>2, MessagesPass
  <2>6. << >> \in Seq(Message) /\ \A c : Brings(<< >>, c) = 0
    BY EmptyIsQuiet, EmptyCounts DEF Quietly, Brings
  <2>7. ASSUME End({d}), UNCHANGED <<queued, admitted>> PROVE \A c \in Context : Passed(c)
    <3>. DEFINE sent == SetToSeq({<<"Terminated", c>> : c \in {d} \ terminating})
    <3>1. Consume(sent, << >>) BY <2>7 DEF End
    <3>2. sent \in Seq(Message) /\ \A c : Brings(sent, c) = 0 BY OutcomesBringNothing
    <3>. HIDE DEF sent
    <3>. QED BY <2>5, <2>7, <3>1, <3>2
  <2>8. ASSUME NEW s \in ContextState, s \in Draining, CollectLast(d, s) PROVE WaitInv'
    <3>. DEFINE r == [context[d] EXCEPT !.state = s]
    <3>1. /\ SetContext(d, r) /\ session' = [session EXCEPT ![d] = "NONE"] /\ End({d})
          /\ UNCHANGED <<pending, schedulerVars, executing, done>>
      BY <2>8 DEF CollectLast, SetState
    <3>2. r \in ContextRecord /\ r.state = s /\ r.local = context[d].local /\ r.stale = context[d].stale
      BY <2>3, StateOnly, StateLeaves
    <3>. HIDE DEF r
    <3>3. \A c \in Context : Passed(c) BY <2>7, <3>1 DEF schedulerVars
    <3>4. s \notin NotYet \cup Terminal \cup {"NEW", "PLACEMENT_WAITING"}
      BY <2>8 DEF Draining, NotYet, Terminal
    <3>5. context'[d] = r /\ session'[d] = "NONE" BY <2>2, <3>1, <3>2, SetKeeps DEF TypeOK
    <3>6. ~ r.stale => Pended(d)' BY <2>3, <3>1, <3>2, <3>4, <3>5 DEF Pended, PlacementAgrees
    <3>. QED BY <1>4, <2>2, <2>4, <3>1, <3>2, <3>3, <3>4, <3>6, CollectSound
  <2>9. ASSUME NEW s \in {"NONE", "RESCHEDULED"}, session' = [session EXCEPT ![d] = s],
               \A c \in Context : Passed(c), UNCHANGED <<pending, executing>>,
               NEW r \in ContextRecord, SetContext(d, r), r.state = context[d].state,
               r.local = context[d].local, r.stale = context[d].stale
        PROVE  WaitInv'
    <3>1. context'[d] = r /\ session'[d] = s BY <2>2, <2>9, SetKeeps DEF TypeOK
    <3>2. r.state # "NEW" /\ (~ r.stale => r.state \notin NotYet \cup Terminal \cup {"PLACEMENT_WAITING"})
      BY <2>3, <2>9 DEF Draining, NotYet, Terminal
    <3>3. ~ r.stale => Pended(d)' BY <2>3, <2>9, <3>1, <3>2 DEF Pended, PlacementAgrees
    <3>4. s \in SessionState BY <2>4
    <3>. QED BY <1>4, <2>2, <2>9, <3>2, <3>3, <3>4, CollectSound
  <2>10. ASSUME UNCHANGED <<context, unfinalized>> PROVE SetContext(d, context[d])
    BY <2>2, <2>10 DEF SetContext, TypeOK
  <2>11. ASSUME context[d].state \notin Draining, CollectWaiting(d) PROVE WaitInv'
    <3>. DEFINE s == IF context[d].state = "RUNNING" THEN "PLACEMENT_WAITING" ELSE context[d].state
                r == [context[d] EXCEPT !.state = s]
    <3>1. s \in ContextState BY <2>3 DEF ContextRecord, ContextState, Running
    <3>2. /\ SetContext(d, r) /\ session' = [session EXCEPT ![d] = "WAITING"]
          /\ pending' = pending \cup {d} /\ UNCHANGED executing
      BY <2>11 DEF CollectWaiting, SetState
    <3>4. ~ context[d].stale => s \in {"PLACEMENT_WAITING", "PAUSED"} BY <2>3, <2>11
    <3>5. s # "NEW" BY <2>3
    <3>. HIDE DEF s
    <3>3. r \in ContextRecord /\ r.state = s /\ r.local = context[d].local /\ r.stale = context[d].stale
      BY <2>3, <3>1, StateOnly, StateLeaves
    <3>. HIDE DEF r
    <3>6. ~ r.stale => s \notin NotYet \cup Terminal BY <3>3, <3>4 DEF NotYet, Terminal
    <3>7. \A c \in Context : Passed(c)
      <4>1. CASE queued # << >>
        <5>1. Admit(queued, admitted, << >>) BY <2>11, <4>1 DEF CollectWaiting
        <5>. SUFFICES ASSUME NEW c \in Context PROVE Passed(c) OBVIOUS
        <5>2. /\ Holds(queued', c) => Holds(queued, c)
              /\ c \in admitted' => c \in admitted \/ Holds(queued, c)
              /\ Underway(c) <= 1 /\ Underway(c) - Hand(c) + Count(queued, c) <= 1
                   => StartTokens(c)' = Underway(c) - Hand(c) + Count(queued, c)
          BY <2>2, <5>1, AdmitPasses
        <5>3. /\ StartTokens(c) = Underway(c) + Count(queued, c)
              /\ Underway(c) \in Nat /\ Count(queued, c) \in Nat
          BY <2>2, TokensAre
        <5>4. StartTokens(c) <= 1 => StartTokens(c)' = StartTokens(c) BY <2>1, <5>2, <5>3
        <5>. QED BY <5>2, <5>4 DEF Passed
      <4>2. CASE ~ (queued # << >>)
        <5>1. Consume(<< >>, << >>) /\ UNCHANGED schedulerVars BY <2>11, <4>2 DEF CollectWaiting
        <5>. QED BY <2>5, <2>6, <5>1 DEF schedulerVars
      <4>. QED BY <4>1, <4>2
    <3>8. context'[d] = r /\ session'[d] = "WAITING" BY <2>2, <3>2, <3>3, SetKeeps DEF TypeOK
    <3>9. ~ r.stale => Pended(d)'
      BY <1>4, <3>2, <3>3, <3>4, <3>6, <3>8 DEF Pended, PlacementAgrees
    <3>10. \A c \in Context \ {d} : c \in pending' <=> c \in pending BY <3>2
    <3>. QED BY <1>4, <2>2, <2>4, <3>2, <3>3, <3>5, <3>6, <3>7, <3>9, <3>10, CollectSound
  <2>12. ASSUME CollectIteration(d) PROVE WaitInv'
    <3>1. session' = [session EXCEPT ![d] = "NONE"] /\ UNCHANGED <<pending, schedulerVars, executing>>
      BY <2>12 DEF CollectIteration
    <3>2. CASE CanReiterate(context[d]) /\ SetContext(d, NextIteration(context[d])) /\ Consume(<< >>, << >>)
      <4>. DEFINE r == NextIteration(context[d])
      <4>1. /\ r \in ContextRecord /\ r.state = context[d].state /\ r.local = context[d].local
            /\ r.stale = context[d].stale
        BY <2>3, NextIterationKeeps, NextIterationLeaves
      <4>2. SetContext(d, r) BY <3>2
      <4>. HIDE DEF r
      <4>3. \A c \in Context : Passed(c) BY <2>5, <2>6, <3>1, <3>2 DEF schedulerVars
      <4>. QED BY <2>9, <3>1, <4>1, <4>2, <4>3
    <3>3. CASE End({d}) /\ UNCHANGED <<context, unfinalized>>
      <4>1. \A c \in Context : Passed(c) BY <2>7, <3>1, <3>3 DEF schedulerVars
      <4>. QED BY <2>3, <2>9, <2>10, <3>1, <3>3, <4>1
    <3>4. CASE Consume(<< >>, << >>) /\ UNCHANGED <<context, unfinalized>>
      <4>1. \A c \in Context : Passed(c) BY <2>5, <2>6, <3>1, <3>4 DEF schedulerVars
      <4>. QED BY <2>3, <2>9, <2>10, <3>1, <3>4, <4>1
    <3>. QED BY <2>12, <3>2, <3>3, <3>4 DEF CollectIteration
  <2>13. ASSUME NEW s \in {"NONE", "RESCHEDULED"}, session' = [session EXCEPT ![d] = s],
                Consume(<< >>, << >>), UNCHANGED <<registryVars, schedulerVars, executing>>
         PROVE  WaitInv'
    <3>1. \A c \in Context : Passed(c) BY <2>5, <2>6, <2>13 DEF schedulerVars
    <3>2. SetContext(d, context[d]) /\ UNCHANGED pending BY <2>10, <2>13 DEF registryVars
    <3>. QED BY <2>3, <2>9, <2>13, <3>1, <3>2
  <2>14. CASE context[d].state \in Draining
    <3>1. CollectLast(d, context[d].state) BY <1>4, <2>14 DEF HandleRetrieve
    <3>2. context[d].state \in ContextState BY <2>14 DEF ContextState
    <3>. QED BY <2>8, <2>14, <3>1, <3>2
  <2>15. CASE context[d].state \notin Draining
    <3>1. \/ CollectLast(d, "FAILING") \/ CollectRetry(d) \/ CollectWaiting(d)
          \/ CollectStep(d) \/ CollectIteration(d)
      BY <1>4, <2>15 DEF HandleRetrieve
    <3>2. CASE CollectLast(d, "FAILING") BY <2>8, <3>2 DEF ContextState, Draining
    <3>3. CASE CollectRetry(d) BY <2>13, <3>3 DEF CollectRetry
    <3>4. CASE CollectStep(d) BY <2>13, <3>4 DEF CollectStep
    <3>. QED BY <2>11, <2>12, <2>15, <3>1, <3>2, <3>3, <3>4
  <2>. QED BY <2>14, <2>15
<1>. QED BY <1>2, <1>3, <1>4

(* Who has an outcome has no session left.                                    *)
LEMMA TerminatedSound ==
    ASSUME LifecycleInv, LifecycleInv', WaitInv, NEW d \in Context, HandleTerminated(d)
    PROVE  WaitInv'
<1>. DEFINE r == [context[d] EXCEPT !.state = Outcome(d)]
            fails == Registered(d) /\ Outcome(d) \notin Allowed[context[d].state]
            m == <<"Terminated", d>>
<1>1. Receive(m) /\ Receive(Ended(d)) BY DEF HandleTerminated, Ended
<1>2. d \in terminating /\ session[d] = "NONE" BY <1>1, HeardIsEnded
<1>3. context[d] \in ContextRecord /\ context[d].state # "NEW" /\ Coordinating
  BY <1>1, <1>2 DEF LifecycleInv, TypeOK, ExecutionOwned, Begun, Receive
<1>4. CASE fails
  <2>1. Fail BY <1>4 DEF HandleTerminated
  <2>. QED BY <2>1, FailSound
<1>5. CASE ~ fails
  <2>1. Leave({d}) /\ UNCHANGED engineVars BY <1>5 DEF HandleTerminated
  <2>2. /\ session'[d] = "NONE"
        /\ \A c \in Context \ {d} : session'[c] = session[c] /\ (c \in executing' <=> c \in executing)
    BY <1>2, <2>1 DEF Leave
  <2>3. CASE Registered(d)
    <3>1. Conclude(d, r) BY <1>5, <2>3 DEF HandleTerminated, ConcludeAs
    <3>2. r \in ContextRecord /\ r.state = Outcome(d)
      BY <1>3, OutcomeIsState, StateOnly
    <3>3. Outcome(d) \in Terminal
      <4>1. Outcome(d) = IF context[d].state = "ABORTING" THEN "ABORTED"
                         ELSE IF context[d].state = "FAILING" THEN "FAILED" ELSE "FINISHED"
        BY DEF Outcome
      <4>. QED BY <4>1 DEF Terminal
    <3>. HIDE DEF r
    <3>. QED BY <1>1, <2>1, <2>2, <3>1, <3>2, <3>3, GoneSound
  <2>4. CASE ~ Registered(d)
    <3>1. Consume(<< >>, << >>) /\ UNCHANGED <<registryVars, schedulerVars>>
      BY <1>5, <2>4 DEF HandleTerminated
    <3>2. UNCHANGED <<context, pending, queued, admitted>> BY <3>1 DEF registryVars, schedulerVars
    <3>3. \A c \in Context \ {d} : Alone(c) BY <2>2, <3>2 DEF Alone
    <3>4. \A c \in Context \ {d} : Sound(c)' BY <1>1, <3>1, <3>2, <3>3, OthersPass
    <3>5. Sound(d)'
      <4>1. Sound(d) BY DEF WaitInv
      <4>2. ~ Local(d)' /\ ~ Local(d) BY <2>4, <3>2 DEF Local, Registered
      <4>3. Remembered(d)' BY <1>3, <3>2, <4>2 DEF Remembered
      <4>4. Pended(d) => Pended(d)' BY <1>2, <2>2, <3>2 DEF Pended, PlacementAgrees
      <4>5. Cleared(d) => Cleared(d)' BY <1>3, <3>2, <4>2 DEF Cleared
      <4>. QED BY <3>2, <4>1, <4>3, <4>4, <4>5 DEF Sound
    <3>. QED BY <3>4, <3>5 DEF WaitInv
  <2>. QED BY <2>3, <2>4
<1>. QED BY <1>4, <1>5

(* What is dropped while the engine stops is not about the way of anyone.     *)
LEMMA DropSound ==
    ASSUME LifecycleInv, LifecycleInv', WaitInv, Drop PROVE WaitInv'
<1>1. TypeOK /\ TypeOK' /\ Registrations /\ HasMessage /\ Coordinating
  BY DEF LifecycleInv, Drop, Coordinating
<1>2. Consume(<< >>, << >>) /\ UNCHANGED <<registryVars, schedulerVars, managerVars, engineVars>>
  BY DEF Drop
<1>3. UNCHANGED <<queued, admitted, context, pending, session, executing, coordinator>>
  BY <1>2 DEF registryVars, schedulerVars, managerVars, engineVars
<1>. SUFFICES ASSUME NEW c \in Context PROVE Sound(c)' BY DEF WaitInv
<1>4. Hand(c) = 0
  BY DEF Drop, AcceptedDuringShutdown, Hand, WayMessages, Arrived, Let, Begin
<1>5. << >> \in Seq(Message) /\ << >> \in Seq(RegisteredMessage)
        /\ Brings(<< >>, c) = 0 /\ Count(<< >>, Arrived(c)) = 0
  BY EmptyIsQuiet, EmptyCounts DEF Quietly, Brings
<1>6. ASSUME StartTokens(c) <= 1 PROVE StartTokens(c)' = StartTokens(c)
  <2>1. StartTokens(c) \in Nat
    <3>1. StartTokens(c) = Underway(c) + Count(queued, c) /\ Underway(c) \in Nat /\ Count(queued, c) \in Nat
      BY <1>1, TokensAre
    <3>. QED BY <3>1
  <2>2. StartTokens(c) - Hand(c) + Brings(<< >>, c) + Count(<< >>, Arrived(c)) = StartTokens(c)
    BY <1>4, <1>5, <2>1
  <2>3. StartTokens(c) - Hand(c) + Brings(<< >>, c) + Count(<< >>, Arrived(c)) <= 1 /\ UNCHANGED queued
    BY <1>3, <1>6, <2>2
  <2>4. StartTokens(c)' = StartTokens(c) - Hand(c) + Brings(<< >>, c) + Count(<< >>, Arrived(c))
    BY ONLY <1>1, <1>2, <1>5, <1>6, <2>3, ConsumePasses
  <2>. QED BY <2>2, <2>4
<1>7. Passed(c) BY <1>3, <1>6 DEF Passed
<1>8. Alone(c) BY <1>3 DEF Alone
<1>. QED BY <1>1, <1>7, <1>8, Bystander DEF WaitInv

-----------------------------------------------------------------------------
(* What users, timers and executors do.                                       *)

(* One more message that is not about the way of c.                           *)
LEMMA PutPasses ==
    ASSUME TypeOK, TypeOK', UNCHANGED <<queued, admitted, submissions>>,
           NEW e \in Message, active' = Append(active, e), NEW c, e \notin WayMessages(c)
    PROVE  Passed(c)
<1>1. active \in Seq(Message) BY DEF TypeOK
<1>2. /\ StartTokens(c) = Underway(c) + Count(queued, c)
      /\ Underway(c) \in Nat /\ Count(queued, c) \in Nat
  BY TokensAre
<1>3. /\ StartTokens(c)' = Underway(c)' + Count(queued', c)
      /\ Underway(c)' \in Nat /\ Count(queued', c) \in Nat
  BY TokensBecome
<1>4. \A m : Count(active, m) \in Nat /\ Count(submissions, m) \in Nat
  BY <1>1, CountIs DEF TypeOK
<1>5. ASSUME NEW m \in WayMessages(c), Count(active, m) <= 1
      PROVE  Count(active', m) = Count(active, m)
  <2>1. e # m OBVIOUS
  <2>2. Count(active, m) + (IF e = m THEN 1 ELSE 0) <= 1 BY <1>4, <1>5, <2>1
  <2>3. Count(Append(active, e), m) = Count(active, m) + (IF e = m THEN 1 ELSE 0)
    BY <1>1, <2>2, AppendCounts
  <2>. QED BY <1>4, <2>1, <2>3
<1>6. ASSUME StartTokens(c) <= 1 PROVE StartTokens(c)' = StartTokens(c)
  <2>. DEFINE s0 == Count(submissions, Arrived(c))
              a0 == Count(active, Arrived(c))
              a1 == Count(active, Let(c))
              a2 == Count(active, Begin(c))
  <2>1. s0 \in Nat /\ a0 \in Nat /\ a1 \in Nat /\ a2 \in Nat BY <1>4
  <2>2. Underway(c) = s0 + a0 + a1 + a2 BY DEF Underway
  <2>3. Underway(c) <= 1 BY <1>2, <1>6
  <2>4. a0 <= 1 /\ a1 <= 1 /\ a2 <= 1
    <3>. HIDE DEF s0, a0, a1, a2
    <3>. QED BY <2>1, <2>2, <2>3
  <2>5. /\ Count(active', Arrived(c)) = a0 /\ Count(active', Let(c)) = a1
        /\ Count(active', Begin(c)) = a2
    BY <1>5, <2>4 DEF WayMessages
  <2>6. Count(submissions', Arrived(c)) = s0 OBVIOUS
  <2>7. Underway(c)' = Count(submissions', Arrived(c))
            + Count(active', Arrived(c)) + Count(active', Let(c)) + Count(active', Begin(c))
    BY DEF Underway, Arrived, Let, Begin, Count
  <2>8. Underway(c)' = Underway(c) BY <2>2, <2>5, <2>6, <2>7
  <2>9. Count(queued', c) = Count(queued, c) OBVIOUS
  <2>. QED BY <1>2, <1>3, <2>8, <2>9
<1>. QED BY <1>6 DEF Passed

LEMMA EnqueueSound ==
    ASSUME LifecycleInv, LifecycleInv', WaitInv, NEW e \in Message, Enqueue(e),
           \A c \in Context : e \notin WayMessages(c), UNCHANGED executing,
           \A c \in Context : /\ session'[c] = "NONE" <=> session[c] = "NONE"
                              /\ session'[c] = "WAITING" <=> session[c] = "WAITING"
    PROVE  WaitInv'
<1>1. TypeOK /\ TypeOK' BY DEF LifecycleInv
<1>2. UNCHANGED <<queued, admitted, submissions, context, pending, coordinator>>
        /\ active' = Append(active, e)
  BY DEF Enqueue, registryVars
<1>. SUFFICES ASSUME NEW c \in Context PROVE Sound(c)' BY DEF WaitInv
<1>3. Passed(c) BY <1>1, <1>2, PutPasses
<1>4. Alone(c) BY <1>2 DEF Alone
<1>5. Coordinating' <=> Coordinating BY <1>2 DEF Coordinating
<1>. QED BY <1>3, <1>4, <1>5, Bystander DEF WaitInv

LEMMA NoWay ==
    ASSUME NEW type, type \notin {"Registered", "Admitted", "Start"}, NEW of, NEW c
    PROVE  <<type, of>> \notin WayMessages(c)
BY DEF WayMessages, Arrived, Let, Begin

LEMMA GiveSound ==
    ASSUME LifecycleInv, LifecycleInv', WaitInv,
           NEW type \in ControlCommand \cup {"Snapshot"}, NEW d \in Context, Give(<<type, d>>)
    PROVE  WaitInv'
<1>. DEFINE e == <<type, d>>
<1>1. e \in Message /\ \A c \in Context : e \notin WayMessages(c)
  BY IsMessage, NoWay DEF MessageType, AcceptedDuringShutdown, ControlCommand
<1>2. Enqueue(e) /\ UNCHANGED managerVars BY DEF Give
<1>. HIDE DEF e
<1>. QED BY <1>1, <1>2, EnqueueSound DEF managerVars

(* d is registered: once more for it, and for nobody else.                    *)
LEMMA ArrivalCounts ==
    ASSUME TypeOK, TypeOK', UNCHANGED queued, NEW d \in Context,
           \/ active' = Append(active, Arrived(d)) /\ UNCHANGED submissions
           \/ submissions' = Append(submissions, Arrived(d)) /\ UNCHANGED active,
           NEW c, StartTokens(c) + (IF c = d THEN 1 ELSE 0) <= 1
    PROVE  StartTokens(c)' = StartTokens(c) + (IF c = d THEN 1 ELSE 0)
<1>. DEFINE e == Arrived(d)
            one == IF c = d THEN 1 ELSE 0
            s0 == Count(submissions, Arrived(c))
            a0 == Count(active, Arrived(c))
            a1 == Count(active, Let(c))
            a2 == Count(active, Begin(c))
            k == Count(queued, c)
<1>1. active \in Seq(Message) /\ submissions \in Seq(Message) /\ queued \in Seq(Context) BY DEF TypeOK
<1>2. e \in Message BY DEF Arrived, Message, MessageType, AcceptedDuringShutdown
<1>3. (e = Arrived(c) <=> c = d) /\ e # Let(c) /\ e # Begin(c) BY DEF Arrived, Let, Begin
<1>4. s0 \in Nat /\ a0 \in Nat /\ a1 \in Nat /\ a2 \in Nat /\ k \in Nat BY <1>1, CountIs
<1>5. StartTokens(c) = s0 + a0 + a1 + a2 + k
  <2>1. StartTokens(c) = Underway(c) + k /\ Underway(c) = s0 + a0 + a1 + a2
    BY TokensAre DEF Underway
  <2>. QED BY <2>1
<1>6. StartTokens(c)' = Count(submissions', Arrived(c)) + Count(active', Arrived(c))
          + Count(active', Let(c)) + Count(active', Begin(c)) + Count(queued', c)
  <2>1. StartTokens(c)' = Underway(c)' + Count(queued', c) BY TokensBecome
  <2>2. Underway(c)' = Count(submissions', Arrived(c))
          + Count(active', Arrived(c)) + Count(active', Let(c)) + Count(active', Begin(c))
    BY DEF Underway, Arrived, Let, Begin, Count
  <2>. QED BY <2>1, <2>2
<1>7. one \in {0, 1} /\ s0 + a0 + a1 + a2 + k + one <= 1 BY <1>5
<1>8. s0 + one <= 1 /\ a0 + one <= 1 /\ a1 <= 1 /\ a2 <= 1
  <2>. HIDE DEF one, s0, a0, a1, a2, k
  <2>. QED BY <1>4, <1>7
<1>9. (IF e = Arrived(c) THEN 1 ELSE 0) = one BY <1>3
<1>10. CASE active' = Append(active, e) /\ UNCHANGED submissions
  <2>1. /\ Count(active', Arrived(c)) = a0 + one
        /\ Count(active', Let(c)) = a1 /\ Count(active', Begin(c)) = a2
    <3>. HIDE DEF e, one
    <3>1. Count(Append(active, e), Arrived(c)) = Count(active, Arrived(c)) + (IF e = Arrived(c) THEN 1 ELSE 0)
      BY <1>1, <1>2, <1>8, <1>9, AppendCounts
    <3>2. Count(active, Let(c)) + (IF e = Let(c) THEN 1 ELSE 0) <= 1
            /\ Count(active, Begin(c)) + (IF e = Begin(c) THEN 1 ELSE 0) <= 1
      BY <1>3, <1>4, <1>8
    <3>3. /\ Count(Append(active, e), Let(c)) = Count(active, Let(c)) + (IF e = Let(c) THEN 1 ELSE 0)
          /\ Count(Append(active, e), Begin(c)) = Count(active, Begin(c)) + (IF e = Begin(c) THEN 1 ELSE 0)
      BY <1>1, <1>2, <3>2, AppendCounts
    <3>. QED BY <1>3, <1>4, <1>9, <1>10, <3>1, <3>3
  <2>2. Count(submissions', Arrived(c)) = s0 /\ Count(queued', c) = k BY <1>10
  <2>3. StartTokens(c)' = s0 + (a0 + one) + a1 + a2 + k BY <1>6, <2>1, <2>2
  <2>. HIDE DEF one, s0, a0, a1, a2, k
  <2>4. s0 + (a0 + one) + a1 + a2 + k = (s0 + a0 + a1 + a2 + k) + one BY <1>4, <1>7
  <2>. QED BY <1>5, <2>3, <2>4 DEF one
<1>11. CASE submissions' = Append(submissions, e) /\ UNCHANGED active
  <2>1. Count(submissions', Arrived(c)) = s0 + one
    <3>. HIDE DEF e, one
    <3>1. Count(Append(submissions, e), Arrived(c))
             = Count(submissions, Arrived(c)) + (IF e = Arrived(c) THEN 1 ELSE 0)
      BY <1>1, <1>2, <1>8, <1>9, AppendCounts
    <3>. QED BY <1>9, <1>11, <3>1
  <2>2. /\ Count(active', Arrived(c)) = a0 /\ Count(active', Let(c)) = a1
        /\ Count(active', Begin(c)) = a2 /\ Count(queued', c) = k
    BY <1>11
  <2>3. StartTokens(c)' = (s0 + one) + a0 + a1 + a2 + k BY <1>6, <2>1, <2>2
  <2>. HIDE DEF one, s0, a0, a1, a2, k
  <2>4. (s0 + one) + a0 + a1 + a2 + k = (s0 + a0 + a1 + a2 + k) + one BY <1>4, <1>7
  <2>. QED BY <1>5, <2>3, <2>4 DEF one
<1>. QED BY <1>10, <1>11

LEMMA SubmitSound ==
    ASSUME LifecycleInv, LifecycleInv', WaitInv, NEW d \in Context, Submit(d)
    PROVE  WaitInv'
<1>1. TypeOK /\ TypeOK' /\ context[d] \in ContextRecord BY KnownRecord DEF LifecycleInv
<1>2. /\ coordinator = "RUNNING" /\ context[d].state = "NEW"
      /\ UNCHANGED <<pending, schedulerVars, managerVars, engineVars>>
  BY DEF Submit
<1>3. UNCHANGED <<queued, admitted, session, executing, coordinator>>
        /\ Coordinating /\ Coordinating'
  BY <1>2 DEF schedulerVars, managerVars, engineVars, Coordinating
<1>4. Sound(d) /\ StartTokens(d) = 0 BY <1>2, <1>3 DEF WaitInv, Sound, Remembered
<1>5. session[d] = "NONE" BY <1>2 DEF LifecycleInv, ExecutionOwned, Begun
<1>6. ASSUME NEW s \in {"VALIDATED", "ROUTING", "QUEUED"}, SetState(d, s),
             StartTokens(d)' = IF s \in NotYet THEN 1 ELSE 0,
             \A c \in Context \ {d} : StartTokens(c) <= 1 => StartTokens(c)' = StartTokens(c)
      PROVE  WaitInv'
  <2>. DEFINE r == [context[d] EXCEPT !.state = s]
  <2>1. SetContext(d, r) BY <1>6 DEF SetState
  <2>2. s \in ContextState \cup {"NEW"} BY DEF ContextState, Waiting
  <2>3. r \in ContextRecord /\ r.state = s /\ r.stale = context[d].stale
    BY <1>1, <2>2, StateOnly, StateLeaves
  <2>. HIDE DEF r
  <2>4. context'[d] = r /\ \A c \in Context \ {d} : context'[c] = context[c]
    BY <1>1, <2>1, <2>3, SetKeeps
  <2>5. ASSUME NEW c \in Context \ {d} PROVE Sound(c)'
    <3>1. Alone(c) BY <1>2, <1>3, <2>4 DEF Alone
    <3>2. Passed(c) BY <1>3, <1>6 DEF Passed
    <3>. QED BY <1>3, <3>1, <3>2, Bystander DEF WaitInv
  <2>6. Sound(d)'
    <3>1. s # "NEW" OBVIOUS
    <3>2. Remembered(d)' BY <1>6, <2>3, <2>4, <3>1 DEF Remembered, NotYet
    <3>3. ASSUME ~ r.stale PROVE Pended(d)' /\ Cleared(d)'
      <4>1. PlacementAgrees(d) /\ Cleared(d) BY <1>4, <2>3, <3>3 DEF Sound, Pended
      <4>2. d \notin pending BY <1>2, <4>1 DEF PlacementAgrees
      <4>3. ~ Local(d) BY <1>2 DEF Local, Registered
      <4>4. Pended(d)' BY <1>2, <1>3, <1>5, <2>3, <2>4, <4>2 DEF Pended, PlacementAgrees
      <4>5. Cleared(d)' BY <1>2, <1>3, <4>1, <4>3 DEF Cleared
      <4>. QED BY <4>4, <4>5
    <3>. QED BY <2>3, <2>4, <3>2, <3>3 DEF Sound
  <2>. QED BY <2>5, <2>6 DEF WaitInv
<1>7. ASSUME \/ active' = Append(active, Arrived(d)) /\ UNCHANGED submissions
             \/ submissions' = Append(submissions, Arrived(d)) /\ UNCHANGED active
      PROVE  /\ StartTokens(d)' = 1
             /\ \A c \in Context \ {d} : StartTokens(c) <= 1 => StartTokens(c)' = StartTokens(c)
  <2>1. \A c : StartTokens(c) + (IF c = d THEN 1 ELSE 0) <= 1
           => StartTokens(c)' = StartTokens(c) + (IF c = d THEN 1 ELSE 0)
    BY <1>1, <1>3, <1>7, ArrivalCounts
  <2>2. \A c : StartTokens(c) \in Nat
    <3>1. \A c : /\ StartTokens(c) = Underway(c) + Count(queued, c)
                 /\ Underway(c) \in Nat /\ Count(queued, c) \in Nat
      BY <1>1, TokensAre
    <3>. QED BY <3>1
  <2>3. StartTokens(d)' = 1 BY <1>4, <2>1
  <2>4. ASSUME NEW c \in Context \ {d}, StartTokens(c) <= 1 PROVE StartTokens(c)' = StartTokens(c)
    BY <2>1, <2>2, <2>4
  <2>. QED BY <2>3, <2>4
<1>8. ASSUME UNCHANGED <<active, submissions>>
      PROVE  \A c : StartTokens(c)' = StartTokens(c)
  BY <1>3, <1>8 DEF StartTokens, Count
<1>9. CASE /\ SetState(d, "VALIDATED") /\ active' = Append(active, <<"Registered", d>>)
           /\ UNCHANGED submissions
  <2>1. active' = Append(active, Arrived(d)) BY <1>9 DEF Arrived
  <2>. QED BY <1>6, <1>7, <1>9, <2>1 DEF NotYet
<1>10. CASE SetState(d, "ROUTING") /\ UNCHANGED <<active, submissions>>
  BY <1>4, <1>6, <1>8, <1>10 DEF NotYet
<1>11. CASE /\ SetState(d, "QUEUED") /\ submissions' = Append(submissions, <<"Registered", d>>)
            /\ UNCHANGED active
  <2>1. submissions' = Append(submissions, Arrived(d)) BY <1>11 DEF Arrived
  <2>. QED BY <1>6, <1>7, <1>11, <2>1 DEF NotYet
<1>. QED BY <1>9, <1>10, <1>11 DEF Submit

LEMMA ReportSound ==
    ASSUME LifecycleInv, LifecycleInv', WaitInv, NEW d \in Context, Report(d)
    PROVE  WaitInv'
<1>1. /\ session[d] = "DISPATCHED" /\ session' = [session EXCEPT ![d] = "REPORTED"]
      /\ UNCHANGED executing
  BY DEF Report
<1>2. TypeOK BY DEF LifecycleInv
<1>3. \A c \in Context : /\ session'[c] = "NONE" <=> session[c] = "NONE"
                         /\ session'[c] = "WAITING" <=> session[c] = "WAITING"
  BY <1>1, <1>2 DEF TypeOK
<1>4. CASE Coordinating
  <2>. DEFINE e == <<"Retrieve", d>>
  <2>1. e \in Message /\ \A c \in Context : e \notin WayMessages(c)
    BY IsMessage, NoWay DEF MessageType, AcceptedDuringShutdown
  <2>2. Enqueue(e) BY <1>4 DEF Report
  <2>. HIDE DEF e
  <2>. QED BY <1>1, <1>3, <2>1, <2>2, EnqueueSound
<1>5. CASE ~ Coordinating
  <2>1. UNCHANGED <<context, pending, coordinator>> BY <1>5 DEF Report, registryVars
  <2>2. ~ Coordinating' BY <1>5, <2>1 DEF Coordinating
  <2>3. \A c \in Context : Pended(c) => Pended(c)'
    BY <1>1, <1>3, <2>1 DEF Pended, PlacementAgrees
  <2>4. \A c \in Context : context'[c] = context[c] BY <2>1
  <2>. QED BY <2>2, <2>3, <2>4, LostSound DEF WaitInv
<1>. QED BY <1>4, <1>5

LEMMA UserSound ==
    ASSUME LifecycleInv, LifecycleInv', WaitInv, User PROVE WaitInv'
<1>1. plan \in Instances BY DEF LifecycleInv, Registrations
<1>2. ASSUME NEW d \in Context, ReceiveSnapshot(d) PROVE WaitInv'
  BY <1>2, GiveSound DEF ReceiveSnapshot
<1>3. ASSUME NEW d \in Context, NEW type \in plan.commands, GiveCommand(type, d) PROVE WaitInv'
  <2>1. plan.commands \subseteq ControlCommand BY <1>1, ConstantsAssumption
  <2>. QED BY <1>3, <2>1, GiveSound DEF GiveCommand
<1>4. ASSUME NEW kind \in plan.shutdowns, RequestShutdown(kind) PROVE WaitInv'
  <2>. DEFINE e == <<"Shutdown", kind>>
  <2>1. kind \in {"GRACEFUL", "FORCED"}
    <3>1. plan.shutdowns \subseteq {"GRACEFUL", "FORCED"} BY <1>1, ConstantsAssumption
    <3>. QED BY <3>1
  <2>2. e \in Message /\ \A c \in Context : e \notin WayMessages(c)
    BY <2>1, IsMessage, NoWay DEF MessageType, AcceptedDuringShutdown
  <2>3. Enqueue(e) /\ UNCHANGED managerVars BY <1>4 DEF RequestShutdown
  <2>. HIDE DEF e
  <2>. QED BY <2>2, <2>3, EnqueueSound DEF managerVars
<1>. QED BY <1>2, <1>3, <1>4, SubmitSound DEF User

LEMMA TimersSound ==
    ASSUME LifecycleInv, LifecycleInv', WaitInv, ReconcileTimer \/ NotifyRelease PROVE WaitInv'
<1>. DEFINE e == ReconcileMessage
<1>1. e \in Message /\ \A c \in Context : e \notin WayMessages(c)
  BY IsMessage, NoWay DEF ReconcileMessage, MessageType
<1>2. Enqueue(e) /\ UNCHANGED managerVars BY DEF ReconcileTimer, NotifyRelease
<1>. HIDE DEF e
<1>. QED BY <1>1, <1>2, EnqueueSound DEF managerVars

-----------------------------------------------------------------------------
(* Without the coordinator.                                                   *)

LEMMA UnmovedSound ==
    ASSUME WaitInv, ~ Coordinating', UNCHANGED <<context, pending, session, executing>>
    PROVE  WaitInv'
<1>1. \A c \in Context : context'[c] = context[c] /\ (Pended(c) => Pended(c)')
  BY DEF Pended, PlacementAgrees
<1>. QED BY <1>1, LostSound DEF WaitInv

LEMMA AbortedSound ==
    ASSUME LifecycleInv, WaitInv, NEW d \in Context, EmergencyAbort(d) \/ EmergencyConclude(d)
    PROVE  WaitInv'
<1>1. TypeOK /\ context[d] \in ContextRecord BY KnownRecord DEF LifecycleInv
<1>2. ~ Coordinating'
  <2>1. coordinator' \in {"LOST", "LOST_STOPPING", "EMERGENCY"}
    <3>1. coordinator' \in {coordinator, "EMERGENCY"}
      BY DEF EmergencyAbort, EmergencyConclude, engineVars
    <3>. QED BY <3>1 DEF EmergencyAbort, EmergencyConclude, Lost
  <2>. QED BY <2>1 DEF Coordinating
<1>3. pending' = pending \ {d} /\ UNCHANGED <<session, executing>>
  BY DEF EmergencyAbort, EmergencyConclude, managerVars
<1>4. PICK s \in {"ABORTING", "ABORTED"} :
        /\ context' = [context EXCEPT ![d] = [context[d] EXCEPT !.state = s]]
        /\ s = "ABORTED" => session[d] = "NONE"
  BY NotBegun DEF EmergencyAbort, EmergencyConclude, SetState, SetContext
<1>. DEFINE r == [context[d] EXCEPT !.state = s]
<1>5. s \in ContextState \cup {"NEW"} BY DEF ContextState, Draining, Terminal
<1>6. r.state = s /\ r.stale = context[d].stale BY <1>1, <1>5, StateOnly, StateLeaves
<1>7. context'[d] = r /\ \A c \in Context \ {d} : context'[c] = context[c] BY <1>1, <1>4 DEF TypeOK
<1>. HIDE DEF r
<1>8. Pended(d)'
  BY <1>3, <1>4, <1>6, <1>7 DEF Pended, PlacementAgrees, Draining, Terminal
<1>9. \A c \in Context \ {d} : Pended(c) => Pended(c)' BY <1>3, <1>7 DEF Pended, PlacementAgrees
<1>10. \A c \in Context : Sound(c)' BY <1>2, <1>6, <1>7, <1>8, <1>9, LostSound
<1>. QED BY <1>10 DEF WaitInv

LEMMA ReclaimedSound ==
    ASSUME LifecycleInv, WaitInv, NEW d \in Context, EmergencyReclaim(d)
    PROVE  WaitInv'
<1>1. TypeOK /\ context[d] \in ContextRecord BY KnownRecord DEF LifecycleInv
<1>2. /\ coordinator' = "EMERGENCY" /\ pending' = pending \ {d} /\ UNCHANGED <<session, executing>>
      /\ ~ context[d].local
  BY DEF EmergencyReclaim, managerVars
<1>3. PICK raises \in BOOLEAN : SetContext(d, Reclaimed(d, raises)) BY DEF EmergencyReclaim, Reclaimed
<1>4. ~ Coordinating' BY <1>2 DEF Coordinating
<1>. DEFINE r == Reclaimed(d, raises)
<1>5. r \in ContextRecord /\ r.state \in {"QUEUED", context[d].state} /\ (context[d].stale => r.stale)
  BY <1>1, ReassignedIsRecord, ReassignedLeaves DEF Reclaimed
<1>6. ~ r.local \/ r.state = "QUEUED" BY <1>1, <1>2, ReassignedIsRecord DEF Reclaimed
<1>. HIDE DEF r
<1>7. context'[d] = r /\ \A c \in Context \ {d} : context'[c] = context[c]
  BY <1>1, <1>3, <1>5, SetKeeps DEF r
<1>8. session[d] = "NONE" BY <1>2, NotBegun
<1>9. Pended(d) => Pended(d)' BY <1>2, <1>6, <1>7, <1>8 DEF Pended, PlacementAgrees
<1>10. \A c \in Context \ {d} : Pended(c) => Pended(c)' BY <1>2, <1>7 DEF Pended, PlacementAgrees
<1>11. \A c \in Context : Sound(c)' BY <1>4, <1>5, <1>7, <1>9, <1>10, LostSound
<1>. QED BY <1>11 DEF WaitInv

LEMMA RecoveredSound ==
    ASSUME LifecycleInv, WaitInv, Recover PROVE WaitInv'
<1>. DEFINE R == {c \in executing : context[c].state \in Draining \cup Terminal}
<1>1. TypeOK BY DEF LifecycleInv
<1>2. ~ Coordinating' BY DEF Recover, Coordinating
<1>3. /\ \A c \in Context : session[c] # "DISPATCHED"
      /\ context' = [c \in Context |-> IF c \in R /\ Registered(c)
                                       THEN [context[c] EXCEPT !.state = Outcome(c)]
                                       ELSE context[c]]
      /\ pending' = pending \ R /\ Leave(R)
  BY DEF Recover
<1>4. executing' = executing \ R
        /\ \A c \in Context : session'[c] = IF c \in R THEN "NONE" ELSE session[c]
  BY <1>3 DEF Leave
<1>. SUFFICES ASSUME NEW c \in Context PROVE Sound(c)' BY DEF WaitInv
<1>5. context[c] \in ContextRecord BY <1>1, KnownRecord
<1>6. CASE c \in R
  <2>1. context'[c].stale = context[c].stale /\ context'[c].state # "PLACEMENT_WAITING"
    <3>1. CASE Registered(c)
      <4>1. context'[c] = [context[c] EXCEPT !.state = Outcome(c)] BY <1>3, <1>6, <3>1
      <4>2. Outcome(c) # "PLACEMENT_WAITING" BY DEF Outcome
      <4>. QED BY <1>5, <4>1, <4>2, OutcomeIsState, StateOnly, StateLeaves
    <3>2. CASE ~ Registered(c)
      <4>1. context'[c] = context[c] BY <1>3, <3>2
      <4>. QED BY <1>6, <4>1 DEF Draining, Terminal
    <3>. QED BY <3>1, <3>2
  <2>2. Pended(c)' BY <1>3, <1>4, <1>6, <2>1 DEF Pended, PlacementAgrees
  <2>. QED BY <1>2, <2>1, <2>2, LostSound
<1>7. CASE c \notin R
  <2>1. context'[c] = context[c] /\ session'[c] = session[c]
          /\ (c \in pending' <=> c \in pending) /\ (c \in executing' <=> c \in executing)
    BY <1>3, <1>4, <1>7
  <2>. HIDE DEF R
  <2>2. Pended(c) => Pended(c)' BY <2>1 DEF Pended, PlacementAgrees
  <2>. QED BY <1>2, <2>1, <2>2, LostSound
<1>. QED BY <1>6, <1>7

LEMMA EmergencySound ==
    ASSUME LifecycleInv, WaitInv, Emergency \/ ForcedTimeout PROVE WaitInv'
<1>1. ASSUME EmergencyReady \/ ForcedTimeout PROVE WaitInv'
  <2>1. coordinator' \in {"LOST", "LOST_STOPPING", "EMERGENCY"}
    BY <1>1 DEF EmergencyReady, ForcedTimeout, Lose
  <2>2. UNCHANGED <<context, pending, session, executing>>
    BY <1>1 DEF EmergencyReady, ForcedTimeout, registryVars, managerVars
  <2>. QED BY <2>1, <2>2, UnmovedSound DEF Coordinating
<1>. QED BY <1>1, AbortedSound, ReclaimedSound, RecoveredSound DEF Emergency

-----------------------------------------------------------------------------
(* Steps that change the records of many contexts.                            *)

(* The record r of d after such a step: unknown contexts stay unknown, known  *)
(* ones end or wait as before.                                                *)
Turned(d, r) ==
    /\ r \in ContextRecord /\ r.stale = context[d].stale
    /\ ~ Registered(d) => r.state = context[d].state
    /\ Registered(d) => r.state # "NEW"
    /\ Registered(d) /\ r.state \notin Terminal =>
          /\ r.local = context[d].local
          /\ r.state \in NotYet <=> context[d].state \in NotYet

(* It suits the requests that stay pending, and the session after the step.   *)
Agreed(d, r, requests) ==
    /\ d \in requests => /\ session'[d] = "WAITING" /\ d \in executing'
                         /\ r.state \in {"PLACEMENT_WAITING", "PAUSED", "ABORTING"}
    /\ r.state = "PLACEMENT_WAITING" => d \in requests \/ ~ r.local
    /\ session'[d] = "WAITING" => d \in requests \/ r.state \in Draining \cup Terminal
    /\ session'[d] # "NONE" => r.state \notin Terminal

(* A session is held by a context of this engine that has begun.              *)
Held(d, r) == session'[d] # "NONE" => r.local /\ r.state \notin Waiting

LEMMA GentleShut ==
    ASSUME NEW d \in Context, NEW r, NEW requests, Turned(d, r), Held(d, r)
    PROVE  /\ Turned(d, Shut(d, r, FALSE, requests))
           /\ Agreed(d, r, requests) => Agreed(d, Shut(d, r, FALSE, requests), requests)
<1>. DEFINE t == Shut(d, r, FALSE, requests)
            u == Stopped(d, r, requests)
            kept == r.state \in Draining \cup Terminal \cup {"NEW"} \/ ~ r.local
<1>1. r \in ContextRecord BY DEF Turned
<1>2. t = IF kept THEN r ELSE u BY DEF Shut
<1>3. /\ u \in ContextRecord /\ u.local = r.local /\ u.stale = r.stale
      /\ u.state = IF r.state \in Waiting THEN "FINISHED"
                   ELSE IF r.state = "PAUSED" THEN Resumed(d, requests) ELSE r.state
  BY <1>1, StoppedIs
<1>. HIDE DEF t, u
<1>4. CASE kept
  <2>1. t = r BY <1>2, <1>4
  <2>. QED BY <2>1 DEF t
<1>5. CASE ~ kept /\ r.state \in Waiting
  <2>1. t = u /\ u.state = "FINISHED" BY <1>2, <1>3, <1>5
  <2>2. Registered(d) BY <1>5 DEF Turned, Registered
  <2>3. Turned(d, t) BY <1>3, <2>1, <2>2 DEF Turned, Terminal
  <2>4. session'[d] = "NONE" BY <1>5 DEF Held
  <2>5. Agreed(d, r, requests) => Agreed(d, t, requests) BY <2>1, <2>4 DEF Agreed
  <2>. QED BY <2>3, <2>5 DEF t
<1>6. CASE ~ kept /\ r.state = "PAUSED"
  <2>1. t = u /\ u.state = IF d \in requests THEN "PLACEMENT_WAITING" ELSE "RUNNING"
    BY <1>2, <1>3, <1>6 DEF Resumed, Waiting
  <2>2. Registered(d) BY <1>6 DEF Turned, Registered
  <2>3. Turned(d, t)
    <3>1. t.state \notin NotYet \cup Terminal \cup {"NEW"} /\ r.state \notin NotYet \cup Terminal
      BY <1>6, <2>1 DEF NotYet, Terminal
    <3>. QED BY <1>3, <2>1, <2>2, <3>1 DEF Turned
  <2>4. Agreed(d, r, requests) => Agreed(d, t, requests)
    BY <1>6, <2>1 DEF Agreed, Draining, Terminal
  <2>. QED BY <2>3, <2>4 DEF t
<1>7. CASE ~ kept /\ r.state \notin Waiting /\ r.state # "PAUSED"
  <2>1. t = u /\ u.state = r.state BY <1>2, <1>3, <1>7
  <2>2. Turned(d, t) BY <1>3, <2>1 DEF Turned
  <2>3. Agreed(d, r, requests) => Agreed(d, t, requests) BY <1>3, <2>1 DEF Agreed
  <2>. QED BY <2>2, <2>3 DEF t
<1>. QED BY <1>4, <1>5, <1>6, <1>7

LEMMA ForcedShut ==
    ASSUME NEW d \in Context, NEW r, NEW requests, Turned(d, r), Held(d, r)
    PROVE  /\ Turned(d, Shut(d, r, TRUE, requests))
           /\ Agreed(d, r, requests) => Agreed(d, Shut(d, r, TRUE, requests), requests)
<1>. DEFINE t == Shut(d, r, TRUE, requests)
            kept == r.state \in Terminal \cup {"NEW"} \/ (r.local /\ r.state \in Draining)
            s == IF r.local /\ r.state \notin Waiting THEN "ABORTING" ELSE "ABORTED"
            u == [r EXCEPT !.local = TRUE, !.state = s]
<1>1. r \in ContextRecord BY DEF Turned
<1>2. t = IF kept THEN r ELSE u BY <1>1 DEF Shut, ContextRecord
<1>3. s \in ContextState \cup {"NEW"} BY DEF ContextState, Draining, Terminal
<1>4. \/ (s = "ABORTING" /\ r.local /\ r.state \notin Waiting)
      \/ (s = "ABORTED" /\ ~ (r.local /\ r.state \notin Waiting))
  OBVIOUS
<1>. HIDE DEF s
<1>5. u \in ContextRecord /\ u.local = TRUE /\ u.stale = r.stale /\ u.state = s
  BY <1>1, <1>3 DEF ContextRecord
<1>. HIDE DEF t, u
<1>6. CASE kept
  <2>1. t = r BY <1>2, <1>6
  <2>. QED BY <2>1 DEF t
<1>7. CASE ~ kept
  <2>1. t = u /\ Registered(d) BY <1>2, <1>7 DEF Turned, Registered
  <2>2. CASE s = "ABORTING" /\ r.local /\ r.state \notin Waiting
    <3>1. t.state \notin NotYet \cup Terminal \cup {"NEW"} /\ t.state \in Draining /\ t.state = "ABORTING"
            /\ r.state \notin NotYet \cup Terminal
      BY <1>5, <1>7, <2>1, <2>2 DEF NotYet, Terminal, Draining, Waiting
    <3>2. Turned(d, t) BY <1>5, <2>1, <2>2, <3>1 DEF Turned
    <3>3. Agreed(d, r, requests) => Agreed(d, t, requests) BY <3>1 DEF Agreed
    <3>. QED BY <3>2, <3>3 DEF t
  <2>3. CASE s = "ABORTED" /\ ~ (r.local /\ r.state \notin Waiting)
    <3>1. session'[d] = "NONE" BY <2>3 DEF Held
    <3>2. t.state = "ABORTED" /\ t.state \in Terminal BY <1>5, <2>1, <2>3 DEF Terminal
    <3>3. Turned(d, t) BY <1>5, <2>1, <3>2 DEF Turned
    <3>4. Agreed(d, r, requests) => Agreed(d, t, requests) BY <3>1, <3>2 DEF Agreed
    <3>. QED BY <3>3, <3>4 DEF t
  <2>. QED BY <1>4, <2>2, <2>3
<1>. QED BY <1>6, <1>7

(* What the step keeps of d in the scheduler and among the requests.          *)
Ends(d, r) == Registered(d) /\ r.state \in Terminal

Kept(d, r, requests) ==
    /\ d \in pending' => d \in requests /\ ~ Ends(d, r)
    /\ ~ r.stale /\ d \in requests /\ ~ Ends(d, r) => (d \in pending' <=> r.state # "ABORTING")
    /\ d \in admitted' => d \in admitted /\ ~ Ends(d, r)
    /\ Holds(queued', d) => Holds(queued, d) /\ ~ Ends(d, r)
    /\ ~ Ends(d, r) /\ (Registered(d) => context[d].local) /\ StartTokens(d) <= 1
         => StartTokens(d)' = StartTokens(d)

LEMMA TurnedSound ==
    ASSUME NEW d \in Context, Sound(d), NEW r, context'[d] = r, Coordinating' => Coordinating,
           NEW requests \in SUBSET pending,
           Turned(d, r), ~ r.stale => Agreed(d, r, requests), Kept(d, r, requests)
    PROVE  Sound(d)'
<1>1. /\ r.stale = context[d].stale
      /\ ~ Registered(d) => r.state = context[d].state
      /\ Registered(d) => r.state # "NEW"
      /\ Registered(d) /\ r.state \notin Terminal =>
           /\ r.local = context[d].local
           /\ r.state \in NotYet <=> context[d].state \in NotYet
  BY DEF Turned
<1>2. Local(d)' <=> Local(d) /\ ~ Ends(d, r) BY <1>1 DEF Local, Registered, Ends
<1>3. ~ Ends(d, r) /\ (Registered(d) => context[d].local) /\ StartTokens(d) <= 1
        => StartTokens(d)' = StartTokens(d)
  BY DEF Kept
<1>4. Remembered(d)'
  <2>. SUFFICES ASSUME Coordinating'
                PROVE  /\ r.state = "NEW" => StartTokens(d)' = 0
                       /\ Local(d)' /\ ~ r.stale =>
                            StartTokens(d)' = IF r.state \in NotYet THEN 1 ELSE 0
    BY DEF Remembered, NotYet
  <2>1. Remembered(d) /\ Coordinating BY DEF Sound
  <2>2. r.state = "NEW" => StartTokens(d)' = 0
    <3>1. r.state = "NEW" => context[d].state = "NEW" /\ ~ Registered(d) /\ ~ Ends(d, r)
      BY <1>1 DEF Ends
    <3>. QED BY <1>3, <2>1, <3>1 DEF Remembered
  <2>3. ASSUME Local(d)', ~ r.stale PROVE StartTokens(d)' = IF r.state \in NotYet THEN 1 ELSE 0
    <3>1. Local(d) /\ ~ Ends(d, r) /\ ~ context[d].stale BY <1>1, <1>2, <2>3
    <3>2. StartTokens(d) = IF context[d].state \in NotYet THEN 1 ELSE 0
      BY <2>1, <3>1 DEF Remembered, NotYet
    <3>3. r.state \in NotYet <=> context[d].state \in NotYet BY <1>1, <3>1 DEF Local, Ends
    <3>4. context[d].local BY <3>1 DEF Local
    <3>. QED BY <1>3, <3>1, <3>2, <3>3, <3>4
  <2>. QED BY <2>2, <2>3
<1>5. ASSUME ~ r.stale PROVE Pended(d)' /\ Cleared(d)'
  <2>1. Agreed(d, r, requests) /\ Cleared(d) BY <1>1, <1>5 DEF Sound
  <2>2. Pended(d)'
    <3>1. d \in pending' <=> d \in requests /\ ~ Ends(d, r) /\ r.state # "ABORTING"
      BY <1>5 DEF Kept
    <3>2. /\ d \in requests => /\ session'[d] = "WAITING" /\ d \in executing'
                               /\ r.state \in {"PLACEMENT_WAITING", "PAUSED", "ABORTING"}
          /\ r.state = "PLACEMENT_WAITING" => d \in requests \/ ~ r.local
          /\ session'[d] = "WAITING" => d \in requests \/ r.state \in Draining \cup Terminal
          /\ session'[d] # "NONE" => r.state \notin Terminal
      BY <2>1 DEF Agreed
    <3>. QED BY <3>1, <3>2 DEF Pended, PlacementAgrees, Draining, Terminal, Ends
  <2>3. Cleared(d)'
    <3>1. ASSUME Coordinating', ~ Local(d)'
          PROVE  d \notin pending' \cup admitted' /\ ~ Holds(queued', d)
      <4>1. CASE Ends(d, r) BY <4>1 DEF Kept
      <4>2. CASE ~ Ends(d, r)
        <5>1. ~ Local(d) BY <1>2, <3>1, <4>2
        <5>2. d \notin pending \cup admitted /\ ~ Holds(queued, d) BY <2>1, <3>1, <5>1 DEF Cleared
        <5>. QED BY <5>2 DEF Kept
      <4>. QED BY <4>1, <4>2
    <3>. QED BY <3>1 DEF Cleared
  <2>. QED BY <2>2, <2>3
<1>. QED BY <1>4, <1>5 DEF Sound

(* Those whom the records end.                                                *)
Concluded(records) == {c \in Context : Registered(c) /\ records[c].state \in Terminal}

LEMMA AppliedSound ==
    ASSUME LifecycleInv, WaitInv, NEW records, NEW requests \in SUBSET pending,
           Apply(records, requests), Coordinating' => Coordinating,
           \A d \in Context : /\ Turned(d, records[d])
                              /\ ~ context[d].stale => Agreed(d, records[d], requests),
           \A d \in Context \ Concluded(records) :
              (Registered(d) => context[d].local) /\ StartTokens(d) <= 1
                => StartTokens(d)' = StartTokens(d)
    PROVE  WaitInv'
<1>. DEFINE finals == Concluded(records)
            aborting == {c \in Context : records[c].state = "ABORTING"}
<1>1. /\ context' = records /\ pending' = requests \ (finals \cup aborting)
      /\ queued' = Without(queued, finals) /\ admitted' = admitted \ finals
  BY DEF Apply, Concluded
<1>2. queued \in Seq(Context) BY DEF LifecycleInv, TypeOK
<1>3. \A d : Holds(queued', d) => Holds(queued, d) /\ d \notin finals
  <2>1. \A i \in DOMAIN queued' : queued'[i] \notin finals /\ \E j \in DOMAIN queued : queued[j] = queued'[i]
    BY <1>1, <1>2, WithoutKeeps
  <2>. QED BY <2>1 DEF Holds
<1>. SUFFICES ASSUME NEW d \in Context PROVE Sound(d)' BY DEF WaitInv
<1>. DEFINE r == records[d]
<1>4. Turned(d, r) /\ (~ context[d].stale => Agreed(d, r, requests)) /\ Sound(d) /\ context'[d] = r
  BY <1>1 DEF WaitInv
<1>5. d \in finals <=> Ends(d, r) BY DEF Concluded, Ends
<1>6. d \in aborting <=> r.state = "ABORTING" OBVIOUS
<1>7. d \notin finals /\ (Registered(d) => context[d].local) /\ StartTokens(d) <= 1
        => StartTokens(d)' = StartTokens(d)
  OBVIOUS
<1>. HIDE DEF r, finals, aborting
<1>8. Kept(d, r, requests) BY <1>1, <1>3, <1>5, <1>6, <1>7 DEF Kept
<1>9. r.stale = context[d].stale BY <1>4 DEF Turned
<1>. QED BY <1>4, <1>8, <1>9, TurnedSound

LEMMA AsItWas ==
    ASSUME LifecycleInv, WaitInv, UNCHANGED <<session, executing>>, NEW d \in Context
    PROVE  /\ Turned(d, context[d]) /\ Held(d, context[d])
           /\ ~ context[d].stale => Agreed(d, context[d], pending)
<1>1. context[d] \in ContextRecord /\ ExecutionOwned BY KnownRecord DEF LifecycleInv
<1>2. Turned(d, context[d]) BY <1>1 DEF Turned, Registered
<1>3. Held(d, context[d]) BY <1>1 DEF Held, ExecutionOwned, Begun
<1>4. ASSUME ~ context[d].stale PROVE Agreed(d, context[d], pending)
  <2>1. Pended(d) BY <1>4 DEF WaitInv, Sound
  <2>. QED BY <2>1 DEF Agreed, Pended, PlacementAgrees
<1>. QED BY <1>2, <1>3, <1>4

(* A shutdown lets those who have ended go, and is on nobody's way.           *)
LEMMA ShutdownPasses ==
    ASSUME TypeOK, TypeOK', Registrations, HasMessage, NEW kind, NextMessage = <<"Shutdown", kind>>,
           NEW more \in Seq(RegisteredMessage), Consume(<< >>, more),
           NEW finals, queued' = Without(queued, finals),
           NEW d \in Context \ finals, Count(more, Arrived(d)) = 0, StartTokens(d) <= 1
    PROVE  StartTokens(d)' = StartTokens(d)
<1>1. /\ StartTokens(d) = Underway(d) + Count(queued, d)
      /\ Underway(d) \in Nat /\ Count(queued, d) \in Nat
  BY TokensAre
<1>2. << >> \in Seq(Message) /\ Brings(<< >>, d) = 0 BY EmptyIsQuiet, EmptyCounts DEF Quietly, Brings
<1>3. Hand(d) = 0 BY NobodysHand
<1>4. Underway(d) <= 1 /\ Count(queued, d) <= 1
        /\ Underway(d) - Hand(d) + Brings(<< >>, d) + Count(more, Arrived(d)) <= 1
  BY <1>1, <1>2, <1>3
<1>5. Underway(d)' = Underway(d) - Hand(d) + Brings(<< >>, d) + Count(more, Arrived(d))
  BY <1>2, <1>4, UnderwayAfter
<1>6. Underway(d)' = Underway(d) BY <1>1, <1>2, <1>3, <1>5
<1>7. Count(queued', d) = Count(queued, d)
  <2>1. queued \in Seq(Context) BY DEF TypeOK
  <2>. QED BY <1>4, <2>1, WithoutCounts
<1>8. StartTokens(d)' = Underway(d)' + Count(queued', d) BY TokensBecome
<1>. QED BY <1>1, <1>6, <1>7, <1>8

LEMMA ShutdownSound ==
    ASSUME LifecycleInv, LifecycleInv', WaitInv, HandleShutdown PROVE WaitInv'
<1>. DEFINE told == [c \in Context |-> IF c \in Authority THEN context[c]
                                       ELSE Shut(c, context[c], FALSE, pending)]
            records == WithAuthority(told, pending)
<1>1. TypeOK /\ TypeOK' /\ Registrations /\ HasMessage /\ Coordinating
        /\ NextMessage = <<"Shutdown", "GRACEFUL">>
  BY DEF LifecycleInv, HandleShutdown, Receive
<1>2. Apply(records, pending) /\ Consume(<< >>, << >>) /\ UNCHANGED <<session, executing>>
  BY DEF HandleShutdown, managerVars

<1>3. ASSUME NEW d \in Context
      PROVE  /\ Turned(d, records[d])
             /\ ~ context[d].stale => Agreed(d, records[d], pending)
  <2>. DEFINE r == context[d]
              t == Shut(d, r, FALSE, pending)
  <2>1. Turned(d, r) /\ Held(d, r) /\ (~ context[d].stale => Agreed(d, r, pending))
    BY <1>1, <1>2, AsItWas
  <2>2. records[d] = r \/ records[d] = t
    <3>1. told[d] = IF d \in Authority THEN r ELSE t OBVIOUS
    <3>. HIDE DEF told
    <3>2. records[d] = IF d \in Authority /\ Over(told, Context \ Authority)
                       THEN Shut(d, told[d], FALSE, pending) ELSE told[d]
      BY DEF WithAuthority
    <3>. QED BY <3>1, <3>2
  <2>. HIDE DEF r
  <2>3. Turned(d, t) /\ (Agreed(d, r, pending) => Agreed(d, t, pending)) BY <2>1, GentleShut
  <2>. HIDE DEF t, records
  <2>. QED BY <2>1, <2>2, <2>3
<1>. HIDE DEF records
<1>4. << >> \in Seq(RegisteredMessage) /\ \A d : Count(<< >>, Arrived(d)) = 0
  BY EmptyIsQuiet, EmptyCounts
<1>5. queued' = Without(queued, Concluded(records)) BY <1>2 DEF Apply, Concluded
<1>6. \A d \in Context \ Concluded(records) :
        StartTokens(d) <= 1 => StartTokens(d)' = StartTokens(d)
  BY <1>1, <1>2, <1>4, <1>5, ShutdownPasses
<1>7. pending \in SUBSET pending OBVIOUS
<1>. QED BY <1>1, <1>2, <1>3, <1>6, <1>7, AppliedSound

(* Those taken back are registered, and nobody else.                          *)
LEMMA ReturnsBringNothing ==
    ASSUME NEW D \in SUBSET Context
    PROVE  LET sent == SetToSeq({<<"Registered", c>> : c \in D}) IN
           /\ sent \in Seq(RegisteredMessage)
           /\ \A d \in Context \ D : Count(sent, Arrived(d)) = 0
<1>. DEFINE M == {<<"Registered", c>> : c \in D}
            sent == SetToSeq(M)
<1>1. sent \in Seq(M)
  <2>1. IsFiniteSet(M) BY MessagesAreFinite DEF Messages
  <2>. HIDE DEF M
  <2>. QED BY <2>1, SetToSeqKeeps
<1>2. M \subseteq RegisteredMessage BY DEF RegisteredMessage
<1>3. \A d \in Context \ D : Arrived(d) \notin M BY DEF Arrived
<1>. HIDE DEF M, sent
<1>4. sent \in Seq(RegisteredMessage) BY <1>1, <1>2
<1>5. \A i \in DOMAIN sent : sent[i] \in M BY <1>1
<1>6. \A d \in Context \ D : ~ Holds(sent, Arrived(d)) BY <1>3, <1>5 DEF Holds
<1>7. \A d \in Context \ D : Count(sent, Arrived(d)) = 0 BY <1>4, <1>6, CountIs
<1>. QED BY <1>4, <1>7 DEF sent, M

LEMMA ForcedShutdownSound ==
    ASSUME LifecycleInv, LifecycleInv', WaitInv, HandleForcedShutdown PROVE WaitInv'
<1>. DEFINE away == {c \in Context : Registered(c) /\ ~ context[c].local}
            more == SetToSeq({<<"Registered", c>> : c \in away})
            records == [c \in Context |-> Shut(c, context[c], TRUE, pending)]
<1>1. TypeOK /\ TypeOK' /\ Registrations /\ HasMessage /\ Coordinating
        /\ NextMessage = <<"Shutdown", "FORCED">>
  BY DEF LifecycleInv, HandleForcedShutdown, Receive
<1>2. Apply(records, pending) /\ Consume(<< >>, more) /\ UNCHANGED <<session, executing>>
  BY DEF HandleForcedShutdown, managerVars
<1>3. ASSUME NEW d \in Context
      PROVE  /\ Turned(d, records[d])
             /\ ~ context[d].stale => Agreed(d, records[d], pending)
  <2>. DEFINE r == context[d]
              t == Shut(d, r, TRUE, pending)
  <2>1. Turned(d, r) /\ Held(d, r) /\ (~ context[d].stale => Agreed(d, r, pending))
    BY <1>1, <1>2, AsItWas
  <2>2. records[d] = t OBVIOUS
  <2>. HIDE DEF r, records
  <2>3. Turned(d, t) /\ (Agreed(d, r, pending) => Agreed(d, t, pending)) BY <2>1, ForcedShut
  <2>. HIDE DEF t
  <2>. QED BY <2>1, <2>2, <2>3
<1>. HIDE DEF records
<1>4. /\ more \in Seq(RegisteredMessage)
      /\ \A d \in Context \ away : Count(more, Arrived(d)) = 0
  <2>. DEFINE D == away
  <2>1. D \in SUBSET Context OBVIOUS
  <2>. HIDE DEF D
  <2>2. LET sent == SetToSeq({<<"Registered", c>> : c \in D}) IN
        /\ sent \in Seq(RegisteredMessage) /\ \A d \in Context \ D : Count(sent, Arrived(d)) = 0
    BY <2>1, ReturnsBringNothing
  <2>. QED BY <2>2 DEF D
<1>5. \A d \in Context : (Registered(d) => context[d].local) => d \notin away OBVIOUS
<1>. HIDE DEF more, away
<1>6. queued' = Without(queued, Concluded(records)) BY <1>2 DEF Apply, Concluded
<1>7. \A d \in Context \ Concluded(records) :
        (Registered(d) => context[d].local) /\ StartTokens(d) <= 1
          => StartTokens(d)' = StartTokens(d)
  BY <1>1, <1>2, <1>4, <1>5, <1>6, ShutdownPasses
<1>8. pending \in SUBSET pending OBVIOUS
<1>. QED BY <1>1, <1>2, <1>3, <1>7, <1>8, AppliedSound

(* More messages that are not about the way of d.                             *)
LEMMA MorePasses ==
    ASSUME TypeOK, TypeOK', UNCHANGED submissions,
           NEW sent \in Seq(Message), active' = active \o sent, NEW d, Brings(sent, d) = 0,
           StartTokens(d) <= 1, Count(queued, d) <= 1 => Count(queued', d) = Count(queued, d)
    PROVE  StartTokens(d)' = StartTokens(d)
<1>1. active \in Seq(Message) /\ submissions \in Seq(Message) BY DEF TypeOK
<1>2. /\ StartTokens(d) = Underway(d) + Count(queued, d)
      /\ Underway(d) \in Nat /\ Count(queued, d) \in Nat
  BY TokensAre
<1>3. StartTokens(d)' = Underway(d)' + Count(queued', d) BY TokensBecome
<1>4. Underway(d) <= 1 /\ Count(queued', d) = Count(queued, d) BY <1>2
<1>. DEFINE s0 == Count(submissions, Arrived(d))
            a0 == Count(active, Arrived(d))
            a1 == Count(active, Let(d))
            a2 == Count(active, Begin(d))
            t0 == Count(sent, Arrived(d))
            t1 == Count(sent, Let(d))
            t2 == Count(sent, Begin(d))
<1>5. s0 \in Nat /\ a0 \in Nat /\ a1 \in Nat /\ a2 \in Nat /\ t0 \in Nat /\ t1 \in Nat /\ t2 \in Nat
  BY <1>1, CountIs
<1>6. Underway(d) = s0 + a0 + a1 + a2 /\ t0 + t1 + t2 = 0 BY DEF Underway, Brings
<1>7. t0 = 0 /\ t1 = 0 /\ t2 = 0 /\ a0 <= 1 /\ a1 <= 1 /\ a2 <= 1
  <2>. HIDE DEF s0, a0, a1, a2, t0, t1, t2
  <2>. QED BY <1>4, <1>5, <1>6
<1>8. a0 + t0 <= 1 /\ a1 + t1 <= 1 /\ a2 + t2 <= 1
  <2>. HIDE DEF s0, a0, a1, a2, t0, t1, t2
  <2>. QED BY <1>5, <1>7
<1>9. /\ Count(active \o sent, Arrived(d)) = a0 + t0
      /\ Count(active \o sent, Let(d)) = a1 + t1
      /\ Count(active \o sent, Begin(d)) = a2 + t2
  BY <1>1, <1>8, ConcatCounts
<1>10. Underway(d)' = Count(submissions', Arrived(d))
          + Count(active', Arrived(d)) + Count(active', Let(d)) + Count(active', Begin(d))
  BY DEF Underway, Arrived, Let, Begin, Count
<1>11. Count(submissions', Arrived(d)) = s0 OBVIOUS
<1>12. Underway(d)' = s0 + (a0 + t0) + (a1 + t1) + (a2 + t2) BY <1>9, <1>10, <1>11
<1>. HIDE DEF s0, a0, a1, a2, t0, t1, t2
<1>13. Underway(d)' = Underway(d) BY <1>5, <1>6, <1>7, <1>12
<1>. QED BY <1>2, <1>3, <1>4, <1>13

LEMMA SettledIs ==
    ASSUME TypeOK, NEW P, NEW d \in Context
    PROVE  /\ SettledContexts(P)[d].stale = context[d].stale
           /\ \/ SettledContexts(P)[d] = context[d]
                    /\ (context[d].state = "PLACEMENT_WAITING" => d \notin P)
              \/ SettledContexts(P)[d].state = "RUNNING"
                    /\ context[d].state = "PLACEMENT_WAITING" /\ d \in P
           /\ SettledSessions(P)[d] = IF d \in P /\ session[d] = "WAITING" THEN "RESCHEDULED"
                                      ELSE session[d]
<1>. DEFINE r == [context[d] EXCEPT !.state = "RUNNING"]
            new == SettledContexts(P)[d]
<1>1. context[d] \in ContextRecord /\ "RUNNING" \in ContextState \cup {"NEW"}
  BY DEF TypeOK, ContextState, Running
<1>2. r.state = "RUNNING" /\ r.stale = context[d].stale BY <1>1, StateOnly, StateLeaves
<1>3. new = IF d \in P /\ context[d].state = "PLACEMENT_WAITING" THEN r ELSE context[d]
  BY DEF SettledContexts
<1>4. SettledSessions(P)[d] = IF d \in P /\ session[d] = "WAITING" THEN "RESCHEDULED"
                              ELSE session[d]
  BY DEF SettledSessions
<1>. HIDE DEF r, new
<1>5. /\ new.stale = context[d].stale
      /\ \/ new = context[d] /\ (context[d].state = "PLACEMENT_WAITING" => d \notin P)
         \/ new.state = "RUNNING" /\ context[d].state = "PLACEMENT_WAITING" /\ d \in P
  BY <1>2, <1>3
<1>. QED BY <1>4, <1>5 DEF new

LEMMA ReconcileSound ==
    ASSUME LifecycleInv, LifecycleInv', WaitInv, NEW P \in SUBSET Settleable, Reconcile(P)
    PROVE  WaitInv'
<1>. DEFINE records == SettledContexts(P)
            sessions == SettledSessions(P)
            finishing == Finishing(records, sessions)
            again == {c \in finishing : CanReiterate(records[c])}
            over == (finishing \ again) \cup Drained(records, sessions)
            started == [c \in Context |-> IF c \in again THEN NextIteration(records[c])
                                          ELSE records[c]]
            ready == {c \in executing \ (terminating \cup over) :
                        /\ records[c].local /\ records[c].state \in Running
                        /\ \/ sessions[c] = "RESCHEDULED"
                           \/ sessions[c] = "NONE" /\ c \notin done \ again}
            sent == SetToSeq({<<"Terminated", c>> : c \in over})
            requests == pending \ P
<1>1. TypeOK /\ TypeOK' /\ ExecutionOwned BY DEF LifecycleInv
<1>2. /\ Coordinating
      /\ \E D \in Dispatches(ready) :
           session' = [c \in Context |-> IF c \in D THEN "DISPATCHED"
                                         ELSE IF c \in over THEN "NONE" ELSE sessions[c]]
      /\ active' = active \o sent
      /\ UNCHANGED <<executing, submissions>>
  BY DEF Reconcile
<1>3. IF coordinator = "RUNNING"
      THEN /\ context' = started /\ pending' = requests
           /\ UNCHANGED <<unfinalized, schedulerVars, coordinator>>
      ELSE Apply(WithAuthority(started, requests), requests)
  BY DEF Reconcile
<1>4. PICK D \in SUBSET ready :
        session' = [c \in Context |-> IF c \in D THEN "DISPATCHED"
                                      ELSE IF c \in over THEN "NONE" ELSE sessions[c]]
  BY <1>2 DEF Dispatches
<1>5. /\ records \in [Context -> ContextRecord]
      /\ \A d \in Context : records[d].local = context[d].local
  BY <1>1, SettledKeeps
<1>6. \A d \in Context :
        /\ records[d].stale = context[d].stale
        /\ \/ records[d] = context[d] /\ (context[d].state = "PLACEMENT_WAITING" => d \notin P)
           \/ records[d].state = "RUNNING" /\ context[d].state = "PLACEMENT_WAITING" /\ d \in P
        /\ sessions[d] = IF d \in P /\ session[d] = "WAITING" THEN "RESCHEDULED" ELSE session[d]
  BY <1>1, SettledIs
<1>. HIDE DEF records, sessions
<1>7. /\ over \in SUBSET Context
      /\ \A d \in over : sessions[d] = "NONE" \/ records[d].state \in Draining \cup Terminal
  BY <1>1 DEF Finishing, Drained, TypeOK
<1>8. \A d \in ready : /\ records[d].local /\ records[d].state \in Running
                       /\ sessions[d] \in {"RESCHEDULED", "NONE"}
  OBVIOUS
<1>9. ASSUME NEW d \in Context
      PROVE  /\ started[d] \in ContextRecord /\ started[d].local = context[d].local
             /\ started[d].stale = context[d].stale /\ started[d].state = records[d].state
  <2>. DEFINE r == records[d]
              t == NextIteration(r)
  <2>1. r \in ContextRecord /\ r.local = context[d].local /\ r.stale = context[d].stale
    BY <1>5, <1>6
  <2>2. started[d] = IF d \in again THEN t ELSE r OBVIOUS
  <2>. HIDE DEF r, started
  <2>3. t \in ContextRecord /\ t.local = r.local /\ t.stale = r.stale /\ t.state = r.state
    BY <2>1, NextIterationKeeps, NextIterationLeaves
  <2>. HIDE DEF t
  <2>. QED BY <2>1, <2>2, <2>3 DEF r
<1>10. \A d \in Context : session'[d] = IF d \in D THEN "DISPATCHED"
                                        ELSE IF d \in over THEN "NONE" ELSE sessions[d]
  BY <1>4
<1>11. LET s == SetToSeq({<<"Terminated", c>> : c \in over}) IN
       /\ s \in Seq(Message) /\ \A c : Brings(s, c) = 0
  <2>. HIDE DEF over
  <2>. QED BY <1>7, OutcomesBringNothing
<1>12. sent \in Seq(Message) /\ \A d : Brings(sent, d) = 0 BY <1>11
<1>. HIDE DEF started, ready, over, again, finishing, sent
<1>13. ASSUME NEW d \in Context
       PROVE  /\ Turned(d, started[d]) /\ Held(d, started[d])
              /\ ~ context[d].stale => Agreed(d, started[d], requests)
              /\ ~ context[d].stale /\ d \in requests => started[d].state # "ABORTING"
  <2>. DEFINE r == started[d]
              s == records[d].state
  <2>1. /\ r \in ContextRecord /\ r.local = context[d].local /\ r.stale = context[d].stale
        /\ r.state = s
    BY <1>9
  <2>2. \/ s = context[d].state /\ (context[d].state = "PLACEMENT_WAITING" => d \notin P)
        \/ s = "RUNNING" /\ context[d].state = "PLACEMENT_WAITING" /\ d \in P
    BY <1>6
  <2>3. d \in D => d \in executing /\ r.local /\ s \in Running /\ sessions[d] \in {"RESCHEDULED", "NONE"}
    BY <1>4, <1>5, <1>8, <1>9 DEF ready
  <2>4. d \in over => sessions[d] = "NONE" \/ s \in Draining \cup Terminal BY <1>7
  <2>5. sessions[d] = IF d \in P /\ session[d] = "WAITING" THEN "RESCHEDULED" ELSE session[d] BY <1>6
  <2>6. session[d] # "NONE" => context[d].local /\ context[d].state \notin Waiting
    BY <1>1 DEF ExecutionOwned, Begun
  <2>7. session'[d] = IF d \in D THEN "DISPATCHED" ELSE IF d \in over THEN "NONE" ELSE sessions[d]
    BY <1>10
  <2>. HIDE DEF r, s
  <2>8. Turned(d, r) BY <2>1, <2>2 DEF Turned, Registered, NotYet, Terminal
  <2>9. Held(d, r) BY <2>1, <2>2, <2>3, <2>5, <2>6, <2>7 DEF Held, Running, Waiting
  <2>10. ASSUME ~ context[d].stale PROVE Agreed(d, r, requests)
    <3>1. Pended(d) BY <2>10 DEF WaitInv, Sound
    <3>2. ASSUME d \in requests
          PROVE  session'[d] = "WAITING" /\ d \in executing' /\ r.state \in {"PLACEMENT_WAITING", "PAUSED"}
      <4>1. /\ d \notin P /\ d \in executing /\ session[d] = "WAITING"
            /\ context[d].state \in {"PLACEMENT_WAITING", "PAUSED"}
        BY <3>1, <3>2 DEF Pended, PlacementAgrees
      <4>2. sessions[d] = "WAITING" /\ s \in {"PLACEMENT_WAITING", "PAUSED"} BY <2>2, <2>5, <4>1
      <4>3. d \notin D /\ d \notin over BY <2>3, <2>4, <4>2 DEF Draining, Terminal
      <4>. QED BY <1>2, <2>1, <2>7, <4>1, <4>2, <4>3
    <3>3. r.state = "PLACEMENT_WAITING" => d \in requests \/ ~ r.local
      BY <2>1, <2>2, <3>1 DEF Pended, PlacementAgrees
    <3>4. session'[d] = "WAITING" => d \in requests \/ r.state \in Draining \cup Terminal
      <4>1. session'[d] = "WAITING" => session[d] = "WAITING" /\ d \notin P BY <2>5, <2>7
      <4>. QED BY <2>1, <2>2, <3>1, <4>1 DEF Pended, PlacementAgrees
    <3>5. session'[d] # "NONE" => r.state \notin Terminal
      BY <2>1, <2>2, <2>3, <2>5, <2>7, <3>1 DEF Pended, Running, Terminal
    <3>. QED BY <3>2, <3>3, <3>4, <3>5 DEF Agreed
  <2>11. ~ context[d].stale /\ d \in requests => r.state # "ABORTING"
    BY <2>1, <2>2 DEF WaitInv, Sound, Pended, PlacementAgrees
  <2>. QED BY <2>8, <2>9, <2>10, <2>11 DEF r
<1>14. requests \in SUBSET pending OBVIOUS
<1>15. CASE coordinator = "RUNNING"
  <2>1. context' = started /\ pending' = requests /\ UNCHANGED <<queued, admitted, coordinator>>
    BY <1>3, <1>15 DEF schedulerVars
  <2>2. Coordinating' => Coordinating BY <1>2
  <2>. SUFFICES ASSUME NEW d \in Context PROVE Sound(d)' BY DEF WaitInv
  <2>. DEFINE r == started[d]
  <2>3. /\ Turned(d, r) /\ (~ context[d].stale => Agreed(d, r, requests))
        /\ Sound(d) /\ context'[d] = r
    BY <1>13, <2>1 DEF WaitInv
  <2>8. ~ context[d].stale /\ d \in requests => r.state # "ABORTING" BY <1>13
  <2>4. Registered(d) => r.state \notin Terminal
    BY <1>6, <1>9 DEF Registered, Terminal
  <2>5. StartTokens(d) <= 1 => StartTokens(d)' = StartTokens(d)
    <3>1. Count(queued', d) = Count(queued, d) BY <2>1
    <3>. QED BY <1>1, <1>2, <1>12, <3>1, MorePasses
  <2>. HIDE DEF r, requests
  <2>6. ~ Ends(d, r) BY <2>4 DEF Ends
  <2>7. r.stale = context[d].stale BY <2>3 DEF Turned
  <2>9. Kept(d, r, requests) BY <2>1, <2>5, <2>6, <2>7, <2>8 DEF Kept
  <2>. QED BY <1>14, <2>2, <2>3, <2>7, <2>9, TurnedSound
<1>16. CASE coordinator # "RUNNING"
  <2>. DEFINE after == WithAuthority(started, requests)
  <2>1. Apply(after, requests) BY <1>3, <1>16
  <2>2. ASSUME NEW d \in Context
        PROVE  Turned(d, after[d]) /\ (~ context[d].stale => Agreed(d, after[d], requests))
    <3>. DEFINE r == started[d]
                t == Shut(d, r, FALSE, requests)
    <3>1. Turned(d, r) /\ Held(d, r) /\ (~ context[d].stale => Agreed(d, r, requests)) BY <1>13
    <3>2. after[d] = r \/ after[d] = t BY DEF WithAuthority
    <3>. HIDE DEF r, after, requests
    <3>3. Turned(d, t) /\ (Agreed(d, r, requests) => Agreed(d, t, requests)) BY <3>1, GentleShut
    <3>. HIDE DEF t
    <3>. QED BY <3>1, <3>2, <3>3
  <2>. HIDE DEF after, requests
  <2>3. queued' = Without(queued, Concluded(after)) BY <2>1 DEF Apply, Concluded
  <2>4. ASSUME NEW d \in Context \ Concluded(after), StartTokens(d) <= 1
        PROVE  StartTokens(d)' = StartTokens(d)
    <3>1. queued \in Seq(Context) BY <1>1 DEF TypeOK
    <3>2. Count(queued, d) <= 1 => Count(queued', d) = Count(queued, d)
      BY <2>3, <2>4, <3>1, WithoutCounts
    <3>. QED BY <1>1, <1>2, <1>12, <2>4, <3>2, MorePasses
  <2>. QED BY <1>2, <1>14, <2>1, <2>2, <2>4, AppliedSound
<1>. QED BY <1>15, <1>16

-----------------------------------------------------------------------------
(* The invariant holds.                                                       *)

LEMMA WaitInit == Init => WaitInv
<1>. SUFFICES ASSUME Init PROVE WaitInv OBVIOUS
<1>. SUFFICES ASSUME NEW c \in Context PROVE Sound(c) BY DEF WaitInv
<1>1. /\ context[c].state = "NEW" /\ pending = {} /\ admitted = {} /\ session[c] = "NONE"
      /\ active = << >> /\ submissions = << >> /\ queued = << >>
  BY DEF Init
<1>2. StartTokens(c) = 0 BY <1>1, EmptyCounts DEF StartTokens
<1>3. ~ Holds(queued, c) BY <1>1 DEF Holds
<1>4. Pended(c) BY <1>1 DEF Pended, PlacementAgrees, Terminal
<1>5. Cleared(c) BY <1>1, <1>3 DEF Cleared
<1>6. Remembered(c) BY <1>1, <1>2 DEF Remembered, Local, Registered
<1>. QED BY <1>4, <1>5, <1>6 DEF Sound

LEMMA WaitNext == LifecycleInv /\ LifecycleInv' /\ WaitInv /\ [Next]_vars => WaitInv'
<1>. SUFFICES ASSUME LifecycleInv, LifecycleInv', WaitInv, [Next]_vars PROVE WaitInv' OBVIOUS
<1>1. CASE Handle
  <2>1. ASSUME NEW c \in Context, HandleOf(c) PROVE WaitInv'
    BY <2>1, RegisteredSound, AdmittedSound, StartSound, AbortSound, PauseSound, ResumeSound,
       StopSound, TransferOutSound, TransferInSound, SnapshotSound, RetrieveSound, TerminatedSound
       DEF HandleOf
  <2>. QED
    BY <1>1, <2>1, ReconcileMessageSound, ShutdownSound, ForcedShutdownSound, DropSound DEF Handle
<1>2. CASE ReconcileSome BY <1>2, ReconcileSound DEF ReconcileSome
<1>3. CASE UNCHANGED vars
  <2>1. UNCHANGED <<context, pending, queued, admitted, executing, session, active, submissions,
                    coordinator>>
    BY <1>3 DEF vars, registryVars, schedulerVars, managerVars, queueVars, engineVars
  <2>. SUFFICES ASSUME NEW c \in Context PROVE Sound(c)' BY DEF WaitInv
  <2>2. StartTokens(c)' = StartTokens(c) BY <2>1 DEF StartTokens, Count
  <2>3. Passed(c) BY <2>1, <2>2 DEF Passed
  <2>4. Alone(c) BY <2>1 DEF Alone
  <2>5. Coordinating' => Coordinating BY <2>1 DEF Coordinating
  <2>. QED BY <2>3, <2>4, <2>5, Bystander DEF WaitInv
<1>4. CASE Closed BY <1>3, <1>4 DEF Closed
<1>. QED BY <1>1, <1>2, <1>3, <1>4, UserSound, TimersSound, ReportSound, EmergencySound DEF Next

LEMMA WaitInvariant == Spec => [](LifecycleInv /\ WaitInv)
<1>1. Init => LifecycleInv /\ WaitInv BY LifecycleInit, WaitInit
<1>2. LifecycleInv /\ WaitInv /\ [Next]_vars => (LifecycleInv /\ WaitInv)'
  BY LifecycleNext, WaitNext
<1>. QED BY <1>1, <1>2, PTL DEF Spec

(* A context that waits for its start is remembered in one place of the       *)
(* engine and a started one in none, whatever commands, transfers, snapshots  *)
(* and shutdowns come between: it is neither lost nor started twice.          *)
THEOREM StartsAreOwedOnce == Spec => []WaitsOnce
<1>1. WaitInv => WaitsOnce BY DEF WaitInv, Sound, Remembered, WaitsOnce
<1>. QED BY <1>1, WaitInvariant, PTL

(* The registry, the scheduler, the context and its execution agree about who *)
(* waits for a placement or for a slot, after every step of the engine.       *)
THEOREM PlacementsStayAgreed == Spec => []PlacementsAgree
<1>1. LifecycleInv /\ WaitInv => PlacementsAgree
  <2>. SUFFICES ASSUME LifecycleInv, WaitInv, NEW c \in Context, ~ context[c].stale
                PROVE  PlacementAgrees(c) /\ NothingKept(c)
    BY DEF PlacementsAgree
  <2>1. Pended(c) /\ Cleared(c) BY DEF WaitInv, Sound
  <2>2. Contains(queued, c) <=> Holds(queued, c) BY ContainsIsHolds DEF LifecycleInv, TypeOK
  <2>. QED BY <2>1, <2>2 DEF Pended, Cleared, NothingKept
<1>. QED BY <1>1, WaitInvariant, PTL

=============================================================================
