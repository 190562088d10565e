-------------------------- MODULE HistoryLaneProofs --------------------------
(***************************************************************************)
(* The persistence lane keeps the promise of HistoryPromise, for any       *)
(* contexts, callers, capacities and faults: what the record, the queue,   *)
(* the lane's thread and the store owe each other is an invariant (Good),  *)
(* and every step of any thread advances the record as promised.  Nothing  *)
(* is lost untold: who holds each reservation, what flows to the store and *)
(* what the contributions add up to is one more invariant (Accounted).     *)
(* Then the dashboard's workspace forgets nothing it accepted.  At the end *)
(* the two queues side by side, as MCLanes composes them.                  *)
(***************************************************************************)
EXTENDS MCLanes, QueueFacts

-----------------------------------------------------------------------------
(* The database record, what it owes, and how it may move.                    *)

Anyone == Context \cup Caller \cup {"session", "startup", "layout", "delta"}
AskRecord == [status : Status, target : Nat]
DbRecord ==
    [state : {"OPENING", "OPEN", "DEGRADED", "CLOSING", "CLOSED"},
     closing : BOOLEAN, unavailable : BOOLEAN,
     admitted : Nat, settled : Nat, first : Nat \cup {NoFailure},
     held : SUBSET Anyone, published : SUBSET Nat, asked : [Caller -> AskRecord]]

Bounded(d) ==
    /\ d \in DbRecord
    /\ d.settled <= d.admitted /\ d.first <= d.admitted
    /\ \A n \in d.published : n <= d.admitted
    /\ \A c \in Caller : d.asked[c].target <= d.admitted

(* Number n is part of what the database has told to be missing.              *)
Missed(d, n) == Failed(d) /\ d.first <= n
Passing == Reading \cup {"shutdown"}

(* Whoever was told OK: what was accepted before is stored, or, for those who *)
(* only wait for their turn, known to be missing.                             *)
Truth(d, stored) ==
    \A c \in Caller : d.asked[c].status = "OK" =>
        \A n \in 1..d.asked[c].target : n \in stored \/ (c \in Passing /\ Missed(d, n))

(* Every number below the bound is stored, told to be missing or on its way,  *)
(* and what is on its way is reserved and not settled.                        *)
AccountsUpTo(d, flying, stored, bound) ==
    \A n \in 1..d.admitted : n < bound => n \in stored \/ Missed(d, n) \/ n \in flying
Accounts(d, flying, stored) ==
    \A n \in 1..d.admitted : n \in stored \/ Missed(d, n) \/ n \in flying
Reserves(d, flying) == \A n \in flying : n \in Nat /\ n \in d.published /\ d.settled < n
Sound(d, flying, stored) ==
    Bounded(d) /\ Accounts(d, flying, stored) /\ Reserves(d, flying) /\ Truth(d, stored)

(* What the promise allows between two states of the record.                  *)
Answers(a, b, from, to) ==
    \/ b = a
    \/ /\ a.status = "NONE"
       /\ b.target \in from..to /\ b.status \in {"WAITING", "OK", "FAILED"}
    \/ /\ a.status = "WAITING"
       /\ b.status \in {"OK", "FAILED"} /\ b.target = a.target
Tells(d, e) ==
    \/ e.first = d.first
    \/ e.first \in 0..e.admitted /\ (d.first # NoFailure => e.first < d.first)
Advances(d, e) ==
    /\ d.admitted <= e.admitted /\ Tells(d, e)
    /\ \A c \in Caller : Answers(d.asked[c], e.asked[c], d.admitted, e.admitted)

(* A step of the record in which at most the callers C, new ones, ask: reads  *)
(* wait for their turn, and nobody else begins to wait.                       *)
Calm(d, e, C) ==
    \A c \in Caller :
        IF c \in C THEN d.asked[c].status = "NONE"
        ELSE c \in Reading \/ d.asked[c].status = "NONE" => e.asked[c] = d.asked[c]
Moves(d, e, C) == Bounded(d) /\ Bounded(e) /\ Advances(d, e) /\ Calm(d, e, C)

LEMMA BoundedFacts ==
    ASSUME NEW d, Bounded(d)
    PROVE  /\ d.admitted \in Nat /\ d.settled \in Nat /\ d.settled <= d.admitted
           /\ d.first \in Nat \cup {NoFailure} /\ d.first <= d.admitted
           /\ d.asked \in [Caller -> AskRecord] /\ d.published \subseteq Nat
           /\ \A n \in d.published : n <= d.admitted
           /\ \A c \in Caller :
                /\ d.asked[c] \in AskRecord /\ d.asked[c].status \in Status
                /\ d.asked[c].target \in Nat /\ d.asked[c].target <= d.admitted
BY DEF Bounded, DbRecord, AskRecord

LEMMA TellsOn ==
    ASSUME NEW d, NEW e, NEW f, Bounded(d), Bounded(e), Bounded(f),
           e.admitted <= f.admitted, Tells(d, e), Tells(e, f)
    PROVE  Tells(d, f)
BY BoundedFacts DEF Tells, NoFailure

LEMMA MissedOn ==
    ASSUME NEW d, NEW e, Bounded(d), Bounded(e), Tells(d, e), NEW n \in Nat, Missed(d, n)
    PROVE  Missed(e, n)
BY BoundedFacts DEF Tells, Missed, Failed, NoFailure

LEMMA AnswersOn ==
    ASSUME NEW a, NEW b, NEW g, a \in AskRecord, b \in AskRecord, g \in AskRecord,
           NEW i \in Nat, NEW j \in Nat, NEW k \in Nat, i <= j, j <= k,
           Answers(a, b, i, j), Answers(b, g, j, k)
    PROVE  Answers(a, g, i, k)
BY DEF Answers, AskRecord

LEMMA MovesOn ==
    ASSUME NEW d, NEW e, NEW f, NEW C, Moves(d, e, C), Moves(e, f, {})
    PROVE  Moves(d, f, C)
<1>1. Bounded(d) /\ Bounded(e) /\ Bounded(f) BY DEF Moves
<1>2. d.admitted <= e.admitted /\ e.admitted <= f.admitted BY DEF Moves, Advances
<1>3. d.admitted \in Nat /\ e.admitted \in Nat /\ f.admitted \in Nat BY <1>1, BoundedFacts
<1>4. Tells(d, f) BY <1>1, <1>2, TellsOn DEF Moves, Advances
<1>5. ASSUME NEW c \in Caller
      PROVE  Answers(d.asked[c], f.asked[c], d.admitted, f.admitted)
  <2>1. /\ d.asked[c] \in AskRecord /\ e.asked[c] \in AskRecord /\ f.asked[c] \in AskRecord
    BY <1>1, BoundedFacts
  <2>2. /\ Answers(d.asked[c], e.asked[c], d.admitted, e.admitted)
        /\ Answers(e.asked[c], f.asked[c], e.admitted, f.admitted)
    BY DEF Moves, Advances
  <2>. QED BY <1>2, <1>3, <2>1, <2>2, AnswersOn
<1>6. Calm(d, f, C) BY DEF Moves, Calm
<1>7. d.admitted <= f.admitted BY <1>2, <1>3
<1>. QED BY <1>1, <1>4, <1>5, <1>6, <1>7 DEF Moves, Advances

-----------------------------------------------------------------------------
(* What touches nothing the promise is about.                                 *)
Alike(d, e) ==
    /\ e \in DbRecord
    /\ e.admitted = d.admitted /\ e.settled = d.settled /\ e.first = d.first
    /\ e.published = d.published /\ e.asked = d.asked

LEMMA AlikeKeeps ==
    ASSUME NEW d, NEW e, NEW flying, NEW stored, Sound(d, flying, stored), Alike(d, e)
    PROVE  Sound(e, flying, stored) /\ Moves(d, e, {})
<1>1. Bounded(d) /\ Bounded(e) BY DEF Sound, Bounded, Alike
<1>2. \A n : Missed(e, n) <=> Missed(d, n) BY DEF Missed, Failed, Alike
<1>3. Accounts(e, flying, stored) BY <1>2 DEF Sound, Accounts, Alike
<1>4. Reserves(e, flying) BY DEF Sound, Reserves, Alike
<1>5. Truth(e, stored) BY <1>2 DEF Sound, Truth, Alike
<1>6. Advances(d, e)
  <2>1. d.admitted \in Nat BY <1>1, BoundedFacts
  <2>. QED BY <2>1 DEF Advances, Answers, Tells, Alike
<1>7. Calm(d, e, {}) BY DEF Calm, Alike
<1>. QED BY <1>1, <1>3, <1>4, <1>5, <1>6, <1>7 DEF Sound, Moves

(* Settling the barriers tells the truth to whoever waits.                    *)
LEMMA OutcomeCases ==
    ASSUME NEW d, NEW c \in Caller, NEW a
    PROVE  \/ Outcome(d, c, a) = a.status
           \/ /\ a.status = "WAITING" /\ c \notin Reading
              /\ \/ Outcome(d, c, a) = "FAILED"
                 \/ /\ Outcome(d, c, a) = "OK"
                    /\ ~ (c \in Reporting /\ Failed(d) /\ d.first <= a.target)
                    /\ \/ d.settled >= a.target
                       \/ c \notin Reporting /\ \A n \in d.published : n > a.target
BY DEF Outcome

LEMMA SettleKeeps ==
    ASSUME NEW d, NEW flying, NEW stored, Sound(d, flying, stored)
    PROVE  Sound(SettleBarriers(d), flying, stored) /\ Moves(d, SettleBarriers(d), {})
<1>. DEFINE new == [c \in Caller |-> [d.asked[c] EXCEPT !.status = Outcome(d, c, d.asked[c])]]
            e == [d EXCEPT !.asked = new]
<1>1. Bounded(d) /\ Accounts(d, flying, stored) /\ Reserves(d, flying) /\ Truth(d, stored)
  BY DEF Sound
<1>2. d \in DbRecord /\ d.asked \in [Caller -> AskRecord] BY <1>1 DEF Bounded, DbRecord
<1>3. ASSUME NEW c \in Caller
      PROVE  /\ new[c] \in AskRecord /\ new[c].target = d.asked[c].target
             /\ new[c].status = Outcome(d, c, d.asked[c])
             /\ Outcome(d, c, d.asked[c]) = d.asked[c].status => new[c] = d.asked[c]
  <2>. DEFINE a == d.asked[c]
              o == Outcome(d, c, a)
  <2>1. a \in AskRecord BY <1>2
  <2>2. o \in Status
    <3>1. a.status \in Status BY <2>1 DEF AskRecord
    <3>. HIDE DEF a
    <3>. QED BY <3>1, OutcomeCases DEF Status
  <2>. HIDE DEF o
  <2>3. new[c] = [a EXCEPT !.status = o] BY DEF o
  <2>. HIDE DEF new, a
  <2>. QED BY <2>1, <2>2, <2>3 DEF AskRecord, a, o
<1>4. new \in [Caller -> AskRecord] BY <1>3
<1>. HIDE DEF new
<1>5. /\ e \in DbRecord /\ e.asked = new
      /\ e.admitted = d.admitted /\ e.settled = d.settled /\ e.first = d.first
      /\ e.published = d.published
  BY <1>2, <1>4 DEF DbRecord
<1>. HIDE DEF e
<1>6. Bounded(e) BY <1>1, <1>3, <1>5 DEF Bounded
<1>7. \A n : Missed(e, n) <=> Missed(d, n) BY <1>5 DEF Missed, Failed
<1>8. Accounts(e, flying, stored) /\ Reserves(e, flying)
  BY <1>1, <1>5, <1>7 DEF Accounts, Reserves
<1>9. Truth(e, stored)
  <2>1. ASSUME NEW c \in Caller, e.asked[c].status = "OK", NEW n \in 1..e.asked[c].target
        PROVE  n \in stored \/ (c \in Passing /\ Missed(e, n))
    <3>. DEFINE t == d.asked[c].target
    <3>1. new[c].status = "OK" /\ n \in 1..t BY <1>3, <1>5, <2>1
    <3>2. t \in Nat /\ t <= d.admitted /\ d.admitted \in Nat /\ d.settled \in Nat
      BY <1>1, BoundedFacts
    <3>3. n \in 1..d.admitted /\ n \in Nat /\ n <= t BY <3>1, <3>2
    <3>4. n \in stored \/ Missed(d, n) \/ n \in flying BY <1>1, <3>3 DEF Accounts
    <3>5. CASE new[c] = d.asked[c] BY <1>1, <1>7, <3>1, <3>5 DEF Truth
    <3>6. CASE new[c] # d.asked[c]
      <4>1. /\ c \notin Reading
            /\ ~ (c \in Reporting /\ Failed(d) /\ d.first <= t)
            /\ d.settled >= t \/ (c \notin Reporting /\ \A m \in d.published : m > t)
        <5>1. Outcome(d, c, d.asked[c]) = "OK" /\ Outcome(d, c, d.asked[c]) # d.asked[c].status
          BY <1>3, <3>1, <3>6
        <5>. DEFINE a == d.asked[c]
        <5>. HIDE DEF a
        <5>2. a.status # "OK" /\ Outcome(d, c, a) = "OK" /\ t = a.target BY <5>1 DEF a
        <5>. QED BY <5>2, OutcomeCases
      <4>2. n \notin flying
        <5>1. ASSUME n \in flying PROVE FALSE
          <6>1. n \in d.published /\ d.settled < n BY <1>1, <5>1 DEF Reserves
          <6>2. ~ (n > t) BY <3>2, <3>3
          <6>3. ~ (d.settled >= t) BY <3>2, <3>3, <6>1
          <6>. QED BY <4>1, <6>1, <6>2, <6>3
        <5>. QED BY <5>1
      <4>3. CASE c \in Reporting
        <5>1. ~ Missed(d, n)
          <6>1. ASSUME Missed(d, n) PROVE FALSE
            <7>1. Failed(d) /\ d.first <= n BY <6>1 DEF Missed
            <7>2. d.first \in Int BY <1>1, BoundedFacts DEF NoFailure
            <7>3. d.first <= t BY <3>2, <3>3, <7>1, <7>2
            <7>. QED BY <4>1, <4>3, <7>1, <7>3
          <6>. QED BY <6>1
        <5>. QED BY <3>4, <4>2, <5>1
      <4>4. CASE c \notin Reporting
        <5>1. c \in Passing
          BY <4>1, <4>4 DEF Passing, Caller, Reporting, Reading, Recording
        <5>. QED BY <1>7, <3>4, <4>2, <5>1
      <4>. QED BY <4>3, <4>4
    <3>. QED BY <3>5, <3>6
  <2>. QED BY <2>1 DEF Truth
<1>10. ASSUME NEW c \in Caller
       PROVE  \/ new[c] = d.asked[c]
              \/ /\ d.asked[c].status = "WAITING" /\ c \notin Reading
                 /\ new[c].status \in {"OK", "FAILED"} /\ new[c].target = d.asked[c].target
  <2>. DEFINE a == d.asked[c]
  <2>1. /\ new[c].target = a.target /\ new[c].status = Outcome(d, c, a)
        /\ Outcome(d, c, a) = a.status => new[c] = a
    BY <1>3
  <2>. HIDE DEF a
  <2>2. \/ new[c] = a
        \/ /\ a.status = "WAITING" /\ c \notin Reading
           /\ new[c].status \in {"OK", "FAILED"} /\ new[c].target = a.target
    BY <2>1, OutcomeCases
  <2>. QED BY <2>2 DEF a
<1>11. Advances(d, e)
  <2>1. d.admitted \in Nat /\ d.admitted <= d.admitted BY <1>1, BoundedFacts
  <2>. QED BY <1>5, <1>10, <2>1 DEF Advances, Answers, Tells
<1>12. Calm(d, e, {}) BY <1>5, <1>10 DEF Calm
<1>13. SettleBarriers(d) = e BY DEF SettleBarriers, e, new
<1>. QED BY <1>1, <1>6, <1>8, <1>9, <1>11, <1>12, <1>13 DEF Sound, Moves

(* A failure is told: what it covers is missing from now on.                  *)
LEMMA FailureKeeps ==
    ASSUME NEW d, NEW flying, NEW stored, NEW n \in Nat, Bounded(d), n <= d.admitted,
           AccountsUpTo(d, flying, stored, n), Reserves(d, flying), Truth(d, stored)
    PROVE  /\ Sound(Failure(d, n), flying, stored) /\ Moves(d, Failure(d, n), {})
           /\ \A m \in Nat : n <= m => Missed(Failure(d, n), m)
<1>. DEFINE f == IF Failed(d) THEN Lesser(d.first, n) ELSE n
            s == IF d.closing \/ d.state = "OPENING" THEN d.state ELSE "DEGRADED"
            e == [d EXCEPT !.first = f, !.state = s]
<1>1. Failure(d, n) = SettleBarriers(e) BY DEF Failure
<1>2. /\ d.admitted \in Nat /\ d.first \in Nat \cup {NoFailure} /\ d.first <= d.admitted
  BY BoundedFacts
<1>3. f \in 0..d.admitted /\ f <= n /\ (Failed(d) => f <= d.first) /\ (f = d.first \/ ~ Failed(d) \/ f < d.first)
  BY <1>2 DEF Lesser, Failed, NoFailure
<1>4. s \in {"OPENING", "OPEN", "DEGRADED", "CLOSING", "CLOSED"} BY DEF Bounded, DbRecord
<1>. HIDE DEF f, s
<1>5. /\ e \in DbRecord /\ e.first = f
      /\ e.admitted = d.admitted /\ e.settled = d.settled
      /\ e.published = d.published /\ e.asked = d.asked
  <2>. DEFINE g == [d EXCEPT !.first = f]
  <2>1. f \in Nat \cup {NoFailure} BY <1>2, <1>3
  <2>2. /\ g \in DbRecord /\ g.first = f
        /\ g.admitted = d.admitted /\ g.settled = d.settled
        /\ g.published = d.published /\ g.asked = d.asked
    BY <2>1 DEF Bounded, DbRecord
  <2>3. e = [g EXCEPT !.state = s] BY DEF Bounded, DbRecord
  <2>. HIDE DEF g, e
  <2>. QED BY <1>4, <2>2, <2>3 DEF DbRecord
<1>. HIDE DEF e
<1>6. Bounded(e) BY <1>2, <1>3, <1>5 DEF Bounded
<1>7. Tells(d, e) BY <1>3, <1>5 DEF Tells, Failed
<1>8. \A m \in Nat : Missed(d, m) => Missed(e, m) BY <1>6, <1>7, MissedOn
<1>9. \A m \in Nat : n <= m => Missed(e, m)
  <2>1. ASSUME NEW m \in Nat, n <= m PROVE f <= m BY <1>3, <2>1
  <2>. QED BY <1>3, <1>5, <2>1 DEF Missed, Failed, NoFailure
<1>10. Accounts(e, flying, stored)
  <2>1. ASSUME NEW m \in 1..e.admitted PROVE m \in stored \/ Missed(e, m) \/ m \in flying
    <3>1. m \in 1..d.admitted /\ m \in Nat BY <1>2, <1>5
    <3>2. CASE m < n BY <1>8, <3>1, <3>2 DEF AccountsUpTo
    <3>3. CASE ~ (m < n) BY <1>9, <3>1, <3>3
    <3>. QED BY <3>2, <3>3
  <2>. QED BY <2>1 DEF Accounts
<1>11. Reserves(e, flying) BY <1>5 DEF Reserves
<1>12. Truth(e, stored)
  <2>1. ASSUME NEW c \in Caller, e.asked[c].status = "OK", NEW m \in 1..e.asked[c].target
        PROVE  m \in stored \/ (c \in Passing /\ Missed(e, m))
    <3>1. e.asked[c] = d.asked[c] /\ d.asked[c].target \in Nat BY <1>5, BoundedFacts
    <3>2. m \in Nat /\ m \in 1..d.asked[c].target BY <3>1
    <3>3. m \in stored \/ (c \in Passing /\ Missed(d, m)) BY <2>1, <3>1, <3>2 DEF Truth
    <3>. QED BY <1>8, <3>2, <3>3
  <2>. QED BY <2>1 DEF Truth
<1>13. Moves(d, e, {})
  <2>1. Advances(d, e) BY <1>2, <1>5, <1>7 DEF Advances, Answers
  <2>2. Calm(d, e, {}) BY <1>5 DEF Calm
  <2>. QED BY <1>6, <2>1, <2>2 DEF Moves
<1>14. Sound(e, flying, stored) BY <1>6, <1>10, <1>11, <1>12 DEF Sound
<1>15. Sound(SettleBarriers(e), flying, stored) /\ Moves(e, SettleBarriers(e), {})
  BY <1>14, SettleKeeps
<1>16. \A m \in Nat : n <= m => Missed(SettleBarriers(e), m)
  BY <1>9, <1>15, MissedOn DEF Moves, Advances
<1>. QED BY <1>1, <1>13, <1>15, <1>16, MovesOn

LEMMA SoundFails ==
    ASSUME NEW d, NEW flying, NEW stored, NEW n \in Nat, n <= d.admitted,
           Sound(d, flying, stored)
    PROVE  /\ Sound(Failure(d, n), flying, stored) /\ Moves(d, Failure(d, n), {})
           /\ \A m \in Nat : n <= m => Missed(Failure(d, n), m)
<1>1. AccountsUpTo(d, flying, stored, n) BY DEF Sound, Accounts, AccountsUpTo
<1>. QED BY <1>1, FailureKeeps DEF Sound

(* Numbers are given out.                                                     *)
LEMMA NumbersOut ==
    ASSUME NEW d, NEW flying, NEW stored, NEW k \in Nat, Sound(d, flying, stored)
    PROVE  LET e == [d EXCEPT !.admitted = @ + k]
           IN  /\ Moves(d, e, {}) /\ e.admitted = d.admitted + k
               /\ AccountsUpTo(e, flying, stored, d.admitted + 1)
               /\ Reserves(e, flying) /\ Truth(e, stored)
<1>. DEFINE e == [d EXCEPT !.admitted = @ + k]
<1>1. Bounded(d) BY DEF Sound
<1>2. d.admitted \in Nat BY <1>1, BoundedFacts
<1>3. /\ e \in DbRecord /\ e.admitted = d.admitted + k /\ e.settled = d.settled
      /\ e.first = d.first /\ e.published = d.published /\ e.asked = d.asked
  BY <1>1, <1>2 DEF Bounded, DbRecord
<1>. HIDE DEF e
<1>4. Bounded(e)
  <2>1. d.settled \in Int /\ d.first \in Int /\ \A n \in d.published : n \in Int
    BY <1>1, BoundedFacts DEF NoFailure
  <2>2. ASSUME NEW n \in Int, n <= d.admitted PROVE n <= e.admitted BY <1>2, <1>3, <2>2
  <2>3. d.settled <= e.admitted /\ d.first <= e.admitted BY <1>1, <2>1, <2>2, BoundedFacts
  <2>4. \A n \in e.published : n <= e.admitted BY <1>1, <1>3, <2>1, <2>2, BoundedFacts
  <2>5. \A c \in Caller : e.asked[c].target <= e.admitted BY <1>1, <1>3, <2>2, BoundedFacts
  <2>. QED BY <1>3, <2>3, <2>4, <2>5 DEF Bounded
<1>5. \A n : Missed(e, n) <=> Missed(d, n) BY <1>3 DEF Missed, Failed
<1>6. AccountsUpTo(e, flying, stored, d.admitted + 1)
  <2>1. ASSUME NEW n \in 1..e.admitted, n < d.admitted + 1 PROVE n \in 1..d.admitted
    BY <1>2, <1>3, <2>1
  <2>. QED BY <1>5, <2>1 DEF AccountsUpTo, Sound, Accounts
<1>7. Reserves(e, flying) BY <1>3 DEF Sound, Reserves
<1>8. Truth(e, stored) BY <1>3, <1>5 DEF Sound, Truth
<1>9. Moves(d, e, {})
  <2>1. d.admitted <= e.admitted BY <1>2, <1>3
  <2>2. Advances(d, e) BY <1>3, <2>1 DEF Advances, Answers, Tells
  <2>3. Calm(d, e, {}) BY <1>3 DEF Calm
  <2>. QED BY <1>1, <1>4, <2>2, <2>3 DEF Moves
<1>. QED BY <1>3, <1>6, <1>7, <1>8, <1>9 DEF e

LEMMA GapsKeep ==
    ASSUME NEW d, NEW flying, NEW stored, NEW k \in Nat, Sound(d, flying, stored)
    PROVE  Sound(Gaps(d, k), flying, stored) /\ Moves(d, Gaps(d, k), {})
<1>. DEFINE e == [d EXCEPT !.admitted = @ + k]
<1>1. CASE k = 0
  <2>1. Alike(d, d) BY DEF Alike, Sound, Bounded
  <2>. QED BY <1>1, <2>1, AlikeKeeps DEF Gaps
<1>2. CASE k # 0
  <2>1. /\ Moves(d, e, {}) /\ e.admitted = d.admitted + k
        /\ AccountsUpTo(e, flying, stored, d.admitted + 1)
        /\ Reserves(e, flying) /\ Truth(e, stored)
    BY NumbersOut
  <2>. HIDE DEF e
  <2>2. d.admitted + 1 \in Nat /\ d.admitted + 1 <= e.admitted
    <3>1. d.admitted \in Nat BY BoundedFacts DEF Sound
    <3>. QED BY <1>2, <2>1, <3>1
  <2>3. /\ Sound(Failure(e, d.admitted + 1), flying, stored)
        /\ Moves(e, Failure(e, d.admitted + 1), {})
    BY <2>1, <2>2, FailureKeeps DEF Moves
  <2>. QED BY <1>2, <2>1, <2>3, MovesOn DEF Gaps, e
<1>. QED BY <1>1, <1>2

LEMMA GapKeeps ==
    ASSUME NEW d, NEW flying, NEW stored, Sound(d, flying, stored)
    PROVE  Sound(RecordGap(d), flying, stored) /\ Moves(d, RecordGap(d), {})
<1>1. RecordGap(d) = Gaps(d, 1) BY DEF RecordGap, Gaps
<1>. QED BY <1>1, GapsKeep

(* A publication gets the next number, and is on its way.                     *)
LEMMA PublishKeeps ==
    ASSUME NEW d, NEW flying, NEW stored, NEW h, Sound(d, flying, stored)
    PROVE  /\ Sound(Publish(d, h), flying \cup {d.admitted + 1}, stored)
           /\ Moves(d, Publish(d, h), {})
           /\ Publish(d, h).admitted = d.admitted + 1
           /\ Publish(d, h).asked = d.asked
<1>. DEFINE n == d.admitted + 1
            e == Publish(d, h)
<1>1. Bounded(d) BY DEF Sound
<1>2. d.admitted \in Nat /\ n \in Nat BY <1>1, BoundedFacts
<1>3. /\ e \in DbRecord /\ e.admitted = n /\ e.settled = d.settled
      /\ e.first = d.first /\ e.published = d.published \cup {n} /\ e.asked = d.asked
  BY <1>1, <1>2 DEF Bounded, DbRecord, Publish
<1>. HIDE DEF e
<1>4. d.settled \in Nat /\ d.first \in Int /\ \A m \in d.published : m \in Int
  BY <1>1, BoundedFacts DEF NoFailure
<1>5. Bounded(e)
  <2>2. ASSUME NEW m \in Int, m <= d.admitted PROVE m <= e.admitted BY <1>2, <1>3, <2>2
  <2>3. d.settled <= e.admitted /\ d.first <= e.admitted BY <1>1, <1>4, <2>2, BoundedFacts
  <2>4. \A m \in e.published : m <= e.admitted
    <3>1. n <= e.admitted BY <1>2, <1>3
    <3>. QED BY <1>1, <1>3, <1>4, <2>2, <3>1, BoundedFacts
  <2>5. \A c \in Caller : e.asked[c].target <= e.admitted BY <1>1, <1>3, <2>2, BoundedFacts
  <2>. QED BY <1>3, <2>3, <2>4, <2>5 DEF Bounded
<1>6. \A m : Missed(e, m) <=> Missed(d, m) BY <1>3 DEF Missed, Failed
<1>7. Accounts(e, flying \cup {n}, stored)
  <2>1. \A m \in 1..e.admitted : m \in 1..d.admitted \/ m = n BY <1>2, <1>3
  <2>. QED BY <1>6, <2>1 DEF Sound, Accounts
<1>8. Reserves(e, flying \cup {n})
  <2>1. d.settled < n BY <1>1, <1>2, <1>4, BoundedFacts
  <2>. QED BY <1>2, <1>3, <2>1 DEF Sound, Reserves
<1>9. Truth(e, stored) BY <1>3, <1>6 DEF Sound, Truth
<1>10. Moves(d, e, {})
  <2>1. d.admitted <= e.admitted BY <1>2, <1>3
  <2>2. Advances(d, e) BY <1>3, <2>1 DEF Advances, Answers, Tells
  <2>3. Calm(d, e, {}) BY <1>3 DEF Calm
  <2>. QED BY <1>1, <1>5, <2>2, <2>3 DEF Moves
<1>. QED BY <1>3, <1>5, <1>7, <1>8, <1>9, <1>10 DEF Sound, e

(* Somebody new asks, for what has been accepted so far.                      *)
LEMMA AskedKeeps ==
    ASSUME NEW d, NEW flying, NEW stored, NEW c \in Caller, Sound(d, flying, stored),
           d.asked[c].status = "NONE"
    PROVE  /\ Sound(Asked(d, c), flying, stored) /\ Moves(d, Asked(d, c), {c})
           /\ Asked(d, c).admitted = d.admitted
           /\ Asked(d, c).asked[c] = [status |-> "WAITING", target |-> d.admitted]
           /\ \A o \in Caller : o # c => Asked(d, c).asked[o] = d.asked[o]
<1>. DEFINE a == [status |-> "WAITING", target |-> d.admitted]
            new == [d.asked EXCEPT ![c] = a]
            e == Asked(d, c)
<1>1. Bounded(d) BY DEF Sound
<1>2. d.admitted \in Nat /\ d.asked \in [Caller -> AskRecord] BY <1>1, BoundedFacts
<1>3. a \in AskRecord BY <1>2 DEF AskRecord, Status
<1>4. new \in [Caller -> AskRecord] /\ new[c] = a /\ \A o \in Caller : o # c => new[o] = d.asked[o]
  BY <1>2, <1>3
<1>5. a.status = "WAITING" /\ a.target = d.admitted OBVIOUS
<1>. HIDE DEF new, a
<1>6. /\ e \in DbRecord /\ e.admitted = d.admitted /\ e.settled = d.settled
      /\ e.first = d.first /\ e.published = d.published /\ e.asked = new
  BY <1>1, <1>4 DEF Bounded, DbRecord, Asked, new, a
<1>. HIDE DEF e
<1>7. Bounded(e) BY <1>1, <1>2, <1>4, <1>5, <1>6 DEF Bounded
<1>8. \A m : Missed(e, m) <=> Missed(d, m) BY <1>6 DEF Missed, Failed
<1>9. Accounts(e, flying, stored) BY <1>6, <1>8 DEF Sound, Accounts
<1>10. Reserves(e, flying) BY <1>6 DEF Sound, Reserves
<1>11. Truth(e, stored)
  <2>1. ASSUME NEW o \in Caller, e.asked[o].status = "OK" PROVE e.asked[o] = d.asked[o]
    BY <1>4, <1>5, <1>6, <2>1
  <2>. QED BY <1>8, <2>1 DEF Sound, Truth
<1>12. Advances(d, e)
  <2>1. d.admitted <= d.admitted /\ d.admitted \in d.admitted..d.admitted BY <1>2
  <2>. QED BY <1>4, <1>5, <1>6, <2>1 DEF Advances, Answers, Tells
<1>13. Calm(d, e, {c}) BY <1>4, <1>6 DEF Calm
<1>. QED BY <1>1, <1>4, <1>6, <1>7, <1>9, <1>10, <1>11, <1>12, <1>13 DEF Sound, Moves, e, a

LEMMA BarrierKeeps ==
    ASSUME NEW d, NEW flying, NEW stored, NEW c \in Caller, Sound(d, flying, stored),
           d.asked[c].status = "NONE"
    PROVE  Sound(Barrier(d, c), flying, stored) /\ Moves(d, Barrier(d, c), {c})
<1>1. Barrier(d, c) = SettleBarriers(Asked(d, c)) BY DEF Barrier, Asked
<1>. DEFINE e == Asked(d, c)
<1>2. Sound(e, flying, stored) /\ Moves(d, e, {c}) BY AskedKeeps
<1>. HIDE DEF e
<1>3. Sound(SettleBarriers(e), flying, stored) /\ Moves(e, SettleBarriers(e), {})
  BY <1>2, SettleKeeps
<1>. QED BY <1>1, <1>2, <1>3, MovesOn DEF e

(* Reservations, the phases of the record and its flags are nobody's answer.  *)
LEMMA AlikeSelf == ASSUME NEW d, Bounded(d) PROVE Alike(d, d)
BY DEF Alike, Bounded

LEMMA HoldAlike ==
    ASSUME NEW d, NEW h \in Anyone, Bounded(d)
    PROVE  Alike(d, Hold(d, h))
BY DEF Hold, Alike, Bounded, DbRecord

LEMMA GivesBack ==
    ASSUME NEW d, NEW gone, Bounded(d)
    PROVE  Alike(d, [d EXCEPT !.held = @ \ gone])
BY DEF Alike, Bounded, DbRecord

LEMMA StateAlike ==
    ASSUME NEW d, NEW s \in {"OPENING", "OPEN", "DEGRADED", "CLOSING", "CLOSED"}, Bounded(d)
    PROVE  Alike(d, [d EXCEPT !.state = s])
BY DEF Alike, Bounded, DbRecord

LEMMA FlagsAlike ==
    ASSUME NEW d, Bounded(d)
    PROVE  Alike(d, [d EXCEPT !.closing = TRUE]) /\ Alike(d, [d EXCEPT !.unavailable = TRUE])
BY DEF Alike, Bounded, DbRecord

LEMMA AlikeBounded ==
    ASSUME NEW d, NEW e, Bounded(d), Alike(d, e) PROVE Bounded(e)
BY DEF Alike, Bounded

LEMMA AlikeOn ==
    ASSUME NEW d, NEW e, NEW f, Alike(d, e), Alike(e, f) PROVE Alike(d, f)
BY DEF Alike

LEMMA CloseAlike ==
    ASSUME NEW d, Bounded(d) PROVE Alike(d, BeginClose(d))
<1>. DEFINE e == [d EXCEPT !.closing = TRUE]
            s == IF d.state = "OPENING" THEN d.state ELSE "CLOSING"
<1>1. Alike(d, e) /\ Bounded(e) BY FlagsAlike, AlikeBounded
<1>2. BeginClose(d) = [e EXCEPT !.state = s] BY DEF BeginClose, Bounded, DbRecord
<1>3. s \in {"OPENING", "OPEN", "DEGRADED", "CLOSING", "CLOSED"} OBVIOUS
<1>. HIDE DEF e, s
<1>. QED BY <1>1, <1>2, <1>3, StateAlike, AlikeOn

LEMMA DiscardAlike ==
    ASSUME NEW d, NEW h, Bounded(d)
    PROVE  Alike(d, Discard(d, h, FALSE))
<1>1. Discard(d, h, FALSE) = [d EXCEPT !.held = @ \ {h}] \/ Discard(d, h, FALSE) = d
  BY DEF Discard
<1>. QED BY <1>1, GivesBack, AlikeSelf

LEMMA DiscardKeeps ==
    ASSUME NEW d, NEW flying, NEW stored, NEW h, NEW gap \in BOOLEAN, Sound(d, flying, stored)
    PROVE  Sound(Discard(d, h, gap), flying, stored) /\ Moves(d, Discard(d, h, gap), {})
<1>1. CASE gap = FALSE BY <1>1, DiscardAlike, AlikeKeeps DEF Sound
<1>2. CASE gap = TRUE
  <2>. DEFINE e == RecordGap(d)
  <2>1. Sound(e, flying, stored) /\ Moves(d, e, {}) BY GapKeeps
  <2>2. Discard(d, h, TRUE) = [e EXCEPT !.held = @ \ {h}] \/ Discard(d, h, TRUE) = d
    BY DEF Discard
  <2>. HIDE DEF e
  <2>3. Alike(e, [e EXCEPT !.held = @ \ {h}]) BY <2>1, GivesBack DEF Sound
  <2>4. /\ Sound([e EXCEPT !.held = @ \ {h}], flying, stored)
        /\ Moves(e, [e EXCEPT !.held = @ \ {h}], {})
    BY <2>1, <2>3, AlikeKeeps
  <2>5. Moves(d, [e EXCEPT !.held = @ \ {h}], {}) BY <2>1, <2>4, MovesOn
  <2>6. Moves(d, d, {}) BY AlikeSelf, AlikeKeeps DEF Sound
  <2>. QED BY <1>2, <2>2, <2>4, <2>5, <2>6
<1>. QED BY <1>1, <1>2

LEMMA KeptAlike == ASSUME NEW d, Bounded(d) PROVE Alike(d, Kept(d))
BY GivesBack DEF Kept

LEMMA SpareAlike == ASSUME NEW d, Bounded(d) PROVE Alike(d, SpareLayout(d))
BY DiscardAlike, AlikeSelf DEF SpareLayout

LEMMA CacheAlike == ASSUME NEW d, Bounded(d) PROVE Alike(d, CacheLayout(d))
<1>. DEFINE e == Discard(d, "layout", FALSE)
<1>1. Alike(d, e) /\ Bounded(e) BY DiscardAlike, AlikeBounded
<1>2. CacheLayout(d) = Hold(e, "layout") \/ CacheLayout(d) = e BY DEF CacheLayout
<1>3. "layout" \in Anyone BY DEF Anyone
<1>. HIDE DEF e
<1>. QED BY <1>1, <1>2, <1>3, HoldAlike, AlikeOn

-----------------------------------------------------------------------------
(* The queue, the lane and the store.                                         *)

JobRecord == [type : {"SESSION", "READ", "DELTA", "CONTEXT"}, of : Anyone,
              number : Nat, count : Nat]
LogRecord == [of : Anyone, number : Nat]
Published(job) == job.type # "READ"

(* The numbers of the publications in a queue, of the batch that is not yet   *)
(* released, and of what is stored.                                           *)
Pending(q) == {q[i].number : i \in {j \in DOMAIN q : Published(q[j])}}
Flying(q, l) == Pending(q) \cup
    IF l.pc \in {"BATCH", "WRITE", "RELEASE"} THEN Numbers(l.jobs) ELSE {}
Stored(s) == {s.log[i].number : i \in DOMAIN s.log}

(* Publications stand in the queue in the order of their numbers, each read   *)
(* before whatever it need not see, and each reader reads once.               *)
QueueOk(q, d) ==
    /\ q \in Seq(JobRecord)
    /\ \A i \in DOMAIN q : Published(q[i]) => q[i].number \in 1..d.admitted
    /\ \A i, j \in DOMAIN q :
          i < j /\ Published(q[i]) /\ Published(q[j]) => q[i].number < q[j].number
    /\ \A i \in DOMAIN q : ~ Published(q[i]) =>
          q[i].of \in Reading /\ d.asked[q[i].of].status = "WAITING"
    /\ \A i, j \in DOMAIN q :
          ~ Published(q[i]) /\ ~ Published(q[j]) /\ q[i].of = q[j].of => i = j
    /\ \A i, j \in DOMAIN q :
          i < j /\ ~ Published(q[i]) /\ Published(q[j]) =>
                d.asked[q[i].of].target < q[j].number

(* A batch: publications, in the order of their numbers.                      *)
Batch(taken) ==
    /\ taken \in Seq(JobRecord)
    /\ \A i \in DOMAIN taken : Published(taken[i])
    /\ \A i, j \in DOMAIN taken : i < j => taken[i].number < taken[j].number

(* What is ready to be written is a part of the batch; the rest is missing.   *)
ReadyOk(l, d) ==
    /\ Batch(l.ready) /\ l.ready # << >>
    /\ Numbers(l.ready) \subseteq Numbers(l.jobs)
    /\ \A n \in Numbers(l.jobs) : n \in Numbers(l.ready) \/ Missed(d, n)

Working == {"BATCH", "WRITE", "RELEASE", "ACKNOWLEDGE", "SETTLE"}
LaneRecord ==
    [pc : Working \cup {"OPENING", "IDLE", "ENDED"}, jobs : Seq(JobRecord),
     ready : Seq(JobRecord), attempt : Nat, failed : BOOLEAN, sequence : Nat,
     handle : BOOLEAN, opened : {"NO", "OK", "REJECTED"}]

(* The batch is behind everything that is stored until it is stored itself;   *)
(* afterwards each of its jobs is stored or told to be missing.               *)
LaneOk(l, s, d) ==
    /\ l \in LaneRecord /\ Batch(l.jobs) /\ (l.pc \in Working => l.jobs # << >>)
    /\ s \in [log : Seq(LogRecord), watermark : Nat]
    /\ s.watermark <= l.sequence /\ (l.pc = "OPENING" => s.watermark = 0)
    /\ Stored(s) \cup Numbers(l.jobs) \subseteq 1..d.admitted
    /\ l.pc = "BATCH" => \A n \in Stored(s), m \in Numbers(l.jobs) : n < m
    /\ l.pc = "WRITE" =>
        /\ ReadyOk(l, d)
        /\ \/ /\ s.watermark < l.sequence
              /\ \A n \in Stored(s), m \in Numbers(l.jobs) : n < m
           \/ s.watermark = l.sequence /\ Numbers(l.ready) \subseteq Stored(s)
    /\ l.pc = "RELEASE" /\ l.failed => ReadyOk(l, d)
    /\ \/ l.pc = "RELEASE" /\ ~ l.failed
       \/ l.pc \in {"ACKNOWLEDGE", "SETTLE"}
       => \A n \in Numbers(l.jobs) : n \in Stored(s) \/ Missed(d, n)

(* What the lane has still to take is behind what it has taken.               *)
Ahead(q, l, s) == \A n \in Stored(s) \cup Numbers(l.jobs), m \in Pending(q) : n < m

Good(d, q, l, s) ==
    /\ Sound(d, Flying(q, l), Stored(s))
    /\ QueueOk(q, d) /\ LaneOk(l, s, d) /\ Ahead(q, l, s)

LEMMA NumbersFacts ==
    ASSUME NEW taken, taken \in Seq(JobRecord)
    PROVE  /\ DOMAIN taken = 1..Len(taken) /\ Len(taken) \in Nat
           /\ \A i \in DOMAIN taken : taken[i] \in JobRecord /\ taken[i].number \in Nat
           /\ Numbers(taken) = {taken[i].number : i \in DOMAIN taken}
           /\ Numbers(taken) \subseteq Nat
           /\ Pending(taken) \subseteq Nat
<1>1. DOMAIN taken = 1..Len(taken) /\ Len(taken) \in Nat BY LenProperties
<1>2. \A i \in DOMAIN taken : taken[i] \in JobRecord BY <1>1, ElementOfSeq
<1>3. \A i \in DOMAIN taken : taken[i].number \in Nat BY <1>2 DEF JobRecord
<1>. QED BY <1>1, <1>2, <1>3 DEF Numbers, Pending

(* A move of the record leaves the queue, the lane and the store as good.     *)
LEMMA GoodMoves ==
    ASSUME NEW d, NEW e, NEW q, NEW l, NEW s, NEW C, Good(d, q, l, s), Moves(d, e, C),
           Sound(e, Flying(q, l), Stored(s))
    PROVE  Good(e, q, l, s)
<1>1. d.admitted \in Nat /\ e.admitted \in Nat /\ d.admitted <= e.admitted
  BY BoundedFacts DEF Moves, Advances
<1>2. QueueOk(q, e)
  <2>0. QueueOk(q, d) BY DEF Good
  <2>1. \A i \in DOMAIN q : Published(q[i]) => q[i].number \in 1..e.admitted
    BY <1>1, <2>0 DEF QueueOk
  <2>2. ASSUME NEW i \in DOMAIN q, ~ Published(q[i])
        PROVE  q[i].of \in Reading /\ e.asked[q[i].of] = d.asked[q[i].of]
    <3>1. q[i].of \in Reading /\ d.asked[q[i].of].status = "WAITING" BY <2>0, <2>2 DEF QueueOk
    <3>2. q[i].of \in Caller BY <3>1 DEF Reading, Caller
    <3>. QED BY <3>1, <3>2 DEF Moves, Calm
  <2>. QED BY <2>0, <2>1, <2>2 DEF QueueOk
<1>3. LaneOk(l, s, e)
  <2>0. LaneOk(l, s, d) BY DEF Good
  <2>1. Stored(s) \cup Numbers(l.jobs) \subseteq 1..e.admitted BY <1>1, <2>0 DEF LaneOk
  <2>2. \A n \in Nat : Missed(d, n) => Missed(e, n) BY MissedOn DEF Moves, Advances
  <2>3. \A n \in Numbers(l.jobs) : n \in Nat BY <1>1, <2>0 DEF LaneOk
  <2>4. ReadyOk(l, d) => ReadyOk(l, e) BY <2>2, <2>3 DEF ReadyOk
  <2>. QED BY <2>0, <2>1, <2>2, <2>3, <2>4 DEF LaneOk
<1>. QED BY <1>2, <1>3 DEF Good

LEMMA GoodAlike ==
    ASSUME NEW d, NEW e, NEW q, NEW l, NEW s, Good(d, q, l, s), Alike(d, e)
    PROVE  Good(e, q, l, s) /\ Moves(d, e, {})
BY AlikeKeeps, GoodMoves DEF Good
LEMMA GoodGaps ==
    ASSUME NEW d, NEW q, NEW l, NEW s, NEW k \in Nat, Good(d, q, l, s)
    PROVE  Good(Gaps(d, k), q, l, s) /\ Moves(d, Gaps(d, k), {})
BY GapsKeep, GoodMoves DEF Good
LEMMA GoodGap ==
    ASSUME NEW d, NEW q, NEW l, NEW s, Good(d, q, l, s)
    PROVE  Good(RecordGap(d), q, l, s) /\ Moves(d, RecordGap(d), {})
BY GapKeeps, GoodMoves DEF Good
LEMMA GoodFails ==
    ASSUME NEW d, NEW q, NEW l, NEW s, NEW n \in Nat, n <= d.admitted, Good(d, q, l, s)
    PROVE  /\ Good(Failure(d, n), q, l, s) /\ Moves(d, Failure(d, n), {})
           /\ \A m \in Nat : n <= m => Missed(Failure(d, n), m)
BY SoundFails, GoodMoves DEF Good
LEMMA GoodDiscards ==
    ASSUME NEW d, NEW q, NEW l, NEW s, NEW h, NEW gap \in BOOLEAN, Good(d, q, l, s)
    PROVE  Good(Discard(d, h, gap), q, l, s) /\ Moves(d, Discard(d, h, gap), {})
BY DiscardKeeps, GoodMoves DEF Good
LEMMA GoodBarrier ==
    ASSUME NEW d, NEW q, NEW l, NEW s, NEW c \in Caller, Good(d, q, l, s),
           d.asked[c].status = "NONE"
    PROVE  Good(Barrier(d, c), q, l, s) /\ Moves(d, Barrier(d, c), {c})
BY BarrierKeeps, GoodMoves DEF Good
LEMMA GoodUnreserved ==
    ASSUME NEW d, NEW q, NEW l, NEW s, Good(d, q, l, s)
    PROVE  Good(Unreserved(d), q, l, s) /\ Moves(d, Unreserved(d), {})
<1>1. Bounded(d) BY DEF Good, Sound
<1>2. 0 <= d.admitted BY <1>1, BoundedFacts
<1>. QED BY <1>2, GoodFails, GoodGap DEF Unreserved

-----------------------------------------------------------------------------
(* What is appended to the queue.                                             *)
LEMMA AppendFacts ==
    ASSUME NEW S, NEW q \in Seq(S), NEW job \in S
    PROVE  /\ Append(q, job) \in Seq(S)
           /\ \A i \in DOMAIN q : i \in DOMAIN Append(q, job) /\ Append(q, job)[i] = q[i]
           /\ Len(q) + 1 \in DOMAIN Append(q, job) /\ Append(q, job)[Len(q) + 1] = job
           /\ \A i \in DOMAIN Append(q, job) : i \in DOMAIN q \/ i = Len(q) + 1
           /\ \A i \in DOMAIN q : i < Len(q) + 1
           /\ \A i \in DOMAIN Append(q, job) : i \in Nat /\ ~ (Len(q) + 1 < i)
<1>. DEFINE r == Append(q, job)
<1>1. /\ r \in Seq(S) /\ Len(r) = Len(q) + 1 /\ \A i \in 1..Len(q) : r[i] = q[i]
      /\ r[Len(q) + 1] = job
  BY AppendProperties
<1>2. DOMAIN q = 1..Len(q) /\ DOMAIN r = 1..Len(r) /\ Len(q) \in Nat BY <1>1, LenProperties
<1>. HIDE DEF r
<1>. QED BY <1>1, <1>2 DEF r

LEMMA JobIsRecord ==
    ASSUME NEW t \in {"SESSION", "READ", "DELTA", "CONTEXT"}, NEW o \in Anyone,
           NEW n \in Nat, NEW k \in Nat
    PROVE  /\ Job(t, o, n, k) \in JobRecord /\ Job(t, o, n, k).type = t
           /\ Job(t, o, n, k).of = o /\ Job(t, o, n, k).number = n
BY DEF Job, JobRecord

LEMMA GoodPublishes ==
    ASSUME NEW d, NEW q, NEW l, NEW s, NEW h, NEW t \in {"SESSION", "DELTA", "CONTEXT"},
           NEW o \in Anyone, NEW k \in Nat, Good(d, q, l, s)
    PROVE  /\ Good(Publish(d, h), Append(q, Job(t, o, d.admitted + 1, k)), l, s)
           /\ Moves(d, Publish(d, h), {})
<1>. DEFINE n == d.admitted + 1
            e == Publish(d, h)
            job == Job(t, o, n, k)
            r == Append(q, job)
<1>1. d.admitted \in Nat /\ n \in Nat BY BoundedFacts DEF Good, Sound
<1>2. job \in JobRecord /\ Published(job) /\ job.number = n
  BY <1>1, JobIsRecord DEF Published
<1>3. QueueOk(q, d) /\ LaneOk(l, s, d) /\ Ahead(q, l, s) BY DEF Good
<1>4. q \in Seq(JobRecord) BY <1>3 DEF QueueOk
<1>. HIDE DEF job
<1>5. /\ r \in Seq(JobRecord)
      /\ \A i \in DOMAIN q : i \in DOMAIN r /\ r[i] = q[i]
      /\ Len(q) + 1 \in DOMAIN r /\ r[Len(q) + 1] = job
      /\ \A i \in DOMAIN r : i \in DOMAIN q \/ i = Len(q) + 1
      /\ \A i \in DOMAIN q : i < Len(q) + 1
      /\ \A i \in DOMAIN r : i \in Nat /\ ~ (Len(q) + 1 < i)
  BY <1>2, <1>4, AppendFacts
<1>6. Len(q) \in Nat BY <1>4, LenProperties
<1>. HIDE DEF r
<1>7. Pending(r) = Pending(q) \cup {n}
  <2>1. Pending(r) \subseteq Pending(q) \cup {n} BY <1>2, <1>5 DEF Pending
  <2>2. Pending(q) \subseteq Pending(r) BY <1>5 DEF Pending
  <2>3. n \in Pending(r) BY <1>2, <1>5 DEF Pending
  <2>. QED BY <2>1, <2>2, <2>3
<1>8. Flying(r, l) = Flying(q, l) \cup {n} BY <1>7 DEF Flying
<1>. HIDE DEF n
<1>9. /\ Sound(e, Flying(r, l), Stored(s)) /\ Moves(d, e, {})
      /\ e.admitted = d.admitted + 1 /\ e.asked = d.asked
  BY <1>8, PublishKeeps DEF Good, n
<1>. HIDE DEF e
<1>10. QueueOk(r, e)
  <2>1. \A i \in DOMAIN r : Published(r[i]) => r[i].number \in 1..e.admitted
    <3>1. n \in 1..e.admitted BY <1>1, <1>9 DEF n
    <3>2. \A m \in 1..d.admitted : m \in 1..e.admitted BY <1>1, <1>9
    <3>. QED BY <1>2, <1>3, <1>5, <3>1, <3>2 DEF QueueOk
  <2>2. \A m \in 1..d.admitted : m < n BY <1>1 DEF n
  <2>3. \A i, j \in DOMAIN r :
            i < j /\ Published(r[i]) /\ Published(r[j]) => r[i].number < r[j].number
    BY <1>2, <1>3, <1>5, <1>6, <2>2 DEF QueueOk
  <2>4. \A i \in DOMAIN r : ~ Published(r[i]) =>
            i \in DOMAIN q /\ r[i] = q[i] /\ r[i].of \in Reading /\ e.asked[r[i].of].status = "WAITING"
    BY <1>2, <1>3, <1>5, <1>9 DEF QueueOk
  <2>5. \A i, j \in DOMAIN r :
            ~ Published(r[i]) /\ ~ Published(r[j]) /\ r[i].of = r[j].of => i = j
    BY <1>3, <2>4 DEF QueueOk
  <2>6. ASSUME NEW i \in DOMAIN r, NEW j \in DOMAIN r, i < j, ~ Published(r[i]), Published(r[j])
        PROVE  e.asked[r[i].of].target < r[j].number
    <3>1. i \in DOMAIN q /\ r[i] = q[i] /\ q[i].of \in Caller
      BY <2>4, <2>6 DEF Reading, Caller
    <3>2. CASE j \in DOMAIN q BY <1>3, <1>5, <1>9, <2>6, <3>1, <3>2 DEF QueueOk
    <3>3. CASE j = Len(q) + 1
      <4>1. d.asked[q[i].of].target \in Nat /\ d.asked[q[i].of].target <= d.admitted
        BY <3>1, BoundedFacts DEF Good, Sound
      <4>. QED BY <1>1, <1>2, <1>5, <1>9, <3>1, <3>3, <4>1 DEF n
    <3>. QED BY <1>5, <3>2, <3>3
  <2>. QED BY <1>5, <2>1, <2>3, <2>4, <2>5, <2>6 DEF QueueOk
<1>11. LaneOk(l, s, e)
  <2>1. \A m \in Nat : Missed(d, m) => Missed(e, m) BY <1>9, MissedOn DEF Moves, Advances
  <2>2. \A m \in Numbers(l.jobs) : m \in Nat BY <1>1, <1>3 DEF LaneOk
  <2>3. ReadyOk(l, d) => ReadyOk(l, e) BY <2>1, <2>2 DEF ReadyOk
  <2>4. Stored(s) \cup Numbers(l.jobs) \subseteq 1..e.admitted BY <1>1, <1>3, <1>9 DEF LaneOk
  <2>. QED BY <1>3, <2>1, <2>2, <2>3, <2>4 DEF LaneOk
<1>12. Ahead(r, l, s)
  <2>1. \A m \in Stored(s) \cup Numbers(l.jobs) : m < n BY <1>1, <1>3 DEF LaneOk, n
  <2>. QED BY <1>3, <1>7, <2>1 DEF Ahead
<1>. QED BY <1>9, <1>10, <1>11, <1>12 DEF Good, e, r, job, n

LEMMA GoodAsks ==
    ASSUME NEW d, NEW q, NEW l, NEW s, NEW c \in Reading, Good(d, q, l, s),
           d.asked[c].status = "NONE"
    PROVE  /\ Good(Asked(d, c), Append(q, Job("READ", c, 0, 0)), l, s)
           /\ Moves(d, Asked(d, c), {c})
<1>. DEFINE e == Asked(d, c)
            job == Job("READ", c, 0, 0)
            r == Append(q, job)
<1>1. c \in Caller /\ c \in Anyone BY DEF Reading, Caller, Anyone
<1>2. job \in JobRecord /\ ~ Published(job) /\ job.of = c
  BY <1>1, JobIsRecord DEF Published
<1>3. QueueOk(q, d) /\ LaneOk(l, s, d) /\ Ahead(q, l, s) /\ Sound(d, Flying(q, l), Stored(s))
  BY DEF Good
<1>4. q \in Seq(JobRecord) BY <1>3 DEF QueueOk
<1>. HIDE DEF job
<1>5. /\ r \in Seq(JobRecord)
      /\ \A i \in DOMAIN q : i \in DOMAIN r /\ r[i] = q[i]
      /\ Len(q) + 1 \in DOMAIN r /\ r[Len(q) + 1] = job
      /\ \A i \in DOMAIN r : i \in DOMAIN q \/ i = Len(q) + 1
      /\ \A i \in DOMAIN q : i < Len(q) + 1
      /\ \A i \in DOMAIN r : i \in Nat /\ ~ (Len(q) + 1 < i)
  BY <1>2, <1>4, AppendFacts
<1>6. Len(q) \in Nat BY <1>4, LenProperties
<1>. HIDE DEF r
<1>7. Pending(r) = Pending(q)
  <2>1. Pending(r) \subseteq Pending(q) BY <1>2, <1>5 DEF Pending
  <2>2. Pending(q) \subseteq Pending(r) BY <1>5 DEF Pending
  <2>. QED BY <2>1, <2>2
<1>8. Flying(r, l) = Flying(q, l) BY <1>7 DEF Flying
<1>9. /\ Sound(e, Flying(q, l), Stored(s)) /\ Moves(d, e, {c}) /\ e.admitted = d.admitted
      /\ e.asked[c] = [status |-> "WAITING", target |-> d.admitted]
      /\ \A o \in Caller : o # c => e.asked[o] = d.asked[o]
  BY <1>1, <1>3, AskedKeeps
<1>. HIDE DEF e
<1>10. Good(e, q, l, s) BY <1>9, GoodMoves
<1>11. \A i \in DOMAIN q : ~ Published(q[i]) =>
          q[i].of \in Reading /\ q[i].of \in Caller /\ q[i].of # c
  BY <1>3 DEF QueueOk, Reading, Caller
<1>12. QueueOk(r, e)
  <2>0. QueueOk(q, e) BY <1>10 DEF Good
  <2>1. \A i \in DOMAIN r : Published(r[i]) => i \in DOMAIN q /\ r[i] = q[i]
    BY <1>2, <1>5
  <2>2. \A i \in DOMAIN r : Published(r[i]) => r[i].number \in 1..e.admitted
    BY <2>0, <2>1 DEF QueueOk
  <2>3. \A i, j \in DOMAIN r :
            i < j /\ Published(r[i]) /\ Published(r[j]) => r[i].number < r[j].number
    BY <2>0, <2>1 DEF QueueOk
  <2>4. \A i \in DOMAIN r : ~ Published(r[i]) =>
            r[i].of \in Reading /\ e.asked[r[i].of].status = "WAITING"
    BY <1>2, <1>5, <1>9, <2>0 DEF QueueOk
  <2>5. \A i, j \in DOMAIN r :
            ~ Published(r[i]) /\ ~ Published(r[j]) /\ r[i].of = r[j].of => i = j
    BY <1>2, <1>5, <1>11, <2>0 DEF QueueOk
  <2>6. \A i, j \in DOMAIN r :
            i < j /\ ~ Published(r[i]) /\ Published(r[j]) =>
                e.asked[r[i].of].target < r[j].number
    <3>1. ASSUME NEW i \in DOMAIN r, NEW j \in DOMAIN r, i < j, ~ Published(r[i]), Published(r[j])
          PROVE  e.asked[r[i].of].target < r[j].number
      <4>1. j \in DOMAIN q /\ r[j] = q[j] BY <2>1, <3>1
      <4>2. i \in DOMAIN q /\ r[i] = q[i] BY <1>5, <1>6, <3>1, <4>1
      <4>. QED BY <2>0, <3>1, <4>1, <4>2 DEF QueueOk
    <3>. QED BY <3>1
  <2>. QED BY <1>5, <2>2, <2>3, <2>4, <2>5, <2>6 DEF QueueOk
<1>13. Ahead(r, l, s) BY <1>3, <1>7 DEF Ahead
<1>. QED BY <1>8, <1>9, <1>10, <1>12, <1>13 DEF Good, e, r, job

(* The accumulated contributions leave as one publication, or as a gap.       *)
Learned(l) == l = [made |-> l.made, pending |-> l.pending,
                   acknowledged |-> l.acknowledged, lost |-> l.lost] /\ l.pending \in Nat

LEMMA LearnedOn ==
    ASSUME NEW l, Learned(l), NEW n \in Nat, NEW x
    PROVE  /\ Learned([l EXCEPT !.pending = n]) /\ Learned([l EXCEPT !.lost = x])
           /\ Learned([l EXCEPT !.made = x]) /\ Learned([l EXCEPT !.acknowledged = x])
BY DEF Learned

LEMMA GoodDrains ==
    ASSUME NEW d, NEW q, NEW l, NEW s, NEW a, Good(d, q, l, s), Learned(a)
    PROVE  /\ Good(Drain(d, q, a).db, Drain(d, q, a).queue, l, s)
           /\ Moves(d, Drain(d, q, a).db, {}) /\ Learned(Drain(d, q, a).learning)
<1>1. a.pending \in Nat BY DEF Learned
<1>2. CASE a.pending = 0
  <2>1. Drain(d, q, a) = [db |-> d, queue |-> q, learning |-> a] BY <1>2 DEF Drain
  <2>2. Alike(d, d) BY AlikeSelf DEF Good, Sound
  <2>. QED BY <2>1, <2>2, GoodAlike
<1>3. CASE a.pending > 0 /\ (d.unavailable \/ d.closing)
  <2>. DEFINE e == Discard(d, "delta", FALSE)
              b == [a EXCEPT !.pending = 0, !.lost = @ + a.pending]
  <2>1. Drain(d, q, a) = [db |-> RecordGap(e), queue |-> q, learning |-> b]
    BY <1>1, <1>3 DEF Drain
  <2>2. Good(e, q, l, s) /\ Moves(d, e, {}) BY GoodDiscards
  <2>. HIDE DEF e
  <2>3. Good(RecordGap(e), q, l, s) /\ Moves(e, RecordGap(e), {}) BY <2>2, GoodGap
  <2>4. Moves(d, RecordGap(e), {}) BY <2>2, <2>3, MovesOn
  <2>5. Learned(b)
    <3>. DEFINE c == [a EXCEPT !.pending = 0]
    <3>1. b = [c EXCEPT !.lost = a.lost + a.pending] BY DEF Learned
    <3>2. Learned(c) BY LearnedOn
    <3>. HIDE DEF b, c
    <3>. QED BY <3>1, <3>2, LearnedOn
  <2>. QED BY <2>1, <2>3, <2>4, <2>5
<1>4. CASE a.pending > 0 /\ ~ (d.unavailable \/ d.closing)
  <2>. DEFINE b == [a EXCEPT !.pending = 0]
              r == Append(q, Job("DELTA", "delta", d.admitted + 1, a.pending))
  <2>1. Drain(d, q, a) = [db |-> Publish(d, "delta"), queue |-> r, learning |-> b]
    BY <1>1, <1>4 DEF Drain
  <2>2. "delta" \in Anyone BY DEF Anyone
  <2>3. Good(Publish(d, "delta"), r, l, s) /\ Moves(d, Publish(d, "delta"), {})
    BY <1>1, <2>2, GoodPublishes
  <2>4. Learned(b) BY DEF Learned
  <2>. QED BY <2>1, <2>3, <2>4
<1>. QED BY <1>1, <1>2, <1>3, <1>4

-----------------------------------------------------------------------------
(* What is taken from the queue, and what is taken out of a batch.            *)
LEMMA CutFacts ==
    ASSUME NEW S, NEW q \in Seq(S), NEW k \in 0..Len(q)
    PROVE  /\ SubSeq(q, 1, k) \in Seq(S) /\ Len(SubSeq(q, 1, k)) = k
           /\ \A i \in 1..k : i \in DOMAIN q /\ SubSeq(q, 1, k)[i] = q[i]
           /\ SubSeq(q, k + 1, Len(q)) \in Seq(S)
           /\ Len(SubSeq(q, k + 1, Len(q))) = Len(q) - k
           /\ \A i \in 1..(Len(q) - k) :
                k + i \in DOMAIN q /\ SubSeq(q, k + 1, Len(q))[i] = q[k + i]
<1>. DEFINE n == Len(q)
            a == SubSeq(q, 1, k)
            b == SubSeq(q, k + 1, n)
<1>1. n \in Nat /\ DOMAIN q = 1..n /\ k \in Nat /\ k <= n BY LenProperties
<1>2. \A i \in 1..k : i \in DOMAIN q /\ q[i] \in S BY <1>1, ElementOfSeq
<1>3. \A i \in (k + 1)..n : i \in DOMAIN q /\ q[i] \in S BY <1>1, ElementOfSeq
<1>. HIDE DEF n
<1>4. /\ a \in Seq(S) /\ Len(a) = IF 1 <= k THEN k - 1 + 1 ELSE 0
      /\ \A i \in 1..(k - 1 + 1) : a[i] = q[1 + i - 1]
  BY <1>1, <1>2, SubSeqProperties
<1>5. /\ b \in Seq(S) /\ Len(b) = IF k + 1 <= n THEN n - (k + 1) + 1 ELSE 0
      /\ \A i \in 1..(n - (k + 1) + 1) : b[i] = q[(k + 1) + i - 1]
  BY <1>1, <1>3, SubSeqProperties
<1>. HIDE DEF a, b
<1>6. Len(a) = k /\ Len(b) = n - k BY <1>1, <1>4, <1>5
<1>7. ASSUME NEW i \in 1..k PROVE i \in DOMAIN q /\ a[i] = q[i]
  <2>1. 1 + i - 1 = i /\ i \in 1..(k - 1 + 1) BY <1>1
  <2>. QED BY <1>2, <1>4, <2>1
<1>8. ASSUME NEW i \in 1..(n - k) PROVE k + i \in DOMAIN q /\ b[i] = q[k + i]
  <2>1. /\ (k + 1) + i - 1 = k + i /\ k + i \in (k + 1)..n
        /\ i \in 1..(n - (k + 1) + 1)
    BY <1>1
  <2>. QED BY <1>3, <1>5, <2>1
<1>. QED BY <1>4, <1>5, <1>6, <1>7, <1>8 DEF a, b, n

LEMMA RestOk ==
    ASSUME NEW d, NEW q, NEW k \in 0..Len(q), NEW r, QueueOk(q, d),
           r = SubSeq(q, k + 1, Len(q))
    PROVE  /\ QueueOk(r, d) /\ \A n \in Pending(r) : n \in Pending(q)
           /\ \A i \in DOMAIN r : k + i \in DOMAIN q /\ r[i] = q[k + i]
           /\ \A j \in DOMAIN q : k < j => j - k \in DOMAIN r /\ r[j - k] = q[j]
<1>1. q \in Seq(JobRecord) BY DEF QueueOk
<1>2. Len(q) \in Nat /\ DOMAIN q = 1..Len(q) /\ k \in Nat BY <1>1, LenProperties
<1>3. /\ r \in Seq(JobRecord) /\ Len(r) = Len(q) - k
      /\ \A i \in 1..(Len(q) - k) : k + i \in DOMAIN q /\ r[i] = q[k + i]
  BY <1>1, CutFacts
<1>4. DOMAIN r = 1..(Len(q) - k) BY <1>3, LenProperties
<1>5. \A i \in DOMAIN r : i \in Nat /\ k + i \in DOMAIN q /\ r[i] = q[k + i] BY <1>3, <1>4
<1>6. \A j \in DOMAIN q : k < j => j - k \in DOMAIN r /\ r[j - k] = q[j]
  <2>1. ASSUME NEW j \in DOMAIN q, k < j PROVE j - k \in 1..(Len(q) - k) /\ k + (j - k) = j
    BY <1>2, <2>1
  <2>. QED BY <1>3, <1>4, <2>1
<1>7. \A i, j \in DOMAIN r : (i < j => k + i < k + j) /\ (k + i = k + j => i = j)
  BY <1>2, <1>5
<1>8. QueueOk(r, d)
  <2>1. \A i \in DOMAIN r : Published(r[i]) => r[i].number \in 1..d.admitted
    BY <1>5 DEF QueueOk
  <2>2. \A i, j \in DOMAIN r :
            i < j /\ Published(r[i]) /\ Published(r[j]) => r[i].number < r[j].number
    BY <1>5, <1>7 DEF QueueOk
  <2>3. \A i \in DOMAIN r : ~ Published(r[i]) =>
            r[i].of \in Reading /\ d.asked[r[i].of].status = "WAITING"
    BY <1>5 DEF QueueOk
  <2>4. \A i, j \in DOMAIN r :
            ~ Published(r[i]) /\ ~ Published(r[j]) /\ r[i].of = r[j].of => i = j
    BY <1>5, <1>7 DEF QueueOk
  <2>5. \A i, j \in DOMAIN r :
            i < j /\ ~ Published(r[i]) /\ Published(r[j]) =>
                d.asked[r[i].of].target < r[j].number
    BY <1>5, <1>7 DEF QueueOk
  <2>. QED BY <1>3, <2>1, <2>2, <2>3, <2>4, <2>5 DEF QueueOk
<1>9. Pending(r) \subseteq Pending(q) BY <1>5 DEF Pending
<1>. QED BY <1>5, <1>6, <1>8, <1>9

LEMMA TailOk ==
    ASSUME NEW d, NEW q, NEW r, QueueOk(q, d), q # << >>, r = Tail(q)
    PROVE  /\ QueueOk(r, d)
           /\ \A i \in DOMAIN r : 1 + i \in DOMAIN q /\ r[i] = q[1 + i]
           /\ \A j \in DOMAIN q : 1 < j => j - 1 \in DOMAIN r /\ r[j - 1] = q[j]
<1>1. q \in Seq(JobRecord) BY DEF QueueOk
<1>2. 1 \in 0..Len(q) /\ r = SubSeq(q, 2, Len(q))
  BY <1>1, LenProperties, EmptySeq, TailIsSubSeq
<1>3. ASSUME NEW k \in 0..Len(q), k = 1
      PROVE  /\ QueueOk(r, d)
             /\ \A i \in DOMAIN r : k + i \in DOMAIN q /\ r[i] = q[k + i]
             /\ \A j \in DOMAIN q : k < j => j - k \in DOMAIN r /\ r[j - k] = q[j]
  <2>1. r = SubSeq(q, k + 1, Len(q)) BY <1>2, <1>3
  <2>2. QueueOk(r, d) BY <2>1, RestOk
  <2>3. \A i \in DOMAIN r : k + i \in DOMAIN q /\ r[i] = q[k + i] BY <2>1, RestOk
  <2>4. \A j \in DOMAIN q : k < j => j - k \in DOMAIN r /\ r[j - k] = q[j] BY <2>1, RestOk
  <2>. QED BY <2>2, <2>3, <2>4
<1>. QED BY <1>2, <1>3

LEMMA RemoveFacts ==
    ASSUME NEW S, NEW q \in Seq(S), NEW k \in 1..Len(q)
    PROVE  /\ RemoveAt(q, k) \in Seq(S) /\ Len(RemoveAt(q, k)) = Len(q) - 1
           /\ \A i \in DOMAIN RemoveAt(q, k) :
                RemoveAt(q, k)[i] = IF i < k THEN q[i] ELSE q[i + 1]
<1>. DEFINE a == SubSeq(q, 1, k - 1)
            b == SubSeq(q, k + 1, Len(q))
<1>1. Len(q) \in Nat /\ k \in Nat /\ k \in 0..Len(q) /\ k - 1 \in 0..Len(q) BY LenProperties
<1>2. a \in Seq(S) /\ Len(a) = k - 1 /\ \A i \in 1..(k - 1) : a[i] = q[i]
  BY <1>1, CutFacts
<1>3. b \in Seq(S) /\ Len(b) = Len(q) - k /\ \A i \in 1..(Len(q) - k) : b[i] = q[k + i]
  BY <1>1, CutFacts
<1>. HIDE DEF a, b
<1>4. /\ a \o b \in Seq(S) /\ Len(a \o b) = (k - 1) + (Len(q) - k)
      /\ \A i \in 1..((k - 1) + (Len(q) - k)) :
            (a \o b)[i] = IF i <= k - 1 THEN a[i] ELSE b[i - (k - 1)]
  <2>1. /\ a \o b \in Seq(S) /\ Len(a \o b) = Len(a) + Len(b)
        /\ \A i \in 1..Len(a) + Len(b) :
              (a \o b)[i] = IF i <= Len(a) THEN a[i] ELSE b[i - Len(a)]
    BY <1>2, <1>3, ConcatProperties
  <2>. QED BY <1>2, <1>3, <2>1
<1>5. RemoveAt(q, k) = a \o b BY DEF RemoveAt, a, b
<1>. DEFINE r == RemoveAt(q, k)
<1>. HIDE DEF r
<1>6. r \in Seq(S) /\ Len(r) = Len(q) - 1 /\ DOMAIN r = 1..(Len(q) - 1)
  BY <1>1, <1>4, <1>5, LenProperties DEF r
<1>7. ASSUME NEW i \in DOMAIN r PROVE r[i] = IF i < k THEN q[i] ELSE q[i + 1]
  <2>1. i \in Nat /\ i \in 1..((k - 1) + (Len(q) - k)) BY <1>1, <1>6
  <2>2. r[i] = IF i <= k - 1 THEN a[i] ELSE b[i - (k - 1)] BY <1>4, <1>5, <2>1 DEF r
  <2>3. CASE i < k
    <3>1. i <= k - 1 /\ i \in 1..(k - 1) BY <1>1, <2>1, <2>3
    <3>. QED BY <1>2, <2>2, <2>3, <3>1
  <2>4. CASE ~ (i < k)
    <3>1. ~ (i <= k - 1) /\ i - (k - 1) \in 1..(Len(q) - k) /\ k + (i - (k - 1)) = i + 1
      BY <1>1, <2>1, <2>4
    <3>. QED BY <1>3, <2>2, <2>4, <3>1
  <2>. QED BY <2>3, <2>4
<1>. QED BY <1>6, <1>7 DEF r

-----------------------------------------------------------------------------
(* The lane's steps.                                                          *)

(* The log grows at its end, in the order of the numbers.                     *)
LogKeeps(s, t) ==
    \/ t.log = s.log
    \/ /\ Len(s.log) <= Len(t.log) /\ \A i \in 1..Len(s.log) : t.log[i] = s.log[i]
       /\ \A i \in (Len(s.log) + 1)..Len(t.log) :
            i > 1 => t.log[i].number > t.log[i - 1].number

(* Startup and shutdown are waited for by the recorder alone.                 *)
NobodyElse(d, e) ==
    \A c \in Recording : d.asked[c].status = "NONE" => e.asked[c] = d.asked[c]

LEMMA CallersApart ==
    /\ Recording \subseteq Caller /\ Reading \subseteq Caller /\ Recording \cap Reading = {}
    /\ Flusher \subseteq Caller /\ Recording \cap Flusher = {} /\ Caller \subseteq Anyone
<1>1. Recording \cap {"profiles"} = {} BY DEF Recording
<1>. QED BY <1>1, LaneAssumption DEF Caller, Reading, Recording, Anyone

LEMMA MovesApart ==
    ASSUME NEW d, NEW e, NEW C, Moves(d, e, C), C \cap Recording = {}
    PROVE  NobodyElse(d, e) /\ Advances(d, e)
BY CallersApart DEF Moves, Calm, NobodyElse

LEMMA TakeReadKeeps ==
    ASSUME NEW d, NEW q, NEW l, NEW s, NEW x \in {"OK", "FAILED"}, Good(d, q, l, s),
           l.pc = "IDLE", q # << >>, Head(q).type = "READ"
    PROVE  LET e == [d EXCEPT !.asked[Head(q).of].status = x]
           IN  Good(e, Tail(q), l, s) /\ Advances(d, e) /\ NobodyElse(d, e)
<1>. DEFINE c == q[1].of
            a == [d.asked[c] EXCEPT !.status = x]
            new == [d.asked EXCEPT ![c] = a]
            e == [d EXCEPT !.asked = new]
            r == Tail(q)
<1>0. QueueOk(q, d) /\ LaneOk(l, s, d) /\ Ahead(q, l, s) /\ Sound(d, Flying(q, l), Stored(s))
  BY DEF Good
<1>1. /\ q \in Seq(JobRecord) /\ Len(q) \in Nat /\ DOMAIN q = 1..Len(q) /\ Len(q) # 0
      /\ Head(q) = q[1]
  BY <1>0, LenProperties, EmptySeq DEF QueueOk
<1>2. 1 \in DOMAIN q /\ ~ Published(q[1]) BY <1>1 DEF Published
<1>3. c \in Reading /\ c \in Caller /\ c \notin Recording /\ c \in Passing
      /\ d.asked[c].status = "WAITING"
  BY <1>0, <1>2, CallersApart DEF QueueOk, Passing
<1>4. Bounded(d) BY <1>0 DEF Sound
<1>5. d.asked \in [Caller -> AskRecord] /\ d.asked[c] \in AskRecord BY <1>3, <1>4, BoundedFacts
<1>6. a \in AskRecord /\ a.status = x /\ a.target = d.asked[c].target
  BY <1>5 DEF AskRecord, Status
<1>7. [d EXCEPT !.asked[Head(q).of].status = x] = e BY <1>1
<1>. HIDE DEF a
<1>8. new \in [Caller -> AskRecord] /\ new[c] = a /\ \A o \in Caller : o # c => new[o] = d.asked[o]
  BY <1>3, <1>5, <1>6
<1>. HIDE DEF new, c
<1>9. /\ e \in DbRecord /\ e.admitted = d.admitted /\ e.settled = d.settled
      /\ e.first = d.first /\ e.published = d.published /\ e.asked = new
  BY <1>4, <1>8 DEF Bounded, DbRecord
<1>. HIDE DEF e
<1>10. \A o \in Caller : e.asked[o].target = d.asked[o].target BY <1>6, <1>8, <1>9
<1>11. Bounded(e) BY <1>4, <1>9, <1>10 DEF Bounded
<1>12. \A n : Missed(e, n) <=> Missed(d, n) BY <1>9 DEF Missed, Failed
<1>14. /\ QueueOk(r, d)
       /\ \A i \in DOMAIN r : 1 + i \in DOMAIN q /\ r[i] = q[1 + i]
       /\ \A j \in DOMAIN q : 1 < j => j - 1 \in DOMAIN r /\ r[j - 1] = q[j]
  <2>0. QueueOk(q, d) BY <1>0
  <2>1. r = Tail(q) OBVIOUS
  <2>. HIDE DEF r
  <2>2. QueueOk(r, d) BY <2>0, <2>1, TailOk
  <2>3. \A i \in DOMAIN r : 1 + i \in DOMAIN q /\ r[i] = q[1 + i] BY <2>0, <2>1, TailOk
  <2>4. \A j \in DOMAIN q : 1 < j => j - 1 \in DOMAIN r /\ r[j - 1] = q[j]
    <3>1. q # << >> OBVIOUS
    <3>. QED BY ONLY <2>0, <2>1, <3>1, TailOk
  <2>. QED BY <2>2, <2>3, <2>4
<1>15. DOMAIN r \subseteq Nat BY <1>14, LenProperties DEF QueueOk
<1>. HIDE DEF r
<1>16. Pending(q) = Pending(r)
  <2>1. ASSUME NEW j \in DOMAIN q, Published(q[j]) PROVE 1 < j BY <1>1, <1>2, <2>1
  <2>. QED BY <1>14, <2>1 DEF Pending
<1>17. Flying(q, l) = Pending(q) /\ Flying(r, l) = Pending(q) BY <1>16 DEF Flying
<1>18. Accounts(e, Pending(q), Stored(s)) /\ Reserves(e, Pending(q))
  BY <1>0, <1>9, <1>12, <1>17 DEF Sound, Accounts, Reserves
<1>19. Truth(e, Stored(s))
  <2>1. ASSUME NEW o \in Caller, e.asked[o].status = "OK", NEW n \in 1..e.asked[o].target
        PROVE  n \in Stored(s) \/ (o \in Passing /\ Missed(e, n))
    <3>1. CASE o # c BY <1>0, <1>8, <1>9, <1>12, <2>1, <3>1 DEF Sound, Truth
    <3>2. CASE o = c
      <4>. DEFINE t == d.asked[c].target
      <4>1. t \in Nat /\ t <= d.admitted /\ d.admitted \in Nat BY <1>3, <1>4, BoundedFacts
      <4>2. n \in 1..t BY <1>10, <2>1, <3>2
      <4>3. n \in 1..d.admitted BY <4>1, <4>2
      <4>4. n \notin Pending(q)
        <5>1. ASSUME NEW j \in DOMAIN q, Published(q[j]), q[j].number = n PROVE FALSE
          <6>1. 1 < j BY <1>1, <1>2, <5>1
          <6>2. t < n BY <1>0, <1>2, <5>1, <6>1 DEF QueueOk, c
          <6>. QED BY <4>1, <4>2, <6>2
        <5>. QED BY <5>1 DEF Pending
      <4>5. n \in Stored(s) \/ Missed(d, n) BY <1>0, <1>17, <4>3, <4>4 DEF Sound, Accounts
      <4>. QED BY <1>3, <1>12, <3>2, <4>5
    <3>. QED BY <3>1, <3>2
  <2>. QED BY <2>1 DEF Truth
<1>20. QueueOk(r, e)
  <2>1. ASSUME NEW i \in DOMAIN r, ~ Published(r[i])
        PROVE  r[i].of \in Caller /\ r[i].of # c /\ e.asked[r[i].of] = d.asked[r[i].of]
    <3>1. r[i].of \in Caller BY <1>14, <2>1, CallersApart DEF QueueOk
    <3>2. r[i].of # c
      <4>1. 1 + i # 1 BY <1>15
      <4>. QED BY <1>0, <1>2, <1>14, <2>1, <4>1 DEF QueueOk, c
    <3>. QED BY <1>8, <1>9, <3>1, <3>2
  <2>. QED BY <1>9, <1>14, <2>1 DEF QueueOk
<1>21. LaneOk(l, s, e) BY <1>0, <1>9, <1>12 DEF LaneOk, ReadyOk
<1>22. Ahead(r, l, s) BY <1>0, <1>16 DEF Ahead
<1>23. Advances(d, e)
  <2>1. d.admitted <= d.admitted BY <1>4, BoundedFacts
  <2>. QED BY <1>3, <1>6, <1>8, <1>9, <2>1 DEF Advances, Answers, Tells
<1>24. NobodyElse(d, e) BY <1>3, <1>8, <1>9, CallersApart DEF NobodyElse
<1>. QED BY <1>7, <1>11, <1>17, <1>18, <1>19, <1>20, <1>21, <1>22, <1>23, <1>24 DEF Good, Sound, r

(* What a step of the lane keeps.                                             *)
LaneKeeps ==
    /\ Good(db', queue', lane', store') /\ Advances(db, db') /\ NobodyElse(db, db')
    /\ LogKeeps(store, store')
NowGood == Good(db, queue, lane, store)

LEMMA StillMoves ==
    ASSUME NEW d, NEW q, NEW l, NEW s, Good(d, q, l, s)
    PROVE  Moves(d, d, {}) /\ Advances(d, d) /\ NobodyElse(d, d)
<1>1. Moves(d, d, {}) BY AlikeSelf, GoodAlike DEF Good, Sound
<1>. QED BY <1>1, MovesApart

(* The lane with other values in the fields that a batch changes.             *)
Made(l, pc, taken, ready, attempt, failed, sequence) ==
    [pc |-> pc, jobs |-> taken, ready |-> ready, attempt |-> attempt, failed |-> failed,
     sequence |-> sequence, handle |-> l.handle, opened |-> l.opened]

LEMMA MadeFacts ==
    ASSUME NEW l \in LaneRecord, NEW pc \in Working \cup {"OPENING", "IDLE", "ENDED"},
           NEW taken \in Seq(JobRecord), NEW ready \in Seq(JobRecord), NEW attempt \in Nat,
           NEW failed \in BOOLEAN, NEW sequence \in Nat, NEW m,
           m = Made(l, pc, taken, ready, attempt, failed, sequence)
    PROVE  /\ m \in LaneRecord /\ m.pc = pc /\ m.jobs = taken /\ m.ready = ready
           /\ m.failed = failed /\ m.sequence = sequence
BY DEF Made, LaneRecord

LEMMA LaneFacts ==
    ASSUME NowGood
    PROVE  /\ lane \in LaneRecord /\ lane.jobs \in Seq(JobRecord) /\ lane.ready \in Seq(JobRecord)
           /\ lane.attempt \in Nat /\ lane.failed \in BOOLEAN /\ lane.sequence \in Nat
           /\ lane.pc \in Working \cup {"OPENING", "IDLE", "ENDED"}
           /\ store.log \in Seq(LogRecord) /\ store.watermark \in Nat
           /\ store \in [log : Seq(LogRecord), watermark : Nat]
           /\ Sound(db, Flying(queue, lane), Stored(store)) /\ Bounded(db)
           /\ QueueOk(queue, db) /\ LaneOk(lane, store, db) /\ Ahead(queue, lane, store)
           /\ db.admitted \in Nat /\ queue \in Seq(JobRecord)
<1>1. LaneOk(lane, store, db) BY DEF NowGood, Good
<1>2. lane \in LaneRecord /\ store \in [log : Seq(LogRecord), watermark : Nat]
  BY <1>1 DEF LaneOk
<1>3. Bounded(db) BY DEF NowGood, Good, Sound
<1>. QED BY <1>1, <1>2, <1>3, BoundedFacts DEF NowGood, Good, QueueOk, LaneRecord

(* As many publications as fit and stand next to each other.                  *)
LEMMA BatchLengthFacts ==
    ASSUME queue \in Seq(JobRecord), queue # << >>, Head(queue).type # "READ"
    PROVE  BatchLength \in 1..Len(queue) /\ \A i \in 1..BatchLength : queue[i].type # "READ"
<1>. DEFINE n == Len(queue)
            Fits(k) == /\ k <= BatchItems /\ \A i \in 1..k : queue[i].type # "READ"
                       /\ k = n \/ k = BatchItems \/ queue[k + 1].type = "READ"
            S == {k \in 1..n : k = n \/ k = BatchItems \/ queue[k + 1].type = "READ"}
<1>1. n \in Nat /\ n # 0 /\ queue[1].type # "READ" BY LenProperties, EmptySeq
<1>2. BatchItems \in Nat /\ BatchItems # 0 BY LaneAssumption
<1>. HIDE DEF n
<1>3. n \in S /\ S \subseteq Nat BY <1>1
<1>4. PICK k \in S : \A j \in S : k <= j
  <2>. HIDE DEF S
  <2>. QED BY <1>3, LeastExists
<1>5. k \in 1..n /\ k \in Nat BY <1>1, <1>4
<1>6. k <= BatchItems
  <2>1. CASE BatchItems \in 1..n BY <1>4, <2>1
  <2>2. CASE BatchItems \notin 1..n BY <1>1, <1>2, <1>5, <2>2
  <2>. QED BY <2>1, <2>2
<1>7. ASSUME NEW i \in 1..k, queue[i].type = "READ" PROVE FALSE
  <2>1. i # 1 /\ i \in Nat /\ i <= k BY <1>1, <1>5, <1>7
  <2>2. i - 1 \in 1..n /\ (i - 1) + 1 = i /\ ~ (k <= i - 1) BY <1>1, <1>5, <2>1
  <2>3. i - 1 \in S BY <1>7, <2>2
  <2>. QED BY <1>4, <2>2, <2>3
<1>8. Fits(k) BY <1>4, <1>6, <1>7
<1>9. BatchLength = CHOOSE j \in 1..n : Fits(j) BY DEF BatchLength, n
<1>. HIDE DEF Fits
<1>10. BatchLength \in 1..n /\ Fits(BatchLength) BY <1>5, <1>8, <1>9
<1>. QED BY <1>10 DEF Fits, n

LEMMA TakeBatchKeeps == ASSUME NowGood, TakeBatch PROVE LaneKeeps
<1>. DEFINE k == BatchLength
            n == Len(queue)
            taken == SubSeq(queue, 1, k)
            rest == SubSeq(queue, k + 1, n)
            l == Made(lane, "BATCH", taken, lane.ready, lane.attempt, lane.failed, lane.sequence)
<1>1. /\ lane.pc = "IDLE" /\ queue # << >> /\ Head(queue).type # "READ"
      /\ lane' = [lane EXCEPT !.pc = "BATCH", !.jobs = taken] /\ queue' = rest
      /\ UNCHANGED <<db, store>>
  BY DEF TakeBatch
<1>2. k \in 1..n /\ \A i \in 1..k : queue[i].type # "READ"
  BY <1>1, LaneFacts, BatchLengthFacts
<1>3. n \in Nat /\ DOMAIN queue = 1..n BY LaneFacts, LenProperties
<1>. HIDE DEF k, n
<1>4. k \in 0..Len(queue) /\ k \in Nat BY <1>2, <1>3 DEF n
<1>5. /\ taken \in Seq(JobRecord) /\ Len(taken) = k
      /\ \A i \in 1..k : i \in DOMAIN queue /\ taken[i] = queue[i]
  BY <1>4, LaneFacts, CutFacts
<1>6. /\ QueueOk(rest, db)
      /\ \A i \in DOMAIN rest : k + i \in DOMAIN queue /\ rest[i] = queue[k + i]
      /\ \A j \in DOMAIN queue : k < j => j - k \in DOMAIN rest /\ rest[j - k] = queue[j]
  <2>1. QueueOk(queue, db) BY LaneFacts
  <2>2. ASSUME NEW r, r = SubSeq(queue, k + 1, Len(queue))
        PROVE  /\ QueueOk(r, db)
               /\ \A i \in DOMAIN r : k + i \in DOMAIN queue /\ r[i] = queue[k + i]
               /\ \A j \in DOMAIN queue : k < j => j - k \in DOMAIN r /\ r[j - k] = queue[j]
    <3>1. QueueOk(r, db) BY ONLY <1>4, <2>1, <2>2, RestOk
    <3>2. \A i \in DOMAIN r : k + i \in DOMAIN queue /\ r[i] = queue[k + i]
      BY ONLY <1>4, <2>1, <2>2, RestOk
    <3>3. \A j \in DOMAIN queue : k < j => j - k \in DOMAIN r /\ r[j - k] = queue[j]
      BY ONLY <1>4, <2>1, <2>2, RestOk
    <3>. QED BY <3>1, <3>2, <3>3
  <2>. QED BY <2>2 DEF n
<1>7. DOMAIN taken = 1..k BY <1>5, LenProperties
<1>8. DOMAIN rest \subseteq Nat \ {0}
  <2>. HIDE DEF rest
  <2>1. rest \in Seq(JobRecord) BY <1>6 DEF QueueOk
  <2>2. DOMAIN rest = 1..Len(rest) /\ Len(rest) \in Nat BY <2>1, LenProperties
  <2>. QED BY <2>2
<1>. HIDE DEF taken, rest
<1>9. Numbers(taken) = {taken[i].number : i \in 1..k} BY <1>5, <1>7, NumbersFacts
<1>10. \A i \in 1..k : Published(taken[i]) /\ Published(queue[i]) BY <1>2, <1>5 DEF Published
<1>11. Pending(queue) = Numbers(taken) \cup Pending(rest)
  <2>1. Numbers(taken) \subseteq Pending(queue) BY <1>5, <1>9, <1>10 DEF Pending
  <2>2. Pending(rest) \subseteq Pending(queue) BY <1>6 DEF Pending
  <2>3. ASSUME NEW j \in DOMAIN queue, Published(queue[j])
        PROVE  queue[j].number \in Numbers(taken) \cup Pending(rest)
    <3>1. CASE k < j BY <1>6, <2>3, <3>1 DEF Pending
    <3>2. CASE ~ (k < j)
      <4>1. j \in 1..k BY <1>3, <1>4, <3>2
      <4>. QED BY <1>5, <1>9, <4>1
    <3>. QED BY <3>1, <3>2
  <2>. QED BY <2>1, <2>2, <2>3 DEF Pending
<1>12. Batch(taken)
  <2>1. ASSUME NEW i \in DOMAIN taken, NEW j \in DOMAIN taken, i < j
        PROVE  taken[i].number < taken[j].number
    BY <1>5, <1>7, <1>10, <2>1, LaneFacts DEF QueueOk
  <2>. QED BY <1>5, <1>7, <1>10, <2>1 DEF Batch
<1>13. ASSUME NEW a \in Numbers(taken), NEW b \in Pending(rest) PROVE a < b
  <2>1. PICK i \in 1..k : a = taken[i].number BY <1>9
  <2>2. PICK j \in DOMAIN rest : Published(rest[j]) /\ b = rest[j].number BY DEF Pending
  <2>3. i < k + j /\ i \in DOMAIN queue /\ k + j \in DOMAIN queue
    BY <1>4, <1>5, <1>6, <1>8, <2>1, <2>2
  <2>. QED BY <1>5, <1>6, <1>10, <2>1, <2>2, <2>3, LaneFacts DEF QueueOk
<1>14. l = lane' /\ l \in LaneRecord /\ l.pc = "BATCH" /\ l.jobs = taken /\ l.ready = lane.ready
       /\ l.failed = lane.failed /\ l.sequence = lane.sequence
  <2>1. l = lane' BY <1>1, LaneFacts DEF Made, LaneRecord
  <2>2. l = Made(lane, "BATCH", taken, lane.ready, lane.attempt, lane.failed, lane.sequence)
    OBVIOUS
  <2>3. "BATCH" \in Working \cup {"OPENING", "IDLE", "ENDED"} BY DEF Working
  <2>. HIDE DEF l
  <2>4. /\ lane \in LaneRecord /\ lane.ready \in Seq(JobRecord) /\ lane.attempt \in Nat
        /\ lane.failed \in BOOLEAN /\ lane.sequence \in Nat /\ taken \in Seq(JobRecord)
    BY <1>5, LaneFacts
  <2>5. /\ l \in LaneRecord /\ l.pc = "BATCH" /\ l.jobs = taken /\ l.ready = lane.ready
        /\ l.failed = lane.failed /\ l.sequence = lane.sequence
    BY ONLY <2>2, <2>3, <2>4, MadeFacts
  <2>. QED BY <2>1, <2>5
<1>. HIDE DEF l
<1>15. Flying(rest, l) = Flying(queue, lane)
  BY <1>1, <1>11, <1>14 DEF Flying
<1>16. LaneOk(l, store, db)
  <2>1. taken # << >> BY <1>2, <1>4, <1>5, EmptySeq
  <2>2. Stored(store) \cup Numbers(taken) \subseteq 1..db.admitted
    <3>1. Pending(queue) \subseteq 1..db.admitted BY LaneFacts DEF QueueOk, Pending
    <3>. QED BY <1>11, <3>1, LaneFacts DEF LaneOk
  <2>3. \A a \in Stored(store), b \in Numbers(taken) : a < b BY <1>11, LaneFacts DEF Ahead
  <2>. QED BY <1>12, <1>14, <2>1, <2>2, <2>3, LaneFacts DEF LaneOk, Working
<1>17. Ahead(rest, l, store) BY <1>11, <1>13, <1>14, LaneFacts DEF Ahead
<1>18. Good(db, rest, l, store) BY <1>6, <1>15, <1>16, <1>17, LaneFacts DEF Good
<1>. QED BY <1>1, <1>14, <1>18, StillMoves DEF LaneKeeps, LogKeeps, NowGood

LEMMA LaneTurns ==
    ASSUME NowGood, NEW pc \in Working \cup {"OPENING", "IDLE", "ENDED"},
           NEW taken \in Seq(JobRecord), NEW ready \in Seq(JobRecord), NEW attempt \in Nat,
           NEW failed \in BOOLEAN, NEW sequence \in Nat,
           lane' = Made(lane, pc, taken, ready, attempt, failed, sequence)
    PROVE  /\ lane' \in LaneRecord /\ lane'.pc = pc /\ lane'.jobs = taken /\ lane'.ready = ready
           /\ lane'.failed = failed /\ lane'.sequence = sequence
<1>1. lane \in LaneRecord BY LaneFacts
<1>2. /\ pc \in Working \cup {"OPENING", "IDLE", "ENDED"} /\ taken \in Seq(JobRecord)
      /\ ready \in Seq(JobRecord) /\ attempt \in Nat /\ failed \in BOOLEAN /\ sequence \in Nat
      /\ lane' = Made(lane, pc, taken, ready, attempt, failed, sequence)
  OBVIOUS
<1>. DEFINE m == lane'
<1>3. m = Made(lane, pc, taken, ready, attempt, failed, sequence) BY <1>2
<1>. HIDE DEF m
<1>4. /\ m \in LaneRecord /\ m.pc = pc /\ m.jobs = taken /\ m.ready = ready
      /\ m.failed = failed /\ m.sequence = sequence
  BY <1>1, <1>2, <1>3 DEF Made, LaneRecord
<1>. QED BY <1>4 DEF m

LEMMA BatchFacts ==
    ASSUME NEW taken, Batch(taken)
    PROVE  /\ DOMAIN taken = 1..Len(taken) /\ Len(taken) \in Nat /\ taken \in Seq(JobRecord)
           /\ Numbers(taken) = {taken[i].number : i \in DOMAIN taken}
           /\ Numbers(taken) \subseteq Nat
           /\ taken # << >> => 1 \in DOMAIN taken /\ Len(taken) \in DOMAIN taken
           /\ \A i \in DOMAIN taken :
                /\ taken[i].number \in Nat
                /\ taken[1].number <= taken[i].number /\ taken[i].number <= taken[Len(taken)].number
<1>1. taken \in Seq(JobRecord) BY DEF Batch
<1>2. /\ DOMAIN taken = 1..Len(taken) /\ Len(taken) \in Nat
      /\ \A i \in DOMAIN taken : taken[i].number \in Nat
      /\ Numbers(taken) = {taken[i].number : i \in DOMAIN taken}
      /\ Numbers(taken) \subseteq Nat
  BY <1>1, NumbersFacts
<1>3. taken # << >> => 1 \in DOMAIN taken /\ Len(taken) \in DOMAIN taken
  BY <1>1, <1>2, EmptySeq
<1>4. ASSUME NEW i \in DOMAIN taken
      PROVE  taken[1].number <= taken[i].number /\ taken[i].number <= taken[Len(taken)].number
  <2>1. 1 \in DOMAIN taken /\ Len(taken) \in DOMAIN taken /\ (i = 1 \/ 1 < i)
        /\ (i = Len(taken) \/ i < Len(taken))
    BY <1>2
  <2>. QED BY <1>2, <2>1 DEF Batch
<1>. QED BY <1>1, <1>2, <1>3, <1>4

LEMMA EmptyNumbers == Numbers(<< >>) = {}
BY EmptySeq DEF Numbers

(* A batch without one of its jobs is a batch.                                *)
LEMMA RemovedBatch ==
    ASSUME NEW taken, NEW k \in 1..Len(taken), Batch(taken), NEW r, r = RemoveAt(taken, k)
    PROVE  /\ Batch(r) /\ Numbers(r) \subseteq Numbers(taken)
           /\ \A n \in Numbers(taken) : n \in Numbers(r) \/ n = taken[k].number
<1>1. /\ taken \in Seq(JobRecord) /\ DOMAIN taken = 1..Len(taken) /\ Len(taken) \in Nat
      /\ Numbers(taken) = {taken[i].number : i \in DOMAIN taken}
  BY BatchFacts
<1>2. /\ r \in Seq(JobRecord) /\ Len(r) = Len(taken) - 1
      /\ \A i \in DOMAIN r : r[i] = IF i < k THEN taken[i] ELSE taken[i + 1]
  BY <1>1, RemoveFacts
<1>3. DOMAIN r = 1..(Len(taken) - 1) /\ Numbers(r) = {r[i].number : i \in DOMAIN r}
  BY <1>2, NumbersFacts
<1>. DEFINE at(i) == IF i < k THEN i ELSE i + 1
<1>4. \A i \in DOMAIN r : at(i) \in DOMAIN taken /\ r[i] = taken[at(i)] BY <1>1, <1>2, <1>3
<1>5. \A i, j \in DOMAIN r : i < j => at(i) < at(j) BY <1>1, <1>3
<1>6. \A j \in DOMAIN taken : j # k => \E i \in DOMAIN r : at(i) = j
  <2>1. ASSUME NEW j \in DOMAIN taken, j # k PROVE \E i \in DOMAIN r : at(i) = j
    <3>1. CASE j < k
      <4>1. j \in DOMAIN r /\ at(j) = j BY <1>1, <1>3, <3>1
      <4>. QED BY <4>1
    <3>2. CASE ~ (j < k)
      <4>1. j - 1 \in DOMAIN r /\ at(j - 1) = j BY <1>1, <1>3, <2>1, <3>2
      <4>. QED BY <4>1
    <3>. QED BY <3>1, <3>2
  <2>. QED BY <2>1
<1>. HIDE DEF at
<1>7. Batch(r) BY <1>2, <1>4, <1>5 DEF Batch
<1>8. Numbers(r) \subseteq Numbers(taken) BY <1>1, <1>3, <1>4
<1>9. \A n \in Numbers(taken) : n \in Numbers(r) \/ n = taken[k].number
  BY <1>1, <1>3, <1>4, <1>6
<1>. QED BY <1>7, <1>8, <1>9

LEMMA PrepareKeeps == ASSUME NowGood, Prepare PROVE LaneKeeps
<1>0. lane.pc = "BATCH" /\ UNCHANGED <<queue, store>> BY DEF Prepare
<1>1. /\ Batch(lane.jobs) /\ lane.jobs # << >> /\ store.watermark <= lane.sequence
      /\ \A n \in Stored(store), m \in Numbers(lane.jobs) : n < m
      /\ Stored(store) \cup Numbers(lane.jobs) \subseteq 1..db.admitted
  BY <1>0, LaneFacts DEF LaneOk, Working
<1>2. /\ store.watermark \in Nat /\ lane.sequence \in Nat /\ lane.sequence + 1 \in Nat
      /\ store.watermark < lane.sequence + 1 /\ store.watermark <= lane.sequence + 1
  BY <1>1, LaneFacts
<1>3. ASSUME NEW e, NEW ready, Good(e, queue, lane, store), Batch(ready), ready # << >>,
             Numbers(ready) \subseteq Numbers(lane.jobs),
             \A n \in Numbers(lane.jobs) : n \in Numbers(ready) \/ Missed(e, n),
             lane' = [lane EXCEPT !.pc = "WRITE", !.ready = ready, !.attempt = 1,
                                  !.sequence = @ + 1]
      PROVE  Good(e, queue, lane', store)
  <2>1. lane' = Made(lane, "WRITE", lane.jobs, ready, 1, lane.failed, lane.sequence + 1)
    BY <1>3, LaneFacts DEF Made, LaneRecord
  <2>2. /\ lane' \in LaneRecord /\ lane'.pc = "WRITE" /\ lane'.jobs = lane.jobs
        /\ lane'.ready = ready /\ lane'.sequence = lane.sequence + 1
    <3>0. lane \in LaneRecord BY LaneFacts
    <3>1. "WRITE" \in Working \cup {"OPENING", "IDLE", "ENDED"} BY DEF Working
    <3>2. /\ lane.jobs \in Seq(JobRecord) /\ ready \in Seq(JobRecord) /\ 1 \in Nat
          /\ lane.failed \in BOOLEAN
      BY <1>3, LaneFacts DEF Batch
    <3>3. lane.sequence + 1 \in Nat BY <1>2
    <3>. DEFINE m == lane'  given == lane.jobs  failing == lane.failed  after == lane.sequence + 1
    <3>4. m = Made(lane, "WRITE", given, ready, 1, failing, after) BY <2>1
    <3>5. given \in Seq(JobRecord) /\ failing \in BOOLEAN /\ after \in Nat BY <3>2, <3>3
    <3>. HIDE DEF m, given, failing, after
    <3>6. /\ m \in LaneRecord /\ m.pc = "WRITE" /\ m.jobs = given /\ m.ready = ready
          /\ m.sequence = after
      BY ONLY <3>0, <3>1, <3>2, <3>4, <3>5 DEF Made, LaneRecord
    <3>. QED BY <3>6 DEF m, given, after
  <2>3. Flying(queue, lane') = Flying(queue, lane) BY <1>0, <2>2 DEF Flying
  <2>4. ReadyOk(lane', e) BY <1>3, <2>2 DEF ReadyOk
  <2>5. LaneOk(lane', store, e)
    <3>1. LaneOk(lane, store, e) BY <1>3 DEF Good
    <3>. QED BY <1>1, <1>2, <2>2, <2>4, <3>1 DEF LaneOk
  <2>6. Ahead(queue, lane', store) BY <2>2, LaneFacts DEF Ahead
  <2>. QED BY <1>3, <2>3, <2>5, <2>6 DEF Good
<1>4. CASE /\ UNCHANGED db
           /\ lane' = [lane EXCEPT !.pc = "WRITE", !.ready = lane.jobs, !.attempt = 1,
                                   !.sequence = @ + 1]
  <2>1. Good(db, queue, lane', store) BY <1>1, <1>3, <1>4 DEF NowGood
  <2>. QED BY <1>0, <1>4, <2>1, StillMoves DEF LaneKeeps, LogKeeps, NowGood
<1>5. ASSUME NEW i \in 1..Len(lane.jobs), NEW complete \in BOOLEAN,
             db' = Failure(db, lane.jobs[i].number), NEW ready,
             ready = IF complete THEN lane.jobs ELSE RemoveAt(lane.jobs, i),
             lane' = IF ready = << >>
                     THEN [lane EXCEPT !.pc = "RELEASE", !.ready = << >>, !.failed = FALSE]
                     ELSE [lane EXCEPT !.pc = "WRITE", !.ready = ready, !.attempt = 1,
                                       !.sequence = @ + 1]
      PROVE  LaneKeeps
  <2>. DEFINE n == lane.jobs[i].number
  <2>1. n \in Numbers(lane.jobs) BY DEF Numbers
  <2>2. n \in Nat /\ n <= db.admitted BY <1>1, <2>1, LaneFacts
  <2>3. Good(db', queue, lane, store) /\ Moves(db, db', {}) /\ Missed(db', n)
    <3>1. db' = Failure(db, n) /\ n <= n BY <1>5, <2>2
    <3>. HIDE DEF n
    <3>. QED BY <2>2, <3>1, GoodFails DEF NowGood
  <2>4. /\ Batch(ready) /\ Numbers(ready) \subseteq Numbers(lane.jobs)
        /\ \A m \in Numbers(lane.jobs) : m \in Numbers(ready) \/ m = n
    <3>1. CASE complete BY <1>1, <1>5, <3>1
    <3>2. CASE ~ complete
      <4>1. ready = RemoveAt(lane.jobs, i) BY <1>5, <3>2
      <4>. QED BY <1>1, <4>1, RemovedBatch
    <3>. QED BY <3>1, <3>2
  <2>. HIDE DEF n
  <2>5. \A m \in Numbers(lane.jobs) : m \in Numbers(ready) \/ Missed(db', m) BY <2>3, <2>4
  <2>6. CASE ready # << >>
    <3>1. Good(db', queue, lane', store) BY <1>3, <1>5, <2>3, <2>4, <2>5, <2>6
    <3>. QED BY <1>0, <2>3, <3>1, MovesApart DEF LaneKeeps, LogKeeps
  <2>7. CASE ready = << >>
    <3>1. lane' = Made(lane, "RELEASE", lane.jobs, << >>, lane.attempt, FALSE, lane.sequence)
      BY <1>5, <2>7, LaneFacts DEF Made, LaneRecord
    <3>2. /\ lane' \in LaneRecord /\ lane'.pc = "RELEASE" /\ lane'.jobs = lane.jobs
          /\ lane'.failed = FALSE /\ lane'.sequence = lane.sequence
      <4>1. "RELEASE" \in Working \cup {"OPENING", "IDLE", "ENDED"} BY DEF Working
      <4>2. /\ lane.jobs \in Seq(JobRecord) /\ << >> \in Seq(JobRecord) /\ lane.attempt \in Nat
            /\ FALSE \in BOOLEAN
        BY LaneFacts, EmptySeq
      <4>. QED BY ONLY NowGood, <1>2, <3>1, <4>1, <4>2, LaneTurns
    <3>3. Flying(queue, lane') = Flying(queue, lane) BY <1>0, <3>2 DEF Flying
    <3>4. \A m \in Numbers(lane.jobs) : Missed(db', m) BY <2>5, <2>7, EmptyNumbers
    <3>5. LaneOk(lane', store, db')
      <4>1. LaneOk(lane, store, db') BY <2>3 DEF Good
      <4>. QED BY <1>1, <3>2, <3>4, <4>1 DEF LaneOk
    <3>6. Ahead(queue, lane', store) BY <3>2, LaneFacts DEF Ahead
    <3>7. Good(db', queue, lane', store) BY <2>3, <3>3, <3>5, <3>6 DEF Good
    <3>. QED BY <1>0, <2>3, <3>7, MovesApart DEF LaneKeeps, LogKeeps
  <2>. QED BY <2>6, <2>7
<1>. QED BY <1>4, <1>5 DEF Prepare

(* A batch that is stored, once or already, is in the log.                    *)
LEMMA CommittedFacts ==
    ASSUME NowGood, lane.pc = "WRITE", NEW s, s = Committed(store, lane)
    PROVE  /\ s \in [log : Seq(LogRecord), watermark : Nat] /\ s.watermark = lane.sequence
           /\ Stored(s) = Stored(store) \cup Numbers(lane.ready)
           /\ LogKeeps(store, s)
<1>. DEFINE new == [i \in 1..Len(lane.ready) |->
                        [of |-> lane.ready[i].of, number |-> lane.ready[i].number]]
            log == store.log \o new
<1>1. /\ ReadyOk(lane, db) /\ store.watermark <= lane.sequence
      /\ \/ /\ store.watermark < lane.sequence
            /\ \A n \in Stored(store), m \in Numbers(lane.jobs) : n < m
         \/ store.watermark = lane.sequence /\ Numbers(lane.ready) \subseteq Stored(store)
  BY LaneFacts DEF LaneOk
<1>2. /\ store \in [log : Seq(LogRecord), watermark : Nat] /\ store.log \in Seq(LogRecord)
      /\ store.watermark \in Nat /\ lane.sequence \in Nat
  BY LaneFacts
<1>3. CASE lane.sequence <= store.watermark
  <2>1. s = store BY <1>3 DEF Committed
  <2>. QED BY <1>1, <1>2, <1>3, <2>1 DEF LogKeeps
<1>4. CASE ~ (lane.sequence <= store.watermark)
  <2>1. s = [log |-> log, watermark |-> lane.sequence] BY <1>4 DEF Committed
  <2>2. /\ Batch(lane.ready) /\ Numbers(lane.ready) \subseteq Numbers(lane.jobs)
    BY <1>1 DEF ReadyOk
  <2>3. /\ Len(lane.ready) \in Nat /\ DOMAIN lane.ready = 1..Len(lane.ready)
        /\ lane.ready \in Seq(JobRecord)
        /\ Numbers(lane.ready) = {lane.ready[i].number : i \in DOMAIN lane.ready}
    BY <2>2, BatchFacts
  <2>4. new \in Seq(LogRecord) /\ Len(new) = Len(lane.ready)
    <3>1. ASSUME NEW i \in 1..Len(lane.ready)
          PROVE  [of |-> lane.ready[i].of, number |-> lane.ready[i].number] \in LogRecord
      <4>1. lane.ready[i] \in JobRecord BY <2>3, ElementOfSeq
      <4>. QED BY <4>1 DEF JobRecord, LogRecord
    <3>2. new \in [1..Len(lane.ready) -> LogRecord] BY <3>1
    <3>. HIDE DEF new
    <3>. QED BY <2>3, <3>2, SeqDef, LenProperties
  <2>5. \A i \in 1..Len(new) : new[i].number = lane.ready[i].number BY <2>4
  <2>. HIDE DEF new
  <2>6. /\ log \in Seq(LogRecord) /\ Len(log) = Len(store.log) + Len(new)
        /\ \A i \in 1..Len(store.log) + Len(new) :
              log[i] = IF i <= Len(store.log) THEN store.log[i] ELSE new[i - Len(store.log)]
    <3>1. store.log \in Seq(LogRecord) /\ new \in Seq(LogRecord) BY <1>2, <2>4
    <3>. QED BY ONLY <3>1, ConcatProperties
  <2>7. /\ Len(store.log) \in Nat /\ Len(new) \in Nat /\ DOMAIN store.log = 1..Len(store.log)
        /\ DOMAIN log = 1..(Len(store.log) + Len(new))
    BY <1>2, <2>4, <2>6, LenProperties
  <2>. DEFINE m == Len(store.log)
              k == Len(new)
  <2>. HIDE DEF log, m, k
  <2>8. \A i \in 1..m : i \in DOMAIN log /\ log[i] = store.log[i]
    BY <2>6, <2>7 DEF m, k
  <2>9. \A i \in 1..k : m + i \in DOMAIN log /\ log[m + i].number = lane.ready[i].number
    <3>1. ASSUME NEW i \in 1..k
          PROVE  m + i \in DOMAIN log /\ log[m + i].number = lane.ready[i].number
      <4>1. m + i \in 1..(m + k) /\ ~ (m + i <= m) /\ (m + i) - m = i BY <2>7 DEF m, k
      <4>. QED BY <2>5, <2>6, <2>7, <4>1 DEF m, k
    <3>. QED BY <3>1
  <2>10. \A i \in DOMAIN log : i \in 1..m \/ (i - m \in 1..k /\ m + (i - m) = i)
    BY <2>7 DEF m, k
  <2>11. Stored(s) = Stored(store) \cup Numbers(lane.ready)
    <3>1. Stored(s) \subseteq Stored(store) \cup Numbers(lane.ready)
      <4>1. ASSUME NEW i \in DOMAIN log
            PROVE  log[i].number \in Stored(store) \cup Numbers(lane.ready)
        <5>1. CASE i \in 1..m BY <2>7, <2>8, <5>1 DEF Stored, m
        <5>2. CASE i - m \in 1..k /\ m + (i - m) = i
          <6>1. log[i].number = lane.ready[i - m].number BY <2>9, <5>2
          <6>. QED BY <2>3, <2>4, <5>2, <6>1 DEF k
        <5>. QED BY <2>10, <5>1, <5>2
      <4>. QED BY <2>1, <4>1 DEF Stored
    <3>2. Stored(store) \subseteq Stored(s) BY <2>1, <2>7, <2>8 DEF Stored, m
    <3>3. Numbers(lane.ready) \subseteq Stored(s) BY <2>1, <2>3, <2>4, <2>9 DEF Stored, k
    <3>. QED BY <3>1, <3>2, <3>3
  <2>12. ASSUME NEW i \in (m + 1)..(m + k), i > 1
         PROVE  log[i].number > log[i - 1].number
    <3>1. i - m \in 1..k /\ m + (i - m) = i BY <2>7 DEF m, k
    <3>2. log[i].number = lane.ready[i - m].number BY <2>9, <3>1
    <3>3. i - m \in DOMAIN lane.ready /\ lane.ready[i - m].number \in Nat
      BY <2>2, <2>3, <2>4, <3>1, BatchFacts DEF k
    <3>4. CASE i = m + 1
      <4>1. i - 1 \in 1..m /\ m \in Nat BY <2>7, <3>4, <2>12 DEF m
      <4>2. log[i - 1].number \in Stored(store) BY <2>7, <2>8, <4>1 DEF Stored, m
      <4>3. lane.ready[i - m].number \in Numbers(lane.jobs) BY <2>2, <2>3, <3>3
      <4>4. log[i - 1].number < lane.ready[i - m].number BY <1>1, <1>2, <1>4, <4>2, <4>3
      <4>5. log[i - 1].number \in Nat
        <5>1. Stored(store) \subseteq 1..db.admitted BY LaneFacts DEF LaneOk
        <5>. QED BY <4>2, <5>1, LaneFacts
      <4>. QED BY <3>2, <3>3, <4>4, <4>5
    <3>5. CASE i # m + 1
      <4>0. m \in Nat /\ k \in Nat /\ i \in Int /\ m + 1 < i /\ i <= m + k
        BY <2>7, <3>5 DEF m, k
      <4>1. i - 1 - m \in 1..k /\ m + (i - 1 - m) = i - 1 /\ i - 1 - m < i - m
        BY <4>0
      <4>2. log[i - 1].number = lane.ready[i - 1 - m].number BY <2>9, <4>1
      <4>3. i - 1 - m \in DOMAIN lane.ready /\ lane.ready[i - 1 - m].number \in Nat
        BY <2>2, <2>3, <2>4, <4>1, BatchFacts DEF k
      <4>4. lane.ready[i - 1 - m].number < lane.ready[i - m].number
        BY <2>2, <3>3, <4>1, <4>3 DEF Batch
      <4>. QED BY <3>2, <3>3, <4>2, <4>3, <4>4
    <3>. QED BY <3>4, <3>5
  <2>13. LogKeeps(store, s)
    <3>1. s.log = log BY <2>1
    <3>2. Len(s.log) = m + k BY <2>6, <3>1 DEF m, k
    <3>3. Len(store.log) <= Len(s.log) BY <2>7, <3>2 DEF m, k
    <3>4. \A i \in 1..Len(store.log) : s.log[i] = store.log[i] BY <2>8, <3>1 DEF m
    <3>5. \A i \in (Len(store.log) + 1)..Len(s.log) :
              i > 1 => s.log[i].number > s.log[i - 1].number
      BY <2>12, <3>1, <3>2 DEF m
    <3>. QED BY <3>3, <3>4, <3>5 DEF LogKeeps
  <2>. QED BY <1>2, <2>1, <2>6, <2>11, <2>13
<1>. QED BY <1>3, <1>4

(* What an attempt to write does to the store, and what it leaves to do.      *)
LEMMA AttemptKeeps ==
    ASSUME NowGood, lane.pc = "WRITE", UNCHANGED <<db, queue>>,
           lane' \in LaneRecord, lane'.jobs = lane.jobs, lane'.ready = lane.ready,
           store' \in [log : Seq(LogRecord), watermark : Nat],
           NEW s, s = store \/ s = Committed(store, lane), store'.log = s.log,
           store'.watermark <= lane'.sequence,
           \/ lane'.pc = "WRITE" /\ lane'.sequence = lane.sequence /\ store' = s
           \/ lane'.pc = "RELEASE" /\ lane'.failed
           \/ lane'.pc = "RELEASE" /\ ~ lane'.failed /\ s = Committed(store, lane)
    PROVE  LaneKeeps
<1>1. LogKeeps(store, store') BY CommittedFacts DEF LogKeeps
<1>2. \/ Stored(store') = Stored(store) /\ s = store
      \/ Stored(store') = Stored(store) \cup Numbers(lane.ready) /\ s = Committed(store, lane)
  <2>1. Stored(store') = Stored(s) BY DEF Stored
  <2>. QED BY <2>1, CommittedFacts
<1>3. ReadyOk(lane, db) /\ LaneOk(lane, store, db) /\ lane.jobs # << >> /\ Batch(lane.jobs)
  BY LaneFacts DEF LaneOk, Working
<1>4. Numbers(lane.ready) \subseteq Numbers(lane.jobs) BY <1>3 DEF ReadyOk
<1>5. Stored(store) \subseteq Stored(store') BY <1>2
<1>6. Flying(queue, lane') = Flying(queue, lane) BY DEF Flying
<1>7. Sound(db, Flying(queue, lane'), Stored(store'))
  <2>1. Sound(db, Flying(queue, lane), Stored(store)) BY LaneFacts
  <2>. QED BY <1>5, <1>6, <2>1 DEF Sound, Accounts, Truth
<1>8. LaneOk(lane', store', db)
  <2>1. Stored(store') \cup Numbers(lane.jobs) \subseteq 1..db.admitted
    BY <1>2, <1>3, <1>4 DEF LaneOk
  <2>2. ReadyOk(lane', db) BY <1>3 DEF ReadyOk
  <2>3. CASE lane'.pc = "WRITE" /\ lane'.sequence = lane.sequence /\ store' = s
    <3>1. CASE s = store BY <1>3, <2>1, <2>2, <2>3, <3>1 DEF LaneOk, Working
    <3>2. CASE s = Committed(store, lane)
      <4>1. store'.watermark = lane'.sequence /\ Numbers(lane'.ready) \subseteq Stored(store')
        BY <2>3, <3>2, CommittedFacts
      <4>. QED BY <1>3, <2>1, <2>2, <2>3, <4>1 DEF LaneOk, Working
    <3>. QED BY <3>1, <3>2
  <2>4. CASE lane'.pc = "RELEASE" /\ lane'.failed
    BY <1>3, <2>1, <2>2, <2>4 DEF LaneOk, Working
  <2>5. CASE lane'.pc = "RELEASE" /\ ~ lane'.failed /\ s = Committed(store, lane)
    <3>1. Numbers(lane.ready) \subseteq Stored(store')
      <4>1. Stored(store') = Stored(s) BY DEF Stored
      <4>. QED BY <2>5, <4>1, CommittedFacts
    <3>2. \A n \in Numbers(lane'.jobs) : n \in Stored(store') \/ Missed(db, n)
      BY <1>3, <3>1 DEF ReadyOk
    <3>. QED BY <1>3, <2>1, <2>2, <2>5, <3>2 DEF LaneOk, Working
  <2>. QED BY <2>3, <2>4, <2>5
<1>9. Ahead(queue, lane', store') BY <1>2, <1>4, LaneFacts DEF Ahead
<1>10. Good(db, queue, lane', store') BY <1>7, <1>8, <1>9, LaneFacts DEF Good
<1>. QED BY <1>1, <1>10, StillMoves DEF LaneKeeps, NowGood

LEMMA Phases ==
    \A pc \in {"OPENING", "IDLE", "BATCH", "WRITE", "RELEASE", "ACKNOWLEDGE", "SETTLE", "ENDED"} :
        pc \in Working \cup {"OPENING", "IDLE", "ENDED"}
BY DEF Working

LEMMA AttemptsKeep ==
    ASSUME NowGood, AttemptStored \/ AttemptUncertain \/ AttemptRejected
    PROVE  LaneKeeps
<1>0. lane.pc = "WRITE" /\ UNCHANGED <<db, queue>>
  BY DEF AttemptStored, AttemptUncertain, AttemptRejected
<1>1. /\ lane \in LaneRecord /\ store \in [log : Seq(LogRecord), watermark : Nat]
      /\ store.watermark <= lane.sequence /\ lane.sequence \in Nat /\ lane.attempt \in Nat
      /\ lane.jobs \in Seq(JobRecord) /\ lane.ready \in Seq(JobRecord) /\ lane.failed \in BOOLEAN
  BY LaneFacts DEF LaneOk
<1>. DEFINE done == Committed(store, lane)
<1>2. done \in [log : Seq(LogRecord), watermark : Nat] /\ done.watermark = lane.sequence
  BY <1>0, CommittedFacts
<1>. HIDE DEF done
<1>3. ASSUME NEW s, s = store \/ s = done, store' = [s EXCEPT !.watermark = 0], GiveUpBatch
      PROVE  LaneKeeps
  <2>1. lane' = Made(lane, "RELEASE", lane.jobs, lane.ready, lane.attempt, TRUE, 0)
    BY <1>1, <1>3 DEF GiveUpBatch, Made, LaneRecord
  <2>2. /\ lane' \in LaneRecord /\ lane'.pc = "RELEASE" /\ lane'.jobs = lane.jobs
        /\ lane'.ready = lane.ready /\ lane'.failed = TRUE /\ lane'.sequence = 0
    <3>1. TRUE \in BOOLEAN /\ 0 \in Nat OBVIOUS
    <3>. QED BY ONLY NowGood, <1>1, <2>1, <3>1, LaneTurns, Phases
  <2>3. s \in [log : Seq(LogRecord), watermark : Nat] BY <1>1, <1>2, <1>3
  <2>4. /\ store' \in [log : Seq(LogRecord), watermark : Nat] /\ store'.log = s.log
        /\ store'.watermark = 0
    BY <1>3, <2>3
  <2>5. store'.watermark <= lane'.sequence BY <2>2, <2>4
  <2>6. s = store \/ s = Committed(store, lane) BY <1>3 DEF done
  <2>. QED BY ONLY NowGood, <1>0, <2>2, <2>4, <2>5, <2>6, AttemptKeeps
<1>4. ASSUME AttemptStored PROVE LaneKeeps
  <2>1. lane' = Made(lane, "RELEASE", lane.jobs, lane.ready, lane.attempt, FALSE, lane.sequence)
        /\ store' = done
    BY <1>1, <1>4 DEF AttemptStored, Made, LaneRecord, done
  <2>2. /\ lane' \in LaneRecord /\ lane'.pc = "RELEASE" /\ lane'.jobs = lane.jobs
        /\ lane'.ready = lane.ready /\ lane'.failed = FALSE /\ lane'.sequence = lane.sequence
    <3>1. FALSE \in BOOLEAN OBVIOUS
    <3>. QED BY ONLY NowGood, <1>1, <2>1, <3>1, LaneTurns, Phases
  <2>3. store'.watermark <= lane'.sequence
    <3>1. store'.watermark = lane.sequence /\ lane'.sequence = lane.sequence BY <1>2, <2>1, <2>2
    <3>2. lane.sequence \in Nat BY <1>1
    <3>. QED BY ONLY <3>1, <3>2
  <2>4. store'.log = done.log /\ store' \in [log : Seq(LogRecord), watermark : Nat]
    BY <1>2, <2>1
  <2>5. done = Committed(store, lane) BY DEF done
  <2>. QED BY ONLY NowGood, <1>0, <2>2, <2>3, <2>4, <2>5, AttemptKeeps
<1>5. ASSUME AttemptUncertain PROVE LaneKeeps
  <2>1. PICK s : /\ s = store \/ s = done
                 /\ IF lane.attempt < MaxAttempts
                    THEN lane' = [lane EXCEPT !.attempt = @ + 1] /\ store' = s
                    ELSE GiveUpBatch /\ store' = [s EXCEPT !.watermark = 0]
    BY <1>5 DEF AttemptUncertain, done
  <2>2. CASE lane.attempt < MaxAttempts
    <3>1. lane' = Made(lane, "WRITE", lane.jobs, lane.ready, lane.attempt + 1, lane.failed,
                       lane.sequence) /\ store' = s
      BY <1>0, <1>1, <2>1, <2>2 DEF Made, LaneRecord
    <3>2. /\ lane' \in LaneRecord /\ lane'.pc = "WRITE" /\ lane'.jobs = lane.jobs
          /\ lane'.ready = lane.ready /\ lane'.sequence = lane.sequence
      <4>1. lane.attempt + 1 \in Nat BY <1>1
      <4>. QED BY ONLY NowGood, <1>1, <3>1, <4>1, LaneTurns, Phases
    <3>3. s \in [log : Seq(LogRecord), watermark : Nat] /\ s.watermark <= lane.sequence
      BY <1>1, <1>2, <2>1
    <3>4. store' \in [log : Seq(LogRecord), watermark : Nat]
          /\ store'.watermark <= lane'.sequence /\ store'.log = s.log
      BY <3>1, <3>2, <3>3
    <3>5. s = store \/ s = Committed(store, lane) BY <2>1 DEF done
    <3>. QED BY ONLY NowGood, <1>0, <3>1, <3>2, <3>4, <3>5, AttemptKeeps
  <2>3. CASE ~ (lane.attempt < MaxAttempts) BY <1>3, <2>1, <2>3
  <2>. QED BY <2>2, <2>3
<1>6. ASSUME AttemptRejected PROVE LaneKeeps
  <2>1. store' = [store EXCEPT !.watermark = 0] /\ GiveUpBatch BY <1>6 DEF AttemptRejected
  <2>. QED BY <1>3, <2>1
<1>. QED BY <1>4, <1>5, <1>6

(* Numbers are given back that nothing on its way has.                        *)
LEMMA ReleaseKeeps ==
    ASSUME NEW d, NEW gone, NEW flying, NEW left, NEW stored, Sound(d, flying, stored),
           left \subseteq flying, \A n \in flying : n \in left \/ n \in stored \/ Missed(d, n),
           \A n \in left : n \notin gone
    PROVE  Sound(Release(d, gone), left, stored) /\ Moves(d, Release(d, gone), {})
<1>. DEFINE e == Release(d, gone)
<1>1. Bounded(d) BY DEF Sound
<1>2. /\ e \in DbRecord /\ e.admitted = d.admitted /\ e.settled = d.settled
      /\ e.first = d.first /\ e.published = d.published \ gone /\ e.asked = d.asked
  BY <1>1 DEF Bounded, DbRecord, Release
<1>. HIDE DEF e
<1>3. Bounded(e) BY <1>1, <1>2 DEF Bounded
<1>4. \A n : Missed(e, n) <=> Missed(d, n) BY <1>2 DEF Missed, Failed
<1>5. Accounts(e, left, stored) BY <1>2, <1>4 DEF Sound, Accounts
<1>6. Reserves(e, left) BY <1>2 DEF Sound, Reserves
<1>7. Truth(e, stored) BY <1>2, <1>4 DEF Sound, Truth
<1>8. Moves(d, e, {})
  <2>1. d.admitted <= e.admitted BY <1>1, <1>2, BoundedFacts
  <2>2. Advances(d, e) BY <1>2, <2>1 DEF Advances, Answers, Tells
  <2>3. Calm(d, e, {}) BY <1>2 DEF Calm
  <2>. QED BY <1>1, <1>3, <2>2, <2>3 DEF Moves
<1>. QED BY <1>3, <1>5, <1>6, <1>7, <1>8 DEF Sound, e

LEMMA ReleaseBatchKeeps == ASSUME NowGood, ReleaseBatch PROVE LaneKeeps
<1>. DEFINE pc == IF \E i \in 1..Len(lane.jobs) : lane.jobs[i].type = "DELTA"
                  THEN "ACKNOWLEDGE" ELSE "SETTLE"
            e == IF lane.failed THEN Failure(db, lane.ready[1].number) ELSE db
<1>0. /\ lane.pc = "RELEASE" /\ UNCHANGED <<queue, store>>
      /\ db' = Release(e, Numbers(lane.jobs)) /\ lane' = [lane EXCEPT !.pc = pc]
  BY DEF ReleaseBatch
<1>1. /\ LaneOk(lane, store, db) /\ Batch(lane.jobs) /\ lane.jobs # << >>
      /\ lane.failed => ReadyOk(lane, db)
      /\ ~ lane.failed => \A n \in Numbers(lane.jobs) : n \in Stored(store) \/ Missed(db, n)
      /\ Numbers(lane.jobs) \subseteq 1..db.admitted
  BY <1>0, LaneFacts DEF LaneOk, Working
<1>2. lane \in LaneRecord /\ lane.jobs \in Seq(JobRecord) /\ lane.ready \in Seq(JobRecord)
      /\ lane.attempt \in Nat /\ lane.failed \in BOOLEAN /\ lane.sequence \in Nat
      /\ db.admitted \in Nat
  BY LaneFacts
<1>3. pc \in {"ACKNOWLEDGE", "SETTLE"} OBVIOUS
<1>. HIDE DEF pc, e
<1>4. /\ lane' \in LaneRecord /\ lane'.pc = pc /\ lane'.jobs = lane.jobs
      /\ lane'.ready = lane.ready /\ lane'.failed = lane.failed /\ lane'.sequence = lane.sequence
  <2>1. lane' = Made(lane, pc, lane.jobs, lane.ready, lane.attempt, lane.failed, lane.sequence)
    BY <1>0, <1>2 DEF Made, LaneRecord
  <2>2. pc \in Working \cup {"OPENING", "IDLE", "ENDED"} BY <1>3 DEF Working
  <2>. QED BY ONLY NowGood, <1>2, <2>1, <2>2, LaneTurns
<1>5. /\ Good(e, queue, lane, store) /\ Moves(db, e, {})
      /\ \A n \in Numbers(lane.jobs) : n \in Stored(store) \/ Missed(e, n)
  <2>1. CASE ~ lane.failed
    <3>1. e = db BY <2>1 DEF e
    <3>. QED BY <1>1, <2>1, <3>1, StillMoves DEF NowGood
  <2>2. CASE lane.failed
    <3>. DEFINE n0 == lane.ready[1].number
    <3>1. e = Failure(db, n0) BY <2>2 DEF e
    <3>2. Batch(lane.ready) /\ lane.ready # << >> /\ Numbers(lane.ready) \subseteq Numbers(lane.jobs)
          /\ \A n \in Numbers(lane.jobs) : n \in Numbers(lane.ready) \/ Missed(db, n)
      BY <1>1, <2>2 DEF ReadyOk
    <3>3. n0 \in Numbers(lane.ready) /\ \A n \in Numbers(lane.ready) : n \in Nat /\ n0 <= n
      BY <3>2, BatchFacts
    <3>4. n0 \in Nat /\ n0 <= db.admitted BY <1>1, <1>2, <3>2, <3>3
    <3>. HIDE DEF n0
    <3>5. /\ Good(e, queue, lane, store) /\ Moves(db, e, {})
          /\ \A n \in Nat : n0 <= n => Missed(e, n)
      BY <3>1, <3>4, GoodFails DEF NowGood
    <3>6. \A n \in Numbers(lane.jobs) : Missed(e, n)
      <4>1. ASSUME NEW n \in Numbers(lane.jobs) PROVE Missed(e, n)
        <5>1. n \in Nat BY <1>1, <1>2
        <5>2. CASE n \in Numbers(lane.ready) BY <3>3, <3>5, <5>2
        <5>3. CASE Missed(db, n) BY <3>5, <5>1, <5>3, MissedOn DEF Moves, Advances
        <5>. QED BY <3>2, <5>2, <5>3
      <4>. QED BY <4>1
    <3>. QED BY <3>5, <3>6
  <2>. QED BY <2>1, <2>2
<1>6. Flying(queue, lane) = Pending(queue) \cup Numbers(lane.jobs) /\ Flying(queue, lane') = Pending(queue)
  BY <1>0, <1>3, <1>4 DEF Flying
<1>7. /\ Sound(db', Flying(queue, lane'), Stored(store)) /\ Moves(e, db', {})
  <2>. DEFINE gone == Numbers(lane.jobs)
              flying == Flying(queue, lane)
              left == Flying(queue, lane')
  <2>1. Sound(e, flying, Stored(store)) BY <1>5 DEF Good
  <2>2. left \subseteq flying BY <1>6
  <2>3. \A n \in flying : n \in left \/ n \in Stored(store) \/ Missed(e, n) BY <1>5, <1>6
  <2>4. \A n \in left : n \notin gone
    <3>1. ASSUME NEW n \in Pending(queue), n \in Numbers(lane.jobs) PROVE FALSE
      <4>1. n < n BY <3>1, LaneFacts DEF Ahead
      <4>2. n \in Nat BY <1>1, <1>2, <3>1
      <4>. QED BY <4>1, <4>2
    <3>. QED BY <1>6, <3>1
  <2>5. db' = Release(e, gone) BY <1>0
  <2>. HIDE DEF gone, flying, left
  <2>6. Sound(db', left, Stored(store)) /\ Moves(e, db', {})
    BY ONLY <2>1, <2>2, <2>3, <2>4, <2>5, ReleaseKeeps
  <2>. QED BY <2>6 DEF left
<1>8. Moves(db, db', {}) BY <1>5, <1>7, MovesOn
<1>9. QueueOk(queue, db') /\ LaneOk(lane', store, db')
  <2>1. Good(e, queue, lane', store)
    <3>1. LaneOk(lane', store, e)
      <4>1. LaneOk(lane, store, e) BY <1>5 DEF Good
      <4>. QED BY <1>1, <1>3, <1>4, <1>5, <4>1 DEF LaneOk
    <3>2. Sound(e, Flying(queue, lane'), Stored(store))
      <4>1. Sound(e, Flying(queue, lane), Stored(store)) BY <1>5 DEF Good
      <4>. QED BY <1>5, <1>6, <4>1 DEF Sound, Accounts, Reserves
    <3>3. Ahead(queue, lane', store) BY <1>4, LaneFacts DEF Ahead
    <3>. QED BY <1>5, <3>1, <3>2, <3>3 DEF Good
  <2>2. Good(db', queue, lane', store) BY <1>7, <2>1, GoodMoves
  <2>. QED BY <2>2 DEF Good
<1>10. Ahead(queue, lane', store) BY <1>4, LaneFacts DEF Ahead
<1>. QED BY <1>0, <1>7, <1>8, <1>9, <1>10, MovesApart DEF LaneKeeps, LogKeeps, Good

LEMMA AcknowledgeKeeps == ASSUME NowGood, Acknowledge PROVE LaneKeeps
<1>0. lane.pc = "ACKNOWLEDGE" /\ lane' = [lane EXCEPT !.pc = "SETTLE"]
      /\ UNCHANGED <<db, queue, store>>
  BY DEF Acknowledge
<1>1. /\ lane \in LaneRecord /\ lane.jobs \in Seq(JobRecord) /\ lane.ready \in Seq(JobRecord)
      /\ lane.attempt \in Nat /\ lane.failed \in BOOLEAN /\ lane.sequence \in Nat
  BY LaneFacts
<1>2. /\ lane' \in LaneRecord /\ lane'.pc = "SETTLE" /\ lane'.jobs = lane.jobs
      /\ lane'.ready = lane.ready /\ lane'.failed = lane.failed /\ lane'.sequence = lane.sequence
  <2>1. lane' = Made(lane, "SETTLE", lane.jobs, lane.ready, lane.attempt, lane.failed, lane.sequence)
    BY <1>0, <1>1 DEF Made, LaneRecord
  <2>. QED BY ONLY NowGood, <1>1, <2>1, LaneTurns, Phases
<1>3. Flying(queue, lane') = Flying(queue, lane) BY <1>0, <1>2 DEF Flying
<1>4. LaneOk(lane', store, db) BY <1>0, <1>2, LaneFacts DEF LaneOk, Working
<1>5. Ahead(queue, lane', store) BY <1>2, LaneFacts DEF Ahead
<1>6. Good(db, queue, lane', store) BY <1>3, <1>4, <1>5, LaneFacts DEF Good
<1>. QED BY <1>0, <1>6, StillMoves DEF LaneKeeps, LogKeeps, NowGood

(* The batch is settled: what comes after it is not, and whoever waited for   *)
(* it is told.                                                                *)
LEMMA SettledKeeps ==
    ASSUME NEW d, NEW n \in Nat, NEW flying, NEW stored, Sound(d, flying, stored),
           n <= d.admitted, \A m \in flying : n < m,
           NEW e, e = SettleBarriers([d EXCEPT !.settled = n])
    PROVE  Sound(e, flying, stored) /\ Moves(d, e, {})
<1>. DEFINE g == [d EXCEPT !.settled = n]
<1>1. Bounded(d) BY DEF Sound
<1>2. /\ g \in DbRecord /\ g.admitted = d.admitted /\ g.settled = n
      /\ g.first = d.first /\ g.published = d.published /\ g.asked = d.asked
  BY <1>1 DEF Bounded, DbRecord
<1>3. e = SettleBarriers(g) OBVIOUS
<1>. HIDE DEF g
<1>4. Bounded(g) BY <1>1, <1>2 DEF Bounded
<1>5. \A m : Missed(g, m) <=> Missed(d, m) BY <1>2 DEF Missed, Failed
<1>6. Accounts(g, flying, stored) BY <1>2, <1>5 DEF Sound, Accounts
<1>7. Reserves(g, flying) BY <1>2 DEF Sound, Reserves
<1>8. Truth(g, stored) BY <1>2, <1>5 DEF Sound, Truth
<1>9. Moves(d, g, {})
  <2>1. d.admitted <= g.admitted BY <1>1, <1>2, BoundedFacts
  <2>2. Advances(d, g) BY <1>2, <2>1 DEF Advances, Answers, Tells
  <2>3. Calm(d, g, {}) BY <1>2 DEF Calm
  <2>. QED BY <1>1, <1>4, <2>2, <2>3 DEF Moves
<1>10. Sound(g, flying, stored) BY <1>4, <1>6, <1>7, <1>8 DEF Sound
<1>11. Sound(e, flying, stored) /\ Moves(g, e, {}) BY <1>3, <1>10, SettleKeeps
<1>. QED BY <1>9, <1>11, MovesOn

LEMMA NoBatch ==
    /\ Batch(<< >>) /\ Numbers(<< >>) = {} /\ << >> \in Seq(JobRecord)
<1>1. << >> \in Seq(JobRecord) /\ DOMAIN << >> = {} BY EmptySeq
<1>. QED BY <1>1, EmptyNumbers DEF Batch

LEMMA SettleBatchKeeps == ASSUME NowGood, Settle PROVE LaneKeeps
<1>. DEFINE n == Last(lane.jobs).number
<1>0. /\ lane.pc = "SETTLE" /\ UNCHANGED <<queue, store>>
      /\ db' = SettleBarriers([db EXCEPT !.settled = n])
      /\ lane' = [lane EXCEPT !.pc = "IDLE", !.jobs = << >>, !.ready = << >>,
                              !.attempt = 0, !.failed = FALSE]
  BY DEF Settle
<1>1. /\ LaneOk(lane, store, db) /\ Batch(lane.jobs) /\ lane.jobs # << >>
      /\ Numbers(lane.jobs) \subseteq 1..db.admitted /\ store.watermark <= lane.sequence
  BY <1>0, LaneFacts DEF LaneOk, Working
<1>2. lane \in LaneRecord /\ lane.sequence \in Nat /\ db.admitted \in Nat BY LaneFacts
<1>3. n \in Numbers(lane.jobs)
  <2>1. n = lane.jobs[Len(lane.jobs)].number /\ Len(lane.jobs) \in DOMAIN lane.jobs
    BY <1>1, BatchFacts DEF Last
  <2>. QED BY <1>1, <2>1, BatchFacts
<1>4. n \in Nat /\ n <= db.admitted BY <1>1, <1>2, <1>3
<1>. HIDE DEF n
<1>5. Flying(queue, lane) = Pending(queue) BY <1>0 DEF Flying
<1>6. \A m \in Flying(queue, lane) : n < m BY <1>3, <1>5, LaneFacts DEF Ahead
<1>7. Sound(db', Flying(queue, lane), Stored(store)) /\ Moves(db, db', {})
  <2>1. Sound(db, Flying(queue, lane), Stored(store)) BY LaneFacts
  <2>. DEFINE e == db'
              flying == Flying(queue, lane)
  <2>2. e = SettleBarriers([db EXCEPT !.settled = n]) BY <1>0
  <2>3. Sound(db, flying, Stored(store)) /\ \A m \in flying : n < m BY <1>6, <2>1
  <2>. HIDE DEF e, flying
  <2>4. Sound(e, flying, Stored(store)) /\ Moves(db, e, {})
    BY ONLY <1>4, <2>2, <2>3, SettledKeeps
  <2>. QED BY <2>4 DEF e, flying
<1>8. Good(db', queue, lane, store) BY <1>7, GoodMoves DEF NowGood
<1>9. /\ lane' \in LaneRecord /\ lane'.pc = "IDLE" /\ lane'.jobs = << >>
      /\ lane'.sequence = lane.sequence
  <2>1. lane' = Made(lane, "IDLE", << >>, << >>, 0, FALSE, lane.sequence)
    BY <1>0, <1>2 DEF Made, LaneRecord
  <2>2. FALSE \in BOOLEAN /\ 0 \in Nat /\ << >> \in Seq(JobRecord) BY NoBatch
  <2>. QED BY ONLY NowGood, <1>2, <2>1, <2>2, LaneTurns, Phases
<1>10. Flying(queue, lane') = Flying(queue, lane) BY <1>5, <1>9 DEF Flying
<1>11. LaneOk(lane', store, db')
  <2>1. LaneOk(lane, store, db') BY <1>8 DEF Good
  <2>. QED BY <1>9, <2>1, NoBatch DEF LaneOk, Working
<1>12. Ahead(queue, lane', store) BY <1>9, NoBatch, LaneFacts DEF Ahead
<1>13. Good(db', queue, lane', store) BY <1>8, <1>10, <1>11, <1>12 DEF Good
<1>. QED BY <1>0, <1>7, <1>13, MovesApart DEF LaneKeeps, LogKeeps

(* The lane at rest, before it takes its first batch or after its last.       *)
LEMMA Rests ==
    ASSUME NowGood, NEW e, Good(e, queue, lane, store), Moves(db, e, {}), db' = e,
           UNCHANGED <<queue, store>>,
           lane.pc \in {"OPENING", "IDLE"}, lane' \in LaneRecord,
           lane'.pc \in {"IDLE", "ENDED"},
           \/ lane'.jobs = << >> /\ store.watermark = 0
           \/ lane'.jobs = lane.jobs /\ lane'.sequence = lane.sequence
    PROVE  LaneKeeps
<1>1. LaneOk(lane, store, e) /\ Ahead(queue, lane, store)
      /\ Sound(e, Flying(queue, lane), Stored(store)) /\ QueueOk(queue, e)
  BY DEF Good
<1>2. Flying(queue, lane') = Flying(queue, lane) BY DEF Flying
<1>3. LaneOk(lane', store, e)
  <2>1. CASE lane'.jobs = << >> /\ store.watermark = 0
    <3>1. store.watermark <= lane'.sequence BY <2>1 DEF LaneRecord
    <3>. QED BY <1>1, <2>1, <3>1, NoBatch DEF LaneOk, Working
  <2>2. CASE lane'.jobs = lane.jobs /\ lane'.sequence = lane.sequence
    BY <1>1, <2>2 DEF LaneOk, Working
  <2>. QED BY <2>1, <2>2
<1>4. Ahead(queue, lane', store) BY <1>1, NoBatch DEF Ahead
<1>5. Good(e, queue, lane', store) BY <1>1, <1>2, <1>3, <1>4 DEF Good
<1>. QED BY <1>5, MovesApart DEF LaneKeeps, LogKeeps

LEMMA LaneOpens == ASSUME NowGood, LaneOpen \/ LaneFailsToOpen PROVE LaneKeeps
<1>0. lane.pc = "OPENING" /\ UNCHANGED <<queue, store>> BY DEF LaneOpen, LaneFailsToOpen
<1>1. store.watermark = 0 BY <1>0, LaneFacts DEF LaneOk
<1>2. ASSUME LaneOpen PROVE LaneKeeps
  <2>. DEFINE s == IF db.closing THEN "CLOSING" ELSE "OPEN"
  <2>1. lane' = Idle /\ db' = [db EXCEPT !.state = s] BY <1>2 DEF LaneOpen
  <2>2. s \in {"OPENING", "OPEN", "DEGRADED", "CLOSING", "CLOSED"} OBVIOUS
  <2>. HIDE DEF s
  <2>3. Alike(db, db') BY <2>1, <2>2, LaneFacts, StateAlike
  <2>4. Good(db', queue, lane, store) /\ Moves(db, db', {}) BY <2>3, GoodAlike DEF NowGood
  <2>5. lane' \in LaneRecord /\ lane'.pc = "IDLE" /\ lane'.jobs = << >>
    BY <2>1, NoBatch DEF Idle, LaneRecord
  <2>. QED BY <1>0, <1>1, <2>4, <2>5, Rests
<1>3. ASSUME LaneFailsToOpen PROVE LaneKeeps
  <2>. DEFINE f == Failure(db, 0)
              told == [f EXCEPT !.unavailable = TRUE]
              s == IF db.closing THEN "CLOSING" ELSE "DEGRADED"
  <2>1. \/ db' = [told EXCEPT !.state = s] /\ lane' = [Idle EXCEPT !.handle = FALSE]
        \/ /\ db' = [told EXCEPT !.closing = TRUE]
           /\ lane' = [Idle EXCEPT !.handle = FALSE, !.opened = "REJECTED"]
    BY <1>3 DEF LaneFailsToOpen
  <2>2. Good(f, queue, lane, store) /\ Moves(db, f, {})
    <3>1. 0 <= db.admitted BY LaneFacts
    <3>. QED BY <3>1, GoodFails DEF NowGood
  <2>3. Bounded(f) BY <2>2 DEF Moves
  <2>. HIDE DEF f
  <2>4. Alike(f, told) /\ Bounded(told) BY <2>3, FlagsAlike, AlikeBounded
  <2>5. s \in {"OPENING", "OPEN", "DEGRADED", "CLOSING", "CLOSED"} OBVIOUS
  <2>. HIDE DEF told, s
  <2>6. Alike(told, db')
    <3>1. Alike(told, [told EXCEPT !.state = s]) BY <2>4, <2>5, StateAlike
    <3>2. Alike(told, [told EXCEPT !.closing = TRUE]) BY <2>4, FlagsAlike
    <3>. QED BY <2>1, <3>1, <3>2
  <2>7. Alike(f, db') BY <2>4, <2>6, AlikeOn
  <2>8. Good(db', queue, lane, store) /\ Moves(f, db', {}) BY <2>2, <2>7, GoodAlike
  <2>9. Moves(db, db', {}) BY <2>2, <2>8, MovesOn
  <2>10. lane' \in LaneRecord /\ lane'.pc = "IDLE" /\ lane'.jobs = << >>
    <3>1. \E o \in {"OK", "REJECTED"} :
            lane' = [pc |-> "IDLE", jobs |-> << >>, ready |-> << >>, attempt |-> 0,
                     failed |-> FALSE, sequence |-> 0, handle |-> FALSE, opened |-> o]
      BY <2>1 DEF Idle
    <3>. QED BY <3>1, NoBatch DEF LaneRecord
  <2>. QED BY <1>0, <1>1, <2>8, <2>9, <2>10, Rests
<1>. QED BY <1>2, <1>3

LEMMA EndKeeps == ASSUME NowGood, End PROVE LaneKeeps
<1>0. /\ lane.pc = "IDLE" /\ UNCHANGED <<queue, store>>
      /\ lane' = [lane EXCEPT !.pc = "ENDED", !.handle = FALSE]
      /\ \/ db' = [db EXCEPT !.state = "CLOSED"]
         \/ db' = [RecordGap(db) EXCEPT !.state = "CLOSED"]
  BY DEF End
<1>1. ASSUME NEW d, Good(d, queue, lane, store), Moves(db, d, {}),
             db' = [d EXCEPT !.state = "CLOSED"]
      PROVE  Good(db', queue, lane, store) /\ Moves(db, db', {})
  <2>1. Alike(d, db') BY <1>1, StateAlike DEF Moves
  <2>2. Good(db', queue, lane, store) /\ Moves(d, db', {}) BY <1>1, <2>1, GoodAlike
  <2>. QED BY <1>1, <2>2, MovesOn
<1>2. Good(db', queue, lane, store) /\ Moves(db, db', {})
  <2>1. Good(db, queue, lane, store) /\ Moves(db, db, {}) BY StillMoves DEF NowGood
  <2>2. Good(RecordGap(db), queue, lane, store) /\ Moves(db, RecordGap(db), {})
    BY GoodGap DEF NowGood
  <2>. QED BY <1>0, <1>1, <2>1, <2>2
<1>3. /\ lane' \in LaneRecord /\ lane'.pc = "ENDED" /\ lane'.jobs = lane.jobs
      /\ lane'.sequence = lane.sequence
  <2>1. lane \in LaneRecord BY LaneFacts
  <2>2. lane' = [pc |-> "ENDED", jobs |-> lane.jobs, ready |-> lane.ready,
                 attempt |-> lane.attempt, failed |-> lane.failed, sequence |-> lane.sequence,
                 handle |-> FALSE, opened |-> lane.opened]
    BY <1>0, <2>1 DEF LaneRecord
  <2>. QED BY <2>1, <2>2 DEF LaneRecord
<1>. QED BY <1>0, <1>2, <1>3, Rests

LEMMA LaneStepKeeps == ASSUME NowGood, LaneStep PROVE LaneKeeps
<1>1. ASSUME TakeRead PROVE LaneKeeps
  <2>1. /\ lane.pc = "IDLE" /\ queue # << >> /\ Head(queue).type = "READ"
        /\ queue' = Tail(queue) /\ UNCHANGED <<lane, store>>
    BY <1>1 DEF TakeRead
  <2>2. PICK x \in {"OK", "FAILED"} : db' = [db EXCEPT !.asked[Head(queue).of].status = x]
    BY <1>1 DEF TakeRead
  <2>3. Good(db', queue', lane, store) /\ Advances(db, db') /\ NobodyElse(db, db')
    BY <2>1, <2>2, TakeReadKeeps DEF NowGood
  <2>. QED BY <2>1, <2>3 DEF LaneKeeps, LogKeeps
<1>. QED BY <1>1, LaneOpens, TakeBatchKeeps, PrepareKeeps, AttemptsKeep, ReleaseBatchKeeps,
            AcknowledgeKeeps, SettleBatchKeeps, EndKeeps DEF LaneStep

-----------------------------------------------------------------------------
(* The inductive invariant, and what every step keeps.                        *)

Late == {"DRAINING", "ENDING", "CLOSED"}
RecorderRecord ==
    [pc : {"OPENING", "STARTING", "LOADING", "OPEN", "ABANDONED", "CLOSING", "GIVING_UP"} \cup Late,
     ready : BOOLEAN, gave_up : BOOLEAN]

(* The recorder asks for the startup once, and for the shutdown once.         *)
RecorderOk(r, d) ==
    /\ r \in RecorderRecord
    /\ r.pc = "OPENING" => d.asked["startup"].status = "NONE"
    /\ r.pc \notin Late => d.asked["shutdown"].status = "NONE"

HistoryInv == NowGood /\ RecorderOk(recorder, db) /\ Learned(learning)
StepKeeps == HistoryInv' /\ Advances(db, db') /\ LogKeeps(store, store')

(* A step about the record, the queue and the recorder; who asks, if anybody, *)
(* is not the recorder.                                                       *)
LEMMA Ordinary ==
    ASSUME HistoryInv, UNCHANGED <<lane, store>>, NEW C, C \cap Recording = {},
           Good(db', queue', lane, store), Moves(db, db', C), Learned(learning'),
           recorder' \in RecorderRecord, recorder'.pc = "OPENING" => recorder.pc = "OPENING",
           recorder.pc \in Late => recorder'.pc \in Late
    PROVE  StepKeeps
<1>1. NobodyElse(db, db') /\ Advances(db, db') BY MovesApart
<1>2. {"startup", "shutdown"} \subseteq Recording BY DEF Recording
<1>3. RecorderOk(recorder', db') BY <1>1, <1>2 DEF HistoryInv, RecorderOk, NobodyElse
<1>. QED BY <1>1, <1>3 DEF StepKeeps, HistoryInv, NowGood, LogKeeps

LEMMA Goes ==
    ASSUME HistoryInv,
           NEW pc \in {"STARTING", "LOADING", "OPEN", "ABANDONED", "CLOSING", "GIVING_UP"} \cup Late,
           Go(pc)
    PROVE  recorder' \in RecorderRecord /\ recorder'.pc = pc /\ pc # "OPENING"
BY DEF HistoryInv, RecorderOk, Go, RecorderRecord, Late

LEMMA Still ==
    ASSUME HistoryInv
    PROVE  /\ Good(db, queue, lane, store) /\ Moves(db, db, {}) /\ recorder \in RecorderRecord
           /\ Learned(learning) /\ Bounded(db) /\ {} \cap Recording = {}
BY StillMoves DEF HistoryInv, NowGood, RecorderOk, Moves

(* One move of the record after another; whoever asks in the second is new.   *)
LEMMA MovesThen ==
    ASSUME NEW d, NEW e, NEW f, NEW C, Moves(d, e, {}), Moves(e, f, C)
    PROVE  Moves(d, f, C)
<1>1. Bounded(d) /\ Bounded(e) /\ Bounded(f) BY DEF Moves
<1>2. d.admitted <= e.admitted /\ e.admitted <= f.admitted BY DEF Moves, Advances
<1>3. d.admitted \in Nat /\ e.admitted \in Nat /\ f.admitted \in Nat BY <1>1, BoundedFacts
<1>4. Tells(d, f) BY <1>1, <1>2, TellsOn DEF Moves, Advances
<1>5. ASSUME NEW c \in Caller
      PROVE  Answers(d.asked[c], f.asked[c], d.admitted, f.admitted)
  <2>1. /\ d.asked[c] \in AskRecord /\ e.asked[c] \in AskRecord /\ f.asked[c] \in AskRecord
    BY <1>1, BoundedFacts
  <2>2. /\ Answers(d.asked[c], e.asked[c], d.admitted, e.admitted)
        /\ Answers(e.asked[c], f.asked[c], e.admitted, f.admitted)
    BY DEF Moves, Advances
  <2>. QED BY <1>2, <1>3, <2>1, <2>2, AnswersOn
<1>6. Calm(d, f, C)
  <2>1. ASSUME NEW c \in Caller, c \in C PROVE d.asked[c].status = "NONE"
    <3>1. e.asked[c].status = "NONE" BY <2>1 DEF Moves, Calm
    <3>. QED BY <2>1, <3>1 DEF Moves, Advances, Answers
  <2>2. ASSUME NEW c \in Caller, c \notin C, c \in Reading \/ d.asked[c].status = "NONE"
        PROVE  f.asked[c] = d.asked[c]
    BY <2>2 DEF Moves, Calm
  <2>. QED BY <2>1, <2>2 DEF Calm
<1>7. d.admitted <= f.admitted BY <1>2, <1>3
<1>. QED BY <1>1, <1>4, <1>5, <1>6, <1>7 DEF Moves, Advances

-----------------------------------------------------------------------------
(* The lane, and what happens beside it.                                      *)

LEMMA LanePart == ASSUME HistoryInv, LaneStep PROVE StepKeeps
<1>1. LaneKeeps BY LaneStepKeeps DEF HistoryInv
<1>2. recorder' = recorder
  BY DEF LaneStep, LaneOpen, LaneFailsToOpen, TakeRead, TakeBatch, Prepare, AttemptStored,
         AttemptUncertain, AttemptRejected, ReleaseBatch, Acknowledge, Settle, End
<1>3. Learned(learning')
  <2>1. CASE Acknowledge
    <3>. DEFINE confirmed == IF lane.failed THEN 0 ELSE Contributed(lane.ready)
                a == learning.acknowledged + confirmed
                b == learning.lost + (Contributed(lane.jobs) - confirmed)
                m == [learning EXCEPT !.acknowledged = a]
    <3>1. learning' = [learning EXCEPT !.acknowledged = a, !.lost = b] BY <2>1 DEF Acknowledge
    <3>. HIDE DEF a, b
    <3>2. Learned(m) BY LearnedOn DEF HistoryInv
    <3>3. learning' = [m EXCEPT !.lost = b] BY <3>1 DEF HistoryInv, Learned
    <3>. HIDE DEF m
    <3>. QED BY <3>2, <3>3, LearnedOn
  <2>2. CASE ~ Acknowledge
    <3>1. learning' = learning
      BY <2>2 DEF LaneStep, LaneOpen, LaneFailsToOpen, TakeRead, TakeBatch, Prepare,
         AttemptStored, AttemptUncertain, AttemptRejected, ReleaseBatch, Settle, End
    <3>. QED BY <3>1 DEF HistoryInv
  <2>. QED BY <2>1, <2>2
<1>4. {"startup", "shutdown"} \subseteq Recording BY DEF Recording
<1>5. RecorderOk(recorder', db')
  BY <1>1, <1>2, <1>4 DEF HistoryInv, LaneKeeps, RecorderOk, NobodyElse
<1>. QED BY <1>1, <1>3, <1>5 DEF StepKeeps, HistoryInv, LaneKeeps, NowGood

LEMMA LanesideKeeps == ASSUME HistoryInv, Checkpoint \/ MaintenanceFails PROVE StepKeeps
<1>0. UNCHANGED <<lane, store, recorder>> BY DEF Checkpoint, MaintenanceFails
<1>1. ASSUME Checkpoint PROVE StepKeeps
  <2>1. /\ db' = Drain(db, queue, learning).db /\ queue' = Drain(db, queue, learning).queue
        /\ learning' = Drain(db, queue, learning).learning
    BY <1>1 DEF Checkpoint
  <2>2. Good(db', queue', lane, store) /\ Moves(db, db', {}) /\ Learned(learning')
    BY <2>1, Still, GoodDrains
  <2>. QED BY <1>0, <2>2, Still, Ordinary
<1>2. ASSUME MaintenanceFails PROVE StepKeeps
  <2>1. db' = RecordGap(db) /\ UNCHANGED <<queue, learning>> BY <1>2 DEF MaintenanceFails
  <2>2. Good(db', queue', lane, store) /\ Moves(db, db', {}) BY <2>1, Still, GoodGap
  <2>. QED BY <1>0, <2>1, <2>2, Still, Ordinary
<1>. QED BY <1>1, <1>2

-----------------------------------------------------------------------------
(* The recorder.                                                              *)

LEMMA RecorderOpensKeeps == ASSUME HistoryInv, RecorderOpens PROVE StepKeeps
<1>0. recorder.pc = "OPENING" /\ UNCHANGED <<lane, store, learning>> BY DEF RecorderOpens
<1>1. "OPENING" \notin Late BY DEF Late
<1>2. ASSUME Good(db', queue, lane, store), Moves(db, db', {}), queue' = queue,
             Go("ABANDONED") \/ Go("LOADING")
      PROVE  StepKeeps
  <2>1. recorder' \in RecorderRecord /\ recorder'.pc # "OPENING" BY <1>2, Goes
  <2>. QED BY <1>0, <1>1, <1>2, <2>1, Still, Ordinary
<1>3. CASE lane.opened = "REJECTED" /\ Go("ABANDONED") /\ UNCHANGED <<db, queue>>
  BY <1>2, <1>3, Still
<1>4. CASE db' = Unreserved(db) /\ Go(IF strict THEN "ABANDONED" ELSE "LOADING") /\ UNCHANGED queue
  <2>1. Good(db', queue, lane, store) /\ Moves(db, db', {}) BY <1>4, Still, GoodUnreserved
  <2>. QED BY <1>2, <1>4, <2>1
<1>5. CASE /\ db' = IF strict THEN db ELSE RecordGap(db)
           /\ Go(IF strict THEN "ABANDONED" ELSE "LOADING") /\ UNCHANGED queue
  <2>1. Good(db', queue, lane, store) /\ Moves(db, db', {}) BY <1>5, Still, GoodGap
  <2>. QED BY <1>2, <1>5, <2>1
<1>6. CASE /\ db' = Barrier(Publish(Hold(Hold(db, "startup"), "session"), "startup"), "startup")
           /\ queue' = Append(queue, Job("SESSION", "startup", db.admitted + 1, 0))
           /\ Go("STARTING")
  <2>. DEFINE d == Hold(db, "startup")
              e == Hold(d, "session")
              f == Publish(e, "startup")
  <2>1. "startup" \in Anyone /\ "session" \in Anyone /\ "startup" \in Caller
        /\ "shutdown" \in Caller
    BY DEF Anyone, Caller, Recording
  <2>2. Good(d, queue, lane, store) /\ Moves(db, d, {}) /\ d.admitted = db.admitted
    <3>1. Alike(db, d) BY <2>1, Still, HoldAlike
    <3>. QED BY <3>1, Still, GoodAlike DEF Alike
  <2>. HIDE DEF d
  <2>3. Good(e, queue, lane, store) /\ Moves(d, e, {}) /\ e.admitted = d.admitted
    <3>1. Alike(d, e) BY <2>1, <2>2, HoldAlike DEF Moves
    <3>. QED BY <2>2, <3>1, GoodAlike DEF Alike
  <2>. HIDE DEF e
  <2>4. Good(f, queue', lane, store) /\ Moves(e, f, {})
    <3>1. queue' = Append(queue, Job("SESSION", "startup", e.admitted + 1, 0))
      BY <1>6, <2>2, <2>3
    <3>. QED BY <2>1, <2>3, <3>1, GoodPublishes
  <2>5. Moves(db, f, {}) BY <2>2, <2>3, <2>4, MovesOn
  <2>6. db' = Barrier(f, "startup") BY <1>6 DEF d, e
  <2>. HIDE DEF f
  <2>7. f.asked["startup"].status = "NONE"
    <3>1. db.asked["startup"].status = "NONE" BY <1>0 DEF HistoryInv, RecorderOk
    <3>. QED BY <2>1, <2>5, <3>1 DEF Moves, Calm
  <2>8. Good(db', queue', lane, store) /\ Moves(f, db', {"startup"})
    BY <2>1, <2>4, <2>6, <2>7, GoodBarrier
  <2>9. Moves(db, db', {"startup"}) BY <2>5, <2>8, MovesThen
  <2>10. recorder' \in RecorderRecord /\ recorder'.pc = "STARTING" BY <1>6, Goes
  <2>11. RecorderOk(recorder', db')
    <3>1. db.asked["shutdown"].status = "NONE" BY <1>0, <1>1 DEF HistoryInv, RecorderOk
    <3>2. db'.asked["shutdown"].status = "NONE" BY <2>1, <2>9, <3>1 DEF Moves, Calm
    <3>. QED BY <2>10, <3>2 DEF RecorderOk
  <2>. QED BY <1>0, <2>8, <2>9, <2>11, Still DEF StepKeeps, HistoryInv, NowGood, LogKeeps, Moves
<1>. QED BY <1>3, <1>4, <1>5, <1>6 DEF RecorderOpens

LEMMA RecorderWaitsKeep ==
    ASSUME HistoryInv, RecorderTimesOut \/ SessionRecorded \/ RecorderEnds
    PROVE  StepKeeps
<1>0. UNCHANGED <<db, queue, lane, store, learning>>
  BY DEF RecorderTimesOut, SessionRecorded, RecorderEnds
<1>1. /\ recorder' \in RecorderRecord /\ recorder'.pc # "OPENING"
      /\ recorder.pc \in Late => recorder'.pc \in Late
  <2>1. CASE RecorderTimesOut
    <3>1. Go("ABANDONED") /\ recorder.pc \in {"OPENING", "LOADING"} BY <2>1 DEF RecorderTimesOut
    <3>. QED BY <3>1, Goes DEF Late
  <2>2. CASE RecorderEnds
    <3>1. Go("CLOSED") BY <2>2 DEF RecorderEnds
    <3>2. "CLOSED" \in Late BY DEF Late
    <3>. QED BY <3>1, <3>2, Goes
  <2>3. CASE SessionRecorded
    <3>1. /\ recorder.pc = "STARTING"
          /\ \/ recorder' = [recorder EXCEPT !.pc = "LOADING", !.ready = TRUE]
             \/ Go("ABANDONED") \/ Go("LOADING")
      BY <2>3 DEF SessionRecorded
    <3>2. CASE recorder' = [recorder EXCEPT !.pc = "LOADING", !.ready = TRUE]
      <4>1. recorder \in RecorderRecord BY Still
      <4>2. recorder' = [pc |-> "LOADING", ready |-> TRUE, gave_up |-> recorder.gave_up]
        BY <3>2, <4>1 DEF RecorderRecord
      <4>. QED BY <3>1, <4>1, <4>2 DEF RecorderRecord, Late
    <3>. QED BY <3>1, <3>2, Goes DEF Late
  <2>. QED BY <2>1, <2>2, <2>3
<1>. QED BY <1>0, <1>1, Still, Ordinary

LEMMA ProfilesKeep == ASSUME HistoryInv, AskProfiles \/ ProfilesLoaded PROVE StepKeeps
<1>0. recorder.pc = "LOADING" /\ UNCHANGED <<lane, store, learning>> /\ "LOADING" \notin Late
      /\ "LOADING" # "OPENING"
  BY DEF AskProfiles, ProfilesLoaded, Late
<1>1. ASSUME db' = db \/ db' = RecordGap(db), queue' = queue, Go("ABANDONED") \/ Go("OPEN")
      PROVE  StepKeeps
  <2>1. Good(db', queue, lane, store) /\ Moves(db, db', {}) BY <1>1, Still, GoodGap
  <2>2. recorder' \in RecorderRecord /\ recorder'.pc # "OPENING" BY <1>1, Goes
  <2>. QED BY <1>0, <1>1, <2>1, <2>2, Still, Ordinary
<1>2. CASE ProfilesLoaded BY <1>1, <1>2 DEF ProfilesLoaded
<1>3. CASE AskProfiles
  <2>1. db.asked["profiles"].status = "NONE" BY <1>3 DEF AskProfiles
  <2>2. CASE Readable(db)
    <3>1. db' = Asked(db, "profiles") /\ queue' = Append(queue, Job("READ", "profiles", 0, 0))
          /\ UNCHANGED recorder
      BY <1>3, <2>2 DEF AskProfiles
    <3>2. "profiles" \in Reading /\ {"profiles"} \cap Recording = {} BY DEF Reading, Recording
    <3>3. Good(db', queue', lane, store) /\ Moves(db, db', {"profiles"})
      BY <2>1, <3>1, <3>2, Still, GoodAsks
    <3>. QED BY <1>0, <3>1, <3>2, <3>3, Still, Ordinary
  <2>3. CASE ~ Readable(db)
    <3>1. db' = RecordGap(db) /\ queue' = queue /\ (Go("ABANDONED") \/ Go("OPEN"))
      BY <1>3, <2>3 DEF AskProfiles
    <3>. QED BY <1>1, <3>1
  <2>. QED BY <2>2, <2>3
<1>. QED BY <1>2, <1>3

(* A step of the recorder in which nobody new asks.                           *)
LEMMA RecorderGoes ==
    ASSUME HistoryInv, UNCHANGED <<lane, store>>,
           Good(db', queue', lane, store), Moves(db, db', {}), Learned(learning'),
           NEW pc \in {"STARTING", "LOADING", "OPEN", "ABANDONED", "CLOSING", "GIVING_UP"} \cup Late,
           Go(pc), recorder.pc \in Late => pc \in Late
    PROVE  StepKeeps
<1>1. recorder' \in RecorderRecord /\ recorder'.pc = pc /\ pc # "OPENING" BY Goes
<1>2. {} \cap Recording = {} OBVIOUS
<1>. QED BY <1>1, <1>2, Ordinary

LEMMA CloseRecorderKeeps == ASSUME HistoryInv, CloseRecorder PROVE StepKeeps
<1>1. /\ recorder.pc \in {"OPEN", "ABANDONED"} /\ UNCHANGED <<lane, store>>
      /\ db' = Drain(db, queue, learning).db /\ queue' = Drain(db, queue, learning).queue
      /\ learning' = Drain(db, queue, learning).learning
      /\ Go("CLOSING") \/ Go("CLOSED")
  BY DEF CloseRecorder
<1>2. Good(db', queue', lane, store) /\ Moves(db, db', {}) /\ Learned(learning')
  BY <1>1, Still, GoodDrains
<1>3. recorder.pc \notin Late /\ "CLOSED" \in Late BY <1>1 DEF Late
<1>. QED BY <1>1, <1>2, <1>3, RecorderGoes

(* The captures that are left are given back, and told where they are gaps.   *)
LEMMA SurrenderKeeps ==
    ASSUME HistoryInv, NEW d, d = Gaps(Kept(db), Cardinality(Claimed))
    PROVE  Good(d, queue, lane, store) /\ Moves(db, d, {})
<1>. DEFINE n == Cardinality(Claimed)
            k == Kept(db)
<1>1. n \in Nat
  <2>1. IsFiniteSet(Context) BY LaneAssumption
  <2>2. Claimed \subseteq Context BY DEF Claimed
  <2>. QED BY <2>1, <2>2, FS_Subset, FS_CardinalityType
<1>2. Alike(db, k) BY Still, KeptAlike
<1>3. Good(k, queue, lane, store) /\ Moves(db, k, {}) BY <1>2, Still, GoodAlike
<1>4. d = Gaps(k, n) OBVIOUS
<1>. HIDE DEF n, k
<1>5. Good(d, queue, lane, store) /\ Moves(k, d, {}) BY <1>1, <1>3, <1>4, GoodGaps
<1>. QED BY <1>3, <1>5, MovesOn

(* The close of the database after another move of its record.                *)
LEMMA ThenCloses ==
    ASSUME HistoryInv, NEW d, NEW q, Good(d, q, lane, store), Moves(db, d, {})
    PROVE  Good(BeginClose(d), q, lane, store) /\ Moves(db, BeginClose(d), {})
<1>1. Alike(d, BeginClose(d)) BY CloseAlike DEF Moves
<1>. HIDE DEF BeginClose
<1>2. Good(BeginClose(d), q, lane, store) /\ Moves(d, BeginClose(d), {}) BY <1>1, GoodAlike
<1>. QED BY <1>2, MovesOn

LEMMA DrainRecorderKeeps == ASSUME HistoryInv, DrainRecorder PROVE StepKeeps
<1>. DEFINE d == Gaps(Kept(db), Cardinality(Claimed))
            drained == Drain(d, queue, learning)
<1>0. recorder.pc = "CLOSING" /\ UNCHANGED <<lane, store>> /\ "CLOSING" \notin Late
      /\ "CLOSED" \in Late /\ "ENDING" \in Late /\ "DRAINING" \in Late
  BY DEF DrainRecorder, Late
<1>1. \/ Go("CLOSED") /\ UNCHANGED <<db, queue, learning>>
      \/ db' = BeginClose(RecordGap(d)) /\ Go("ENDING") /\ UNCHANGED <<queue, learning>>
      \/ /\ db' = Barrier(drained.db, "shutdown") /\ Go("DRAINING")
         /\ queue' = drained.queue /\ learning' = drained.learning
  BY DEF DrainRecorder
<1>2. Good(d, queue, lane, store) /\ Moves(db, d, {}) BY SurrenderKeeps
<1>. HIDE DEF d
<1>3. CASE Go("CLOSED") /\ UNCHANGED <<db, queue, learning>>
  BY <1>0, <1>3, Still, RecorderGoes
<1>4. CASE db' = BeginClose(RecordGap(d)) /\ Go("ENDING") /\ UNCHANGED <<queue, learning>>
  <2>1. Good(RecordGap(d), queue, lane, store) /\ Moves(d, RecordGap(d), {}) BY <1>2, GoodGap
  <2>2. Moves(db, RecordGap(d), {}) BY <1>2, <2>1, MovesOn
  <2>3. Good(db', queue, lane, store) /\ Moves(db, db', {}) BY <1>4, <2>1, <2>2, ThenCloses
  <2>. QED BY <1>0, <1>4, <2>3, Still, RecorderGoes
<1>5. CASE /\ db' = Barrier(drained.db, "shutdown") /\ Go("DRAINING")
           /\ queue' = drained.queue /\ learning' = drained.learning
  <2>. DEFINE e == drained.db
  <2>1. Good(e, queue', lane, store) /\ Moves(d, e, {}) /\ Learned(learning')
    BY <1>2, <1>5, Still, GoodDrains
  <2>2. db' = Barrier(e, "shutdown") BY <1>5
  <2>. HIDE DEF drained, e
  <2>3. Moves(db, e, {}) BY <1>2, <2>1, MovesOn
  <2>4. "shutdown" \in Caller /\ "shutdown" \notin Reading
    BY CallersApart DEF Recording
  <2>5. db.asked["shutdown"].status = "NONE" BY <1>0 DEF HistoryInv, RecorderOk
  <2>6. e.asked["shutdown"].status = "NONE" BY <2>3, <2>4, <2>5 DEF Moves, Calm
  <2>7. Good(db', queue', lane, store) /\ Moves(e, db', {"shutdown"})
    BY <2>1, <2>2, <2>4, <2>6, GoodBarrier
  <2>8. Moves(db, db', {"shutdown"}) BY <2>3, <2>7, MovesThen
  <2>9. recorder' \in RecorderRecord /\ recorder'.pc = "DRAINING" BY <1>0, <1>5, Goes
  <2>10. RecorderOk(recorder', db') BY <1>0, <2>9 DEF RecorderOk
  <2>. QED BY <1>0, <2>1, <2>7, <2>8, <2>10 DEF StepKeeps, HistoryInv, NowGood, LogKeeps, Moves
<1>. QED BY <1>1, <1>3, <1>4, <1>5

LEMMA GivesUpKeeps == ASSUME HistoryInv, StopWaiting \/ GiveUp PROVE StepKeeps
<1>0. UNCHANGED <<queue, lane, store, learning>> /\ "ENDING" \in Late
  BY DEF StopWaiting, GiveUp, Late
<1>1. CASE StopWaiting
  <2>1. /\ recorder.pc = "CLOSING" /\ db' = Discard(db, "layout", FALSE)
        /\ recorder' = [recorder EXCEPT !.pc = "GIVING_UP", !.gave_up = TRUE]
    BY <1>1 DEF StopWaiting
  <2>2. Good(db', queue, lane, store) /\ Moves(db, db', {}) BY <2>1, Still, GoodDiscards
  <2>3. recorder' = [pc |-> "GIVING_UP", ready |-> recorder.ready, gave_up |-> TRUE]
    BY <2>1, Still DEF RecorderRecord
  <2>4. recorder' \in RecorderRecord /\ recorder'.pc # "OPENING" /\ recorder.pc \notin Late
    BY <2>1, <2>3, Still DEF RecorderRecord, Late
  <2>. QED BY <1>0, <2>2, <2>4, Still, Ordinary
<1>2. CASE GiveUp
  <2>. DEFINE g == RecordGap(db)
              b == "session" \in db.held
              e == Discard(g, "session", b)
  <2>1. db' = BeginClose(e) /\ Go("ENDING") BY <1>2 DEF GiveUp
  <2>2. Good(g, queue, lane, store) /\ Moves(db, g, {}) BY Still, GoodGap
  <2>3. b \in BOOLEAN OBVIOUS
  <2>. HIDE DEF g, b
  <2>4. Good(e, queue, lane, store) /\ Moves(g, e, {}) BY <2>2, <2>3, GoodDiscards
  <2>. HIDE DEF e
  <2>5. Moves(db, e, {}) BY <2>2, <2>4, MovesOn
  <2>6. Good(db', queue, lane, store) /\ Moves(db, db', {}) BY <2>1, <2>4, <2>5, ThenCloses
  <2>. QED BY <1>0, <2>1, <2>6, Still, RecorderGoes
<1>. QED BY <1>1, <1>2

LEMMA RecordShutdownKeeps == ASSUME HistoryInv, RecordShutdown PROVE StepKeeps
<1>. DEFINE g == RecordGap(db)
            b == "session" \in db.held
            e == Discard(g, "session", b)
            f == Publish(db, "session")
<1>0. UNCHANGED <<lane, store, learning>> /\ "ENDING" \in Late /\ Go("ENDING")
  BY DEF RecordShutdown, Late
<1>1. \/ /\ db' = BeginClose(f)
         /\ queue' = Append(queue, Job("SESSION", "session", db.admitted + 1, 0))
      \/ db' = BeginClose(db) /\ UNCHANGED queue
      \/ db' = BeginClose(e) /\ UNCHANGED queue
  BY DEF RecordShutdown
<1>2. Good(e, queue, lane, store) /\ Moves(db, e, {})
  <2>1. Good(g, queue, lane, store) /\ Moves(db, g, {}) BY Still, GoodGap
  <2>2. b \in BOOLEAN OBVIOUS
  <2>. HIDE DEF g, b
  <2>3. Good(e, queue, lane, store) /\ Moves(g, e, {}) BY <2>1, <2>2, GoodDiscards
  <2>. HIDE DEF e
  <2>. QED BY <2>1, <2>3, MovesOn
<1>3. /\ Good(f, Append(queue, Job("SESSION", "session", db.admitted + 1, 0)), lane, store)
      /\ Moves(db, f, {})
  <2>1. "session" \in Anyone BY DEF Anyone
  <2>. QED BY <2>1, Still, GoodPublishes
<1>4. Good(db', queue', lane, store) /\ Moves(db, db', {})
  <2>. HIDE DEF e, f
  <2>. QED BY <1>1, <1>2, <1>3, Still, ThenCloses
<1>. QED BY <1>0, <1>4, Still, RecorderGoes

-----------------------------------------------------------------------------
(* Captures and callers.                                                      *)

(* A step that leaves the lane and the recorder alone.                        *)
LEMMA Beside ==
    ASSUME HistoryInv, UNCHANGED <<lane, store, recorder>>, NEW C, C \cap Recording = {},
           Good(db', queue', lane, store), Moves(db, db', C), Learned(learning')
    PROVE  StepKeeps
BY Still, Ordinary

(* Holding or giving back, after another move of the record.                  *)
LEMMA ThenAlike ==
    ASSUME HistoryInv, NEW d, NEW e, Good(d, queue, lane, store), Moves(db, d, {}), Alike(d, e)
    PROVE  Good(e, queue, lane, store) /\ Moves(db, e, {})
<1>1. Good(e, queue, lane, store) /\ Moves(d, e, {}) BY GoodAlike
<1>. QED BY <1>1, MovesOn

LEMMA ThenGap ==
    ASSUME HistoryInv, NEW d, Good(d, queue, lane, store), Moves(db, d, {})
    PROVE  Good(RecordGap(d), queue, lane, store) /\ Moves(db, RecordGap(d), {})
<1>1. Good(RecordGap(d), queue, lane, store) /\ Moves(d, RecordGap(d), {}) BY GoodGap
<1>. QED BY <1>1, MovesOn

LEMMA ThenDiscards ==
    ASSUME HistoryInv, NEW d, NEW h, NEW gap \in BOOLEAN,
           Good(d, queue, lane, store), Moves(db, d, {})
    PROVE  Good(Discard(d, h, gap), queue, lane, store) /\ Moves(db, Discard(d, h, gap), {})
<1>. DEFINE e == Discard(d, h, gap)
<1>1. Good(e, queue, lane, store) /\ Moves(d, e, {}) BY GoodDiscards
<1>. HIDE DEF e
<1>2. Moves(db, e, {}) BY <1>1, MovesOn
<1>. QED BY <1>1, <1>2 DEF e

LEMMA BeginPrepareKeeps ==
    ASSUME HistoryInv, NEW c \in Context, BeginPrepare(c) PROVE StepKeeps
<1>. DEFINE d == SpareLayout(db)
<1>0. UNCHANGED <<queue, lane, store, recorder, learning>> /\ c \in Anyone
  BY DEF BeginPrepare, Anyone
<1>1. db' \in {RecordGap(Unreserved(d)), Unreserved(d), RecordGap(d), Hold(d, c)}
  BY DEF BeginPrepare
<1>2. Alike(db, d) BY Still, SpareAlike
<1>3. Good(d, queue, lane, store) /\ Moves(db, d, {}) BY <1>2, Still, ThenAlike
<1>. HIDE DEF d
<1>4. Good(Unreserved(d), queue, lane, store) /\ Moves(db, Unreserved(d), {})
  <2>1. Good(Unreserved(d), queue, lane, store) /\ Moves(d, Unreserved(d), {})
    BY <1>3, GoodUnreserved
  <2>. QED BY <1>3, <2>1, MovesOn
<1>5. Alike(d, Hold(d, c)) BY <1>0, <1>3, HoldAlike DEF Moves
<1>6. Good(db', queue, lane, store) /\ Moves(db, db', {})
  BY <1>1, <1>3, <1>4, <1>5, ThenAlike, ThenGap
<1>. QED BY <1>0, <1>6, Still, Beside

LEMMA FinishPrepareKeeps ==
    ASSUME HistoryInv, NEW c \in Context, FinishPrepare(c) PROVE StepKeeps
<1>0. UNCHANGED <<queue, lane, store, recorder, learning>> BY DEF FinishPrepare
<1>. DEFINE S == {CacheLayout(db)} \cup (IF "layout" \in db.held THEN {db} ELSE {})
            readied == [capture EXCEPT ![c] = "READY"]
            refused == [capture EXCEPT ![c] = "REFUSED"]
<1>1. \/ \E d \in S : db' = d \/ db' = Discard(d, c, FALSE)
      \/ db' = RecordGap(Discard(db, c, FALSE)) \/ db' = Discard(db, c, TRUE)
  <2>1. \/ \E d \in S : IF Accepting THEN db' = d /\ capture' = readied
                        ELSE db' = Discard(d, c, FALSE) /\ capture' = refused
        \/ db' = IF strict THEN RecordGap(Discard(db, c, FALSE)) ELSE Discard(db, c, TRUE)
    BY DEF FinishPrepare
  <2>. HIDE DEF S, readied, refused
  <2>. QED BY <2>1
<1>2. Alike(db, CacheLayout(db)) BY Still, CacheAlike
<1>3. \A d \in S : Good(d, queue, lane, store) /\ Moves(db, d, {})
  <2>1. Good(CacheLayout(db), queue, lane, store) /\ Moves(db, CacheLayout(db), {})
    BY <1>2, Still, ThenAlike
  <2>2. \A d \in S : d = CacheLayout(db) \/ d = db OBVIOUS
  <2>. HIDE DEF S
  <2>. QED BY <2>1, <2>2, Still
<1>. HIDE DEF S
<1>4. FALSE \in BOOLEAN /\ TRUE \in BOOLEAN OBVIOUS
<1>5. Good(Discard(db, c, FALSE), queue, lane, store) /\ Moves(db, Discard(db, c, FALSE), {})
  BY <1>4, Still, ThenDiscards
<1>6. Good(db', queue, lane, store) /\ Moves(db, db', {})
  BY <1>1, <1>3, <1>4, <1>5, Still, ThenGap, ThenDiscards
<1>. QED BY <1>0, <1>6, Still, Beside

LEMMA TakenOverKeeps ==
    ASSUME HistoryInv, NEW c \in Context, Claim(c) \/ Abandon(c) PROVE StepKeeps
<1>1. /\ UNCHANGED <<queue, lane, store, recorder, learning>>
      /\ db' = db \/ db' = Discard(db, c, FALSE)
  BY DEF Claim, Abandon
<1>2. Good(db', queue, lane, store) /\ Moves(db, db', {}) BY <1>1, Still, GoodDiscards
<1>. QED BY <1>1, <1>2, Still, Beside

(* A contribution is accumulated, for which a place is held, or it is a gap.  *)
LEMMA Contributes ==
    ASSUME HistoryInv, NEW taught, taught = Contribute(db, learning)
    PROVE  /\ Good(taught.db, queue, lane, store) /\ Moves(db, taught.db, {})
           /\ Learned(taught.learning)
<1>. DEFINE x == learning.made + 1
            k == learning.pending + 1
            y == learning.lost + 1
<1>0. Learned(learning) /\ learning.pending \in Nat /\ k \in Nat /\ 1 \in Nat
  BY DEF HistoryInv, Learned
<1>1. \/ /\ taught.db = db
         /\ taught.learning = [learning EXCEPT !.made = x, !.pending = k]
      \/ /\ taught.db = Hold(db, "delta")
         /\ taught.learning = [learning EXCEPT !.made = x, !.pending = 1]
      \/ /\ taught.db = RecordGap(db)
         /\ taught.learning = [learning EXCEPT !.made = x, !.lost = y]
  BY <1>0 DEF Contribute
<1>2. Good(taught.db, queue, lane, store) /\ Moves(db, taught.db, {})
  <2>1. "delta" \in Anyone BY DEF Anyone
  <2>2. Alike(db, Hold(db, "delta")) BY <2>1, Still, HoldAlike
  <2>. QED BY <1>1, <2>2, Still, ThenAlike, GoodGap
<1>3. Learned(taught.learning)
  <2>. HIDE DEF x, k, y
  <2>1. \E a, b, n : n \in Nat /\
           taught.learning = [made |-> a, pending |-> n,
                              acknowledged |-> learning.acknowledged, lost |-> b]
    BY <1>0, <1>1 DEF Learned
  <2>. QED BY <2>1 DEF Learned
<1>. QED BY <1>2, <1>3

LEMMA FinalizeKeeps == ASSUME HistoryInv, NEW c \in Context, Finalize(c) PROVE StepKeeps
<1>. DEFINE taught == IF c \in Timed THEN Contribute(db, learning)
                      ELSE [db |-> db, learning |-> learning]
            d == taught.db
<1>0. UNCHANGED <<lane, store, recorder>> /\ learning' = taught.learning /\ c \in Anyone
  BY DEF Finalize, Anyone
<1>1. \/ db' = d /\ UNCHANGED queue
      \/ db' = Publish(d, c) /\ queue' = Append(queue, Job("CONTEXT", c, d.admitted + 1, 0))
      \/ db' = Discard(RecordGap(d), c, FALSE) /\ UNCHANGED queue
  BY DEF Finalize
<1>2. Good(d, queue, lane, store) /\ Moves(db, d, {}) /\ Learned(learning')
  <2>1. CASE c \in Timed
    <3>1. taught = Contribute(db, learning) BY <2>1
    <3>. HIDE DEF taught
    <3>. QED BY <1>0, <3>1, Contributes
  <2>2. CASE c \notin Timed BY <1>0, <2>2, Still
  <2>. QED BY <2>1, <2>2
<1>. HIDE DEF d
<1>3. Good(db', queue', lane, store) /\ Moves(db, db', {})
  <2>1. CASE db' = d /\ UNCHANGED queue BY <1>2, <2>1
  <2>2. CASE db' = Publish(d, c) /\ queue' = Append(queue, Job("CONTEXT", c, d.admitted + 1, 0))
    <3>1. Good(db', queue', lane, store) /\ Moves(d, db', {}) BY <1>0, <1>2, <2>2, GoodPublishes
    <3>. QED BY <1>2, <3>1, MovesOn
  <2>3. CASE db' = Discard(RecordGap(d), c, FALSE) /\ UNCHANGED queue
    <3>1. Good(RecordGap(d), queue, lane, store) /\ Moves(db, RecordGap(d), {})
      BY <1>2, ThenGap
    <3>. QED BY <2>3, <3>1, ThenDiscards
  <2>. QED BY <1>1, <2>1, <2>2, <2>3
<1>. QED BY <1>0, <1>2, <1>3, Still, Beside

LEMMA FlushKeeps == ASSUME HistoryInv, NEW f \in Flusher, Flush(f) PROVE StepKeeps
<1>. DEFINE drained == Drain(db, queue, learning)
            e == drained.db
<1>0. /\ UNCHANGED <<lane, store, recorder>> /\ db.asked[f].status = "NONE"
      /\ db' = Barrier(e, f) /\ queue' = drained.queue /\ learning' = drained.learning
  BY DEF Flush
<1>1. Good(e, queue', lane, store) /\ Moves(db, e, {}) /\ Learned(learning')
  BY <1>0, Still, GoodDrains
<1>. HIDE DEF drained, e
<1>2. f \in Caller /\ {f} \cap Recording = {} BY CallersApart
<1>3. e.asked[f].status = "NONE" BY <1>0, <1>1, <1>2 DEF Moves, Calm
<1>4. Good(db', queue', lane, store) /\ Moves(e, db', {f})
  BY <1>0, <1>1, <1>2, <1>3, GoodBarrier
<1>5. Moves(db, db', {f}) BY <1>1, <1>4, MovesThen
<1>. QED BY <1>0, <1>1, <1>2, <1>4, <1>5, Beside

LEMMA RequestKeeps == ASSUME HistoryInv, NEW r \in Reader, Request(r) PROVE StepKeeps
<1>1. /\ UNCHANGED <<lane, store, recorder, learning>> /\ db.asked[r].status = "NONE"
      /\ db' = Asked(db, r) /\ queue' = Append(queue, Job("READ", r, 0, 0))
  BY DEF Request
<1>2. r \in Reading /\ {r} \cap Recording = {} BY CallersApart DEF Reading
<1>3. Good(db', queue', lane, store) /\ Moves(db, db', {r}) BY <1>1, <1>2, Still, GoodAsks
<1>. QED BY <1>1, <1>2, <1>3, Still, Beside

-----------------------------------------------------------------------------
(* The invariant holds, and every step is one of the promise.                 *)

LEMMA Starts == ASSUME Init PROVE HistoryInv
<1>. DEFINE nobody == [c \in Caller |-> [status |-> "NONE", target |-> 0]]
<1>0. /\ db = [state |-> "OPENING", closing |-> FALSE, unavailable |-> FALSE,
               admitted |-> 0, settled |-> 0, first |-> NoFailure,
               held |-> {}, published |-> {}, asked |-> nobody]
      /\ queue = << >> /\ lane = [Idle EXCEPT !.pc = "OPENING", !.handle = FALSE, !.opened = "NO"]
      /\ store = [log |-> << >>, watermark |-> 0]
      /\ recorder = [pc |-> "OPENING", ready |-> FALSE, gave_up |-> FALSE]
      /\ learning = [made |-> 0, pending |-> 0, acknowledged |-> 0, lost |-> 0]
  BY DEF Init
<1>1. nobody \in [Caller -> AskRecord] /\ \A c \in Caller : nobody[c].status = "NONE"
                                                          /\ nobody[c].target = 0
  BY DEF AskRecord, Status
<1>. HIDE DEF nobody
<1>2. Bounded(db) BY <1>0, <1>1 DEF Bounded, DbRecord, NoFailure
<1>3. /\ lane \in LaneRecord /\ lane.pc = "OPENING" /\ lane.jobs = << >> /\ lane.sequence = 0
  <2>1. lane = [pc |-> "OPENING", jobs |-> << >>, ready |-> << >>, attempt |-> 0,
                failed |-> FALSE, sequence |-> 0, handle |-> FALSE, opened |-> "NO"]
    BY <1>0 DEF Idle
  <2>. QED BY <2>1, NoBatch DEF LaneRecord
<1>4. DOMAIN << >> = {} BY EmptySeq
<1>5. Pending(queue) = {} /\ Flying(queue, lane) = {} /\ Stored(store) = {}
  BY <1>0, <1>3, <1>4 DEF Pending, Flying, Stored
<1>6. Sound(db, {}, {})
  BY <1>0, <1>1, <1>2 DEF Sound, Accounts, Reserves, Truth
<1>7. QueueOk(queue, db) BY <1>0, <1>4, NoBatch DEF QueueOk
<1>8. LaneOk(lane, store, db)
  <2>1. << >> \in Seq(LogRecord) BY EmptySeq
  <2>. QED BY <1>0, <1>3, <1>5, <2>1, NoBatch DEF LaneOk, Working
<1>9. Ahead(queue, lane, store) BY <1>5 DEF Ahead
<1>10. RecorderOk(recorder, db)
  <2>1. "startup" \in Caller /\ "shutdown" \in Caller BY CallersApart DEF Recording
  <2>. QED BY <1>0, <1>1, <2>1 DEF RecorderOk, RecorderRecord
<1>11. Learned(learning) BY <1>0 DEF Learned
<1>. QED BY <1>5, <1>6, <1>7, <1>8, <1>9, <1>10, <1>11 DEF HistoryInv, NowGood, Good

LEMMA EveryStepKeeps == ASSUME HistoryInv, [Next]_vars PROVE StepKeeps
<1>1. CASE UNCHANGED vars
  <2>1. UNCHANGED <<db, queue, lane, store, recorder, learning>> BY <1>1 DEF vars
  <2>. QED BY <2>1, Still, Beside
<1>2. ASSUME NEW c \in Context,
             BeginPrepare(c) \/ FinishPrepare(c) \/ Claim(c) \/ Abandon(c) \/ Finalize(c)
      PROVE  StepKeeps
  BY <1>2, BeginPrepareKeeps, FinishPrepareKeeps, TakenOverKeeps, FinalizeKeeps
<1>3. ASSUME RecorderStep PROVE StepKeeps
  BY <1>3, RecorderOpensKeeps, RecorderWaitsKeep, ProfilesKeep, DrainRecorderKeeps,
     GivesUpKeeps, RecordShutdownKeeps DEF RecorderStep
<1>. QED BY <1>1, <1>2, <1>3, LanePart, LanesideKeeps, RecorderWaitsKeep, CloseRecorderKeeps,
            GivesUpKeeps, FlushKeeps, RequestKeeps DEF Next, Done

LEMMA Everyone == Reporting \cup (Reading \cup {"shutdown"}) = Caller
BY DEF Reporting, Reading, Caller, Recording

Numbered(s) == [i \in 1..Len(s.log) |-> s.log[i].number]

LEMMA NumberedFacts ==
    ASSUME NEW s, s.log \in Seq(LogRecord)
    PROVE  /\ Numbered(s) \in Seq(Nat) /\ Len(Numbered(s)) = Len(s.log) /\ Len(s.log) \in Nat
           /\ \A i \in 1..Len(s.log) : Numbered(s)[i] = s.log[i].number
           /\ Stored(s) = {Numbered(s)[i] : i \in 1..Len(Numbered(s))}
<1>1. Len(s.log) \in Nat /\ DOMAIN s.log = 1..Len(s.log)
      /\ \A i \in 1..Len(s.log) : s.log[i].number \in Nat
  <2>1. Len(s.log) \in Nat /\ DOMAIN s.log = 1..Len(s.log) OBVIOUS
  <2>2. \A i \in 1..Len(s.log) : s.log[i] \in LogRecord OBVIOUS
  <2>. QED BY <2>1, <2>2 DEF LogRecord
<1>2. Numbered(s) \in Seq(Nat) /\ Len(Numbered(s)) = Len(s.log) BY <1>1 DEF Numbered
<1>. QED BY <1>1, <1>2 DEF Numbered, Stored

(* The stored numbers of before are the beginning of those of after.          *)
LEMMA LogGoesOn ==
    ASSUME NEW s, NEW t, s.log \in Seq(LogRecord), t.log \in Seq(LogRecord), LogKeeps(s, t)
    PROVE  /\ Len(Numbered(s)) <= Len(Numbered(t))
           /\ SubSeq(Numbered(t), 1, Len(Numbered(s))) = Numbered(s)
           /\ \A i \in (Len(Numbered(s)) + 1)..Len(Numbered(t)) :
                 i > 1 => Numbered(t)[i] > Numbered(t)[i - 1]
<1>. DEFINE a == Numbered(s)
            b == Numbered(t)
<1>1. a \in Seq(Nat) /\ b \in Seq(Nat) /\ Len(a) = Len(s.log) /\ Len(b) = Len(t.log)
  BY NumberedFacts
<1>2. /\ \A i \in 1..Len(a) : a[i] = s.log[i].number
      /\ \A i \in 1..Len(b) : b[i] = t.log[i].number
  BY NumberedFacts
<1>3. /\ Len(a) <= Len(b) /\ \A i \in 1..Len(a) : b[i] = a[i]
      /\ \A i \in (Len(a) + 1)..Len(b) : i > 1 => b[i] > b[i - 1]
  <2>1. CASE t.log = s.log
    <3>1. b = a BY <2>1 DEF Numbered
    <3>. HIDE DEF a, b
    <3>. QED BY <1>1, <3>1
  <2>2. CASE t.log # s.log
    <3>1. /\ Len(s.log) <= Len(t.log) /\ \A i \in 1..Len(s.log) : t.log[i] = s.log[i]
          /\ \A i \in (Len(s.log) + 1)..Len(t.log) :
               i > 1 => t.log[i].number > t.log[i - 1].number
      BY <2>2 DEF LogKeeps
    <3>. HIDE DEF a, b
    <3>2. Len(a) \in Nat /\ Len(b) \in Nat BY <1>1
    <3>3. ASSUME NEW i \in (Len(a) + 1)..Len(b), i > 1 PROVE b[i] > b[i - 1]
      <4>1. i \in 1..Len(b) /\ i - 1 \in 1..Len(b) BY <3>2, <3>3
      <4>2. b[i] = t.log[i].number /\ b[i - 1] = t.log[i - 1].number BY <1>2, <4>1
      <4>. QED BY <1>1, <3>1, <3>3, <4>2
    <3>4. ASSUME NEW i \in 1..Len(a) PROVE b[i] = a[i]
      <4>1. i \in 1..Len(b) BY <1>1, <3>1, <3>2
      <4>2. a[i] = s.log[i].number /\ b[i] = t.log[i].number BY <1>2, <4>1
      <4>3. t.log[i] = s.log[i] BY <1>1, <3>1
      <4>. QED BY <4>2, <4>3
    <3>. QED BY <1>1, <3>1, <3>3, <3>4
  <2>. QED BY <2>1, <2>2
<1>. HIDE DEF a, b
<1>4. Len(a) \in Nat /\ Len(b) \in Nat BY <1>1
<1>5. SubSeq(b, 1, Len(a)) = a
  <2>. DEFINE n == Len(a)
              c == SubSeq(b, 1, n)
  <2>1. n \in 0..Len(b) BY <1>3, <1>4
  <2>2. c \in Seq(Nat) /\ Len(c) = n /\ \A i \in 1..n : c[i] = b[i] BY <1>1, <2>1, CutFacts
  <2>3. \A i \in 1..n : c[i] = a[i] BY <1>3, <2>2
  <2>. HIDE DEF c
  <2>. QED BY <1>1, <2>2, <2>3
<1>. QED BY <1>3, <1>5 DEF a, b

LEMMA PromiseStep == ASSUME HistoryInv, StepKeeps PROVE Promise!Next
<1>1. store.log \in Seq(LogRecord) /\ store'.log \in Seq(LogRecord)
  BY LaneFacts DEF HistoryInv, StepKeeps, NowGood, Good, LaneOk
<1>2. Bounded(db) /\ Bounded(db') /\ Truth(db', Stored(store'))
      /\ Stored(store') \subseteq 1..db'.admitted
  BY DEF HistoryInv, StepKeeps, NowGood, Good, Sound, LaneOk
<1>3. Promise!Accept
  <2>1. db.admitted <= db'.admitted BY DEF StepKeeps, Advances
  <2>. QED BY <1>2, <2>1, BoundedFacts DEF Promise!Accept
<1>4. Promise!Keep
  <2>0. LogKeeps(store, store') BY DEF StepKeeps
  <2>1. \A i \in 1..Len(Numbered(store')) : Numbered(store')[i] \in 1..db'.admitted
    BY <1>1, <1>2, NumberedFacts
  <2>2. /\ Len(Numbered(store)) <= Len(Numbered(store'))
        /\ SubSeq(Numbered(store'), 1, Len(Numbered(store))) = Numbered(store)
        /\ \A i \in (Len(Numbered(store)) + 1)..Len(Numbered(store')) :
              i > 1 => Numbered(store')[i] > Numbered(store')[i - 1]
    BY <1>1, <2>0, LogGoesOn
  <2>3. Len(Numbered(store)) \in Nat /\ Len(Numbered(store')) \in Nat BY <1>1, NumberedFacts
  <2>4. Len(Numbered(store')) >= Len(Numbered(store)) BY <2>2, <2>3
  <2>. QED BY <2>1, <2>2, <2>4 DEF Promise!Keep, Numbered
<1>5. Promise!Fail BY DEF Promise!Fail, StepKeeps, Advances, Tells
<1>6. ASSUME NEW w \in Caller PROVE Promise!Answer(w) /\ Promise!Truthful(w)
  <2>1. Promise!Answer(w) BY DEF Promise!Answer, StepKeeps, Advances, Answers
  <2>2. Promise!Truthful(w)
    <3>1. Promise!Stored' = Stored(store')
      BY <1>1, NumberedFacts DEF Promise!Stored, Numbered
    <3>. QED BY <1>2, <3>1
         DEF Promise!Truthful, Promise!FailedBy, Truth, Missed, Failed, Passing
  <2>. QED BY <2>1, <2>2
<1>7. DOMAIN db'.asked = DOMAIN db.asked BY <1>2, BoundedFacts
<1>. QED BY <1>3, <1>4, <1>5, <1>6, <1>7, Everyone DEF Promise!Next

LEMMA PromiseStarts == ASSUME Init PROVE Promise!Init
BY Everyone DEF Init, Promise!Init

(* The lane keeps its promise: publications enter the log once and in the     *)
(* order of their numbers, what is told to be missing is never taken back,    *)
(* and whoever flushes, reads or waits for the shutdown's drain is answered   *)
(* OK only when everything accepted before is stored or, for those who only   *)
(* wait for their turn, known to be missing (_database.py).                   *)
THEOREM LanePromise == Spec => ImplementsPromise
<1>1. HistoryInv /\ [Next]_vars => HistoryInv' /\ Promise!Next
  BY EveryStepKeeps, PromiseStep DEF StepKeeps
<1>. QED BY <1>1, Starts, PromiseStarts, PTL DEF Spec, ImplementsPromise, Promise!Spec

-----------------------------------------------------------------------------
(* What the timing deltas of a queue or of a batch carry.                     *)

Adds(sum, q) ==
    /\ sum[0] = 0 /\ \A n \in 1..Len(q) : sum[n] = sum[n - 1] + q[n].count
    /\ Contributed(q) = sum[Len(q)]

LEMMA SumIsDefined ==
    ASSUME NEW q \in Seq(JobRecord)
    PROVE  \E sum \in [0..Len(q) -> Nat] : Adds(sum, q)
<1>. DEFINE N == Len(q)
            Body(f, n) == IF n = 0 THEN 0 ELSE f[n - 1] + q[n].count
            Found(n) == \E g \in [0..n -> Nat] : \A i \in 0..n : g[i] = Body(g, i)
<1>0. N \in Nat /\ \A i \in 1..N : q[i].count \in Nat
  <2>1. N \in Nat /\ \A i \in 1..N : q[i] \in JobRecord BY LenProperties, ElementOfSeq
  <2>. QED BY <2>1 DEF JobRecord
<1>1. Found(0)
  <2>. DEFINE g == [i \in 0..0 |-> 0]
  <2>1. g \in [0..0 -> Nat] /\ \A i \in 0..0 : i = 0 /\ g[i] = 0 OBVIOUS
  <2>. QED BY <2>1
<1>2. ASSUME NEW n \in 0..N, Found(n), n < N PROVE Found(n + 1)
  <2>1. PICK g \in [0..n -> Nat] : \A i \in 0..n : g[i] = Body(g, i) BY <1>2
  <2>. DEFINE e == g[n] + q[n + 1].count
              h == [i \in 0..(n + 1) |-> IF i = n + 1 THEN e ELSE g[i]]
  <2>2. n \in Nat /\ n \in 0..n /\ n + 1 \in 1..N BY <1>0, <1>2
  <2>3. e \in Nat
    <3>1. g[n] \in Nat /\ q[n + 1].count \in Nat BY <1>0, <2>2
    <3>. QED BY <3>1
  <2>. HIDE DEF e
  <2>4. h \in [0..(n + 1) -> Nat]
    <3>1. ASSUME NEW i \in 0..(n + 1), i # n + 1 PROVE i \in 0..n BY <2>2, <3>1
    <3>. QED BY <2>3, <3>1
  <2>5. ASSUME NEW i \in 0..(n + 1) PROVE h[i] = Body(h, i)
    <3>1. CASE i = n + 1
      <4>1. h[i] = e /\ i # 0 /\ i - 1 = n /\ n \in 0..(n + 1) /\ n # n + 1 BY <2>2, <3>1
      <4>2. h[i - 1] = g[n] BY <4>1
      <4>. QED BY <4>1, <4>2, <3>1 DEF e
    <3>2. CASE i # n + 1
      <4>1. i \in 0..n BY <2>2, <3>2
      <4>2. h[i] = g[i] BY <3>2
      <4>3. CASE i = 0 BY <2>1, <4>1, <4>2, <4>3
      <4>4. CASE i # 0
        <5>1. i - 1 \in 0..n /\ i - 1 \in 0..(n + 1) /\ i - 1 # n + 1 BY <2>2, <4>1, <4>4
        <5>2. h[i - 1] = g[i - 1] BY <5>1
        <5>. QED BY <2>1, <4>1, <4>2, <4>4, <5>2
      <4>. QED BY <4>3, <4>4
    <3>. QED BY <3>1, <3>2
  <2>. QED BY <2>4, <2>5
<1>3. Found(N)
  <2>. DEFINE G == {n \in 0..N : Found(n)}
  <2>1. 0 \in G BY <1>0, <1>1
  <2>2. ASSUME NEW m \in 0..N, m \in G, m < N PROVE m + 1 \in G
    <3>. HIDE DEF Found
    <3>1. Found(m) /\ m + 1 \in 0..N BY <1>0, <2>2
    <3>. QED BY <1>2, <2>2, <3>1
  <2>. HIDE DEF G
  <2>3. \A m \in 0..N : m \in G BY <1>0, <2>1, <2>2, Inductive
  <2>4. N \in 0..N BY <1>0
  <2>. QED BY <2>3, <2>4 DEF G
<1>4. PICK g \in [0..N -> Nat] : \A i \in 0..N : g[i] = Body(g, i) BY <1>3
<1>. DEFINE f == CHOOSE f : f = [n \in 0..N |-> Body(f, n)]
<1>5. g = [n \in 0..N |-> Body(g, n)] BY <1>4
<1>6. f = [n \in 0..N |-> Body(f, n)] BY <1>5
<1>7. Contributed(q) = f[N] BY DEF Contributed
<1>. HIDE DEF f
<1>8. ASSUME NEW n \in 0..N PROVE f[n] = Body(f, n)
  <2>. DEFINE F == [k \in 0..N |-> Body(f, k)]
  <2>1. F[n] = Body(f, n) OBVIOUS
  <2>. HIDE DEF F
  <2>2. f = F BY <1>6 DEF F
  <2>. QED BY <2>1, <2>2
<1>9. \A n \in 0..N : f[n] \in Nat
  <2>. DEFINE T == {n \in 0..N : f[n] \in Nat}
  <2>1. 0 \in T BY <1>0, <1>8
  <2>2. ASSUME NEW m \in 0..N, m \in T, m < N PROVE m + 1 \in T
    <3>1. m + 1 \in 0..N /\ m + 1 \in 1..N /\ m + 1 # 0 /\ (m + 1) - 1 = m BY <1>0, <2>2
    <3>2. f[m + 1] = f[m] + q[m + 1].count BY <1>8, <3>1
    <3>3. f[m] \in Nat /\ q[m + 1].count \in Nat BY <1>0, <2>2, <3>1
    <3>. QED BY <3>1, <3>2, <3>3
  <2>. HIDE DEF T
  <2>3. \A m \in 0..N : m \in T BY <1>0, <2>1, <2>2, Inductive
  <2>. QED BY <2>3 DEF T
<1>10. f \in [0..N -> Nat] BY <1>6, <1>9
<1>11. f[0] = 0 BY <1>0, <1>8
<1>12. \A n \in 1..N : f[n] = f[n - 1] + q[n].count BY <1>0, <1>8
<1>. QED BY <1>7, <1>10, <1>11, <1>12 DEF Adds

LEMMA ContributedIsNat == ASSUME NEW q \in Seq(JobRecord) PROVE Contributed(q) \in Nat
<1>1. PICK sum \in [0..Len(q) -> Nat] : Adds(sum, q) BY SumIsDefined
<1>2. Len(q) \in 0..Len(q) BY LenProperties
<1>. QED BY <1>1, <1>2 DEF Adds

(* Queues that begin alike add up alike, from wherever they begin.            *)
LEMMA SumsAlike ==
    ASSUME NEW q \in Seq(JobRecord), NEW r \in Seq(JobRecord), NEW k \in 0..Len(q),
           NEW n \in Nat, n <= Len(r), k + n <= Len(q),
           \A i \in 1..n : r[i] = q[k + i],
           NEW f \in [0..Len(q) -> Nat], NEW g \in [0..Len(r) -> Nat], Adds(f, q), Adds(g, r)
    PROVE  f[k + n] = f[k] + g[n]
<1>0. Len(q) \in Nat /\ Len(r) \in Nat /\ k \in Nat /\ k <= Len(q) BY LenProperties
<1>. DEFINE T == {m \in 0..n : f[k + m] = f[k] + g[m]}
<1>1. 0 \in T
  <2>1. g[0] = 0 BY DEF Adds
  <2>2. f[k] \in Nat OBVIOUS
  <2>3. k + 0 = k /\ 0 \in 0..n BY <1>0
  <2>4. f[k + 0] = f[k] + g[0] BY <2>1, <2>2, <2>3
  <2>. QED BY <2>3, <2>4
<1>2. ASSUME NEW m \in 0..n, m \in T, m < n PROVE m + 1 \in T
  <2>1. /\ m \in Nat /\ m + 1 \in 1..n /\ m + 1 \in 0..n /\ m + 1 \in 1..Len(r) /\ m \in 0..Len(r)
        /\ k + (m + 1) \in 1..Len(q) /\ (k + (m + 1)) - 1 = k + m /\ (m + 1) - 1 = m
        /\ k + m \in 0..Len(q)
    BY <1>0, <1>2
  <2>2. g[m + 1] = g[m] + r[m + 1].count BY <2>1 DEF Adds
  <2>3. f[k + (m + 1)] = f[k + m] + q[k + (m + 1)].count BY <2>1 DEF Adds
  <2>4. r[m + 1] = q[k + (m + 1)] BY <2>1
  <2>5. q[k + (m + 1)].count \in Nat
    <3>1. q[k + (m + 1)] \in JobRecord BY <2>1, ElementOfSeq
    <3>. QED BY <3>1 DEF JobRecord
  <2>6. f[k] \in Nat /\ g[m] \in Nat /\ f[k + m] = f[k] + g[m] BY <1>0, <1>2, <2>1
  <2>. QED BY <2>1, <2>2, <2>3, <2>4, <2>5, <2>6
<1>3. n \in T
  <2>. HIDE DEF T
  <2>1. \A m \in 0..n : m \in T BY <1>1, <1>2, Inductive
  <2>. QED BY <2>1
<1>. QED BY <1>3

LEMMA SumsBegin ==
    ASSUME NEW q \in Seq(JobRecord), NEW r \in Seq(JobRecord),
           NEW n \in Nat, n <= Len(r), n <= Len(q), \A i \in 1..n : r[i] = q[i],
           NEW f \in [0..Len(q) -> Nat], NEW g \in [0..Len(r) -> Nat], Adds(f, q), Adds(g, r)
    PROVE  f[n] = g[n]
<1>0. Len(q) \in Nat /\ Len(r) \in Nat BY LenProperties
<1>. DEFINE T == {m \in 0..n : f[m] = g[m]}
<1>1. 0 \in T
  <2>1. g[0] = 0 /\ f[0] = 0 BY DEF Adds
  <2>. QED BY <2>1
<1>2. ASSUME NEW m \in 0..n, m \in T, m < n PROVE m + 1 \in T
  <2>1. /\ m + 1 \in 1..n /\ m + 1 \in 0..n /\ m + 1 \in 1..Len(r) /\ m + 1 \in 1..Len(q)
        /\ (m + 1) - 1 = m
    BY <1>0, <1>2
  <2>2. g[m + 1] = g[m] + r[m + 1].count BY <2>1 DEF Adds
  <2>3. f[m + 1] = f[m] + q[m + 1].count BY <2>1 DEF Adds
  <2>. QED BY <1>2, <2>1, <2>2, <2>3
<1>3. n \in T
  <2>. HIDE DEF T
  <2>1. \A m \in 0..n : m \in T BY <1>1, <1>2, Inductive
  <2>. QED BY <2>1
<1>. QED BY <1>3

Cut(q, k, a, b) == a = SubSeq(q, 1, k) /\ b = SubSeq(q, k + 1, Len(q))

LEMMA ContributedCut ==
    ASSUME NEW q \in Seq(JobRecord), NEW k \in 0..Len(q), NEW a, NEW b, Cut(q, k, a, b)
    PROVE  Contributed(q) = Contributed(a) + Contributed(b)
<1>0. Len(q) \in Nat /\ k \in Nat /\ k <= Len(q) BY LenProperties
<1>1. /\ a \in Seq(JobRecord) /\ Len(a) = k /\ \A i \in 1..k : a[i] = q[i]
      /\ b \in Seq(JobRecord) /\ Len(b) = Len(q) - k
      /\ \A i \in 1..(Len(q) - k) : b[i] = q[k + i]
  BY CutFacts DEF Cut
<1>2. PICK f \in [0..Len(q) -> Nat] : Adds(f, q) BY SumIsDefined
<1>3. PICK g \in [0..Len(a) -> Nat] : Adds(g, a) BY <1>1, SumIsDefined
<1>4. PICK h \in [0..Len(b) -> Nat] : Adds(h, b) BY <1>1, SumIsDefined
<1>5. f[k] = g[k]
  <2>1. k <= Len(a) /\ k <= Len(q) /\ k \in Nat BY <1>0, <1>1
  <2>2. a \in Seq(JobRecord) /\ \A i \in 1..k : a[i] = q[i] BY <1>1
  <2>. QED BY ONLY <1>2, <1>3, <2>1, <2>2, SumsBegin
<1>6. f[Len(q)] = f[k] + h[Len(q) - k]
  <2>. DEFINE n == Len(q) - k
  <2>1. n \in Nat /\ n <= Len(b) /\ k + n <= Len(q) /\ k + n = Len(q) BY <1>0, <1>1
  <2>2. \A i \in 1..n : b[i] = q[k + i] BY <1>1
  <2>. HIDE DEF n
  <2>3. f[k + n] = f[k] + h[n] BY ONLY <1>1, <1>2, <1>4, <2>1, <2>2, SumsAlike
  <2>. QED BY <2>1, <2>3 DEF n
<1>. QED BY <1>1, <1>2, <1>3, <1>4, <1>5, <1>6 DEF Adds

(* Whatever carries nothing adds nothing.                                     *)
LEMMA ContributedNone ==
    ASSUME NEW q \in Seq(JobRecord), \A i \in DOMAIN q : q[i].count = 0
    PROVE  Contributed(q) = 0
<1>0. Len(q) \in Nat /\ DOMAIN q = 1..Len(q) BY LenProperties
<1>1. PICK f \in [0..Len(q) -> Nat] : Adds(f, q) BY SumIsDefined
<1>. DEFINE T == {m \in 0..Len(q) : f[m] = 0}
<1>2. 0 \in T BY <1>0, <1>1 DEF Adds
<1>3. ASSUME NEW m \in 0..Len(q), m \in T, m < Len(q) PROVE m + 1 \in T
  <2>1. m + 1 \in 1..Len(q) /\ m + 1 \in 0..Len(q) /\ (m + 1) - 1 = m BY <1>0, <1>3
  <2>2. f[m + 1] = f[m] + q[m + 1].count /\ q[m + 1].count = 0 BY <1>0, <1>1, <2>1 DEF Adds
  <2>. QED BY <1>3, <2>1, <2>2
<1>4. Len(q) \in T
  <2>. HIDE DEF T
  <2>1. \A m \in 0..Len(q) : m \in T BY <1>0, <1>2, <1>3, Inductive
  <2>. QED BY <1>0, <2>1
<1>. QED BY <1>1, <1>4 DEF Adds

LEMMA ContributedEmpty == Contributed(<< >>) = 0
<1>1. << >> \in Seq(JobRecord) /\ DOMAIN << >> = {} BY EmptySeq
<1>. QED BY <1>1, ContributedNone

LEMMA ContributedAppend ==
    ASSUME NEW q \in Seq(JobRecord), NEW job \in JobRecord
    PROVE  Contributed(Append(q, job)) = Contributed(q) + job.count
<1>. DEFINE r == Append(q, job)
            n == Len(q)
<1>1. r \in Seq(JobRecord) /\ Len(r) = n + 1 /\ r[n + 1] = job /\ \A i \in 1..n : r[i] = q[i]
  BY AppendProperties
<1>2. n \in Nat BY LenProperties
<1>. HIDE DEF r
<1>3. PICK f \in [0..Len(r) -> Nat] : Adds(f, r) BY <1>1, SumIsDefined
<1>4. PICK g \in [0..Len(q) -> Nat] : Adds(g, q) BY SumIsDefined
<1>5. f[n] = g[n]
  <2>1. n <= Len(r) /\ n <= Len(q) BY <1>1, <1>2
  <2>. QED BY <1>1, <1>2, <1>3, <1>4, <2>1, SumsBegin
<1>6. f[n + 1] = f[n] + job.count
  <2>1. n + 1 \in 1..Len(r) /\ (n + 1) - 1 = n BY <1>1, <1>2
  <2>. QED BY <1>1, <1>3, <2>1 DEF Adds
<1>. QED BY <1>1, <1>3, <1>4, <1>5, <1>6 DEF Adds, r

-----------------------------------------------------------------------------
(* What the operations on the record do to the reservations.                  *)

Fields == {"state", "closing", "unavailable", "admitted", "settled", "first", "held",
           "published", "asked"}
Shaped(d) == DOMAIN d = Fields /\ d.admitted \in Nat /\ d.first \in Nat \cup {NoFailure}

(* The record becomes one with these reservations, no less failed.            *)
Becomes(d, e, held, published) ==
    /\ Shaped(d) /\ Shaped(e) /\ e.held = held /\ e.published = published
    /\ d.admitted <= e.admitted /\ (Failed(d) => Failed(e))
    /\ e.closing = d.closing /\ (e.state = "OPENING" <=> d.state = "OPENING")

LEMMA BoundedShape == ASSUME NEW d, Bounded(d) PROVE Shaped(d)
BY BoundedFacts DEF Bounded, DbRecord, Shaped, Fields

LEMMA BecomesOn ==
    ASSUME NEW d, NEW e, NEW f, NEW x, NEW y, NEW held, NEW published,
           Becomes(d, e, x, y), Becomes(e, f, held, published)
    PROVE  Becomes(d, f, held, published)
BY DEF Becomes, Shaped

LEMMA BecomesItself ==
    ASSUME NEW d, Shaped(d) PROVE Becomes(d, d, d.held, d.published)
BY DEF Becomes, Shaped

LEMMA SettleBecomes ==
    ASSUME NEW d, Shaped(d) PROVE Becomes(d, SettleBarriers(d), d.held, d.published)
BY DEF Becomes, Shaped, Fields, SettleBarriers, Failed

LEMMA FailureBecomes ==
    ASSUME NEW d, NEW n \in Nat, Shaped(d)
    PROVE  Becomes(d, Failure(d, n), d.held, d.published) /\ Failed(Failure(d, n))
<1>. DEFINE f == IF Failed(d) THEN Lesser(d.first, n) ELSE n
            s == IF d.closing \/ d.state = "OPENING" THEN d.state ELSE "DEGRADED"
            e == [d EXCEPT !.first = f, !.state = s]
<1>1. f \in Nat BY DEF Lesser, Failed, Shaped, NoFailure
<1>2. s = "OPENING" <=> d.state = "OPENING" OBVIOUS
<1>3. Failure(d, n) = SettleBarriers(e) BY DEF Failure
<1>. HIDE DEF f, s
<1>4. /\ DOMAIN e = Fields /\ e.first = f /\ e.state = s /\ e.held = d.held
      /\ e.published = d.published /\ e.closing = d.closing /\ e.admitted = d.admitted
  BY DEF Shaped, Fields
<1>. HIDE DEF e
<1>5. Failed(e) /\ Becomes(d, e, d.held, d.published)
  BY <1>1, <1>2, <1>4 DEF Shaped, Becomes, Failed, NoFailure
<1>6. Becomes(e, SettleBarriers(e), e.held, e.published) BY <1>5, SettleBecomes DEF Becomes
<1>. QED BY <1>3, <1>4, <1>5, <1>6, BecomesOn DEF Becomes

LEMMA GapsBecome ==
    ASSUME NEW d, NEW k \in Nat, Shaped(d)
    PROVE  Becomes(d, Gaps(d, k), d.held, d.published) /\ (k # 0 => Failed(Gaps(d, k)))
<1>1. CASE k = 0 BY <1>1, BecomesItself DEF Gaps
<1>2. CASE k # 0
  <2>. DEFINE e == [d EXCEPT !.admitted = @ + k]
  <2>1. Becomes(d, e, d.held, d.published) BY DEF Becomes, Shaped, Fields, Failed
  <2>2. d.admitted + 1 \in Nat BY DEF Shaped
  <2>3. Gaps(d, k) = Failure(e, d.admitted + 1) BY <1>2 DEF Gaps
  <2>. HIDE DEF e
  <2>4. /\ Becomes(e, Failure(e, d.admitted + 1), e.held, e.published)
        /\ Failed(Failure(e, d.admitted + 1))
    BY <2>1, <2>2, FailureBecomes DEF Becomes
  <2>5. e.held = d.held /\ e.published = d.published BY <2>1 DEF Becomes
  <2>. QED BY <2>1, <2>3, <2>4, <2>5, BecomesOn
<1>. QED BY <1>1, <1>2

LEMMA GapBecomes ==
    ASSUME NEW d, Shaped(d)
    PROVE  Becomes(d, RecordGap(d), d.held, d.published) /\ Failed(RecordGap(d))
<1>1. RecordGap(d) = Gaps(d, 1) BY DEF RecordGap, Gaps
<1>. QED BY <1>1, GapsBecome

LEMMA UnreservedBecomes ==
    ASSUME NEW d, Shaped(d)
    PROVE  Becomes(d, Unreserved(d), d.held, d.published) /\ Failed(Unreserved(d))
BY GapBecomes, FailureBecomes DEF Unreserved

LEMMA HoldBecomes ==
    ASSUME NEW d, NEW h, Shaped(d)
    PROVE  Becomes(d, Hold(d, h), d.held \cup {h}, d.published)
BY DEF Becomes, Shaped, Fields, Failed, Hold

LEMMA LetGoBecomes ==
    ASSUME NEW d, NEW gone, Shaped(d)
    PROVE  Becomes(d, [d EXCEPT !.held = @ \ gone], d.held \ gone, d.published)
BY DEF Becomes, Shaped, Fields, Failed

LEMMA DiscardBecomes ==
    ASSUME NEW d, NEW h, NEW gap \in BOOLEAN, Shaped(d)
    PROVE  /\ Becomes(d, Discard(d, h, gap), d.held \ {h}, d.published)
           /\ gap /\ h \in d.held => Failed(Discard(d, h, gap))
<1>. DEFINE e == IF gap THEN RecordGap(d) ELSE d
<1>1. Becomes(d, e, d.held, d.published) /\ (gap => Failed(e)) BY GapBecomes, BecomesItself
<1>2. Discard(d, h, gap) = IF h \in d.held THEN [e EXCEPT !.held = @ \ {h}] ELSE d
  BY DEF Discard
<1>. HIDE DEF e
<1>3. Becomes(e, [e EXCEPT !.held = @ \ {h}], e.held \ {h}, e.published)
  <2>1. ASSUME NEW gone PROVE Becomes(e, [e EXCEPT !.held = @ \ gone], e.held \ gone, e.published)
    BY <1>1, LetGoBecomes DEF Becomes
  <2>. QED BY <2>1
<1>4. CASE h \in d.held
  <2>1. Becomes(d, Discard(d, h, gap), d.held \ {h}, d.published)
    BY <1>1, <1>2, <1>3, <1>4, BecomesOn DEF Becomes
  <2>2. gap => Failed(Discard(d, h, gap)) BY <1>1, <1>2, <1>3, <1>4 DEF Becomes
  <2>. QED BY <2>1, <2>2
<1>5. CASE h \notin d.held
  <2>1. d.held \ {h} = d.held BY <1>5
  <2>. QED BY <1>2, <1>5, <2>1, BecomesItself
<1>. QED BY <1>4, <1>5

LEMMA PublishBecomes ==
    ASSUME NEW d, NEW h, Shaped(d)
    PROVE  /\ Becomes(d, Publish(d, h), d.held \ {h}, d.published \cup {d.admitted + 1})
           /\ Publish(d, h).admitted = d.admitted + 1
BY DEF Becomes, Shaped, Fields, Failed, Publish

LEMMA AskedBecomes ==
    ASSUME NEW d, NEW c, Shaped(d)
    PROVE  /\ Becomes(d, Asked(d, c), d.held, d.published)
           /\ Becomes(d, Barrier(d, c), d.held, d.published)
<1>1. Becomes(d, Asked(d, c), d.held, d.published)
  BY DEF Becomes, Shaped, Fields, Failed, Asked
<1>2. Barrier(d, c) = SettleBarriers(Asked(d, c)) BY DEF Barrier, Asked
<1>3. Becomes(Asked(d, c), SettleBarriers(Asked(d, c)), Asked(d, c).held, Asked(d, c).published)
  BY <1>1, SettleBecomes DEF Becomes
<1>. QED BY <1>1, <1>2, <1>3, BecomesOn DEF Becomes

LEMMA CloseBecomes ==
    ASSUME NEW d, Shaped(d)
    PROVE  /\ Shaped(BeginClose(d)) /\ BeginClose(d).held = d.held
           /\ BeginClose(d).published = d.published /\ BeginClose(d).closing
           /\ BeginClose(d).admitted = d.admitted /\ BeginClose(d).first = d.first
           /\ BeginClose(d).state = "OPENING" <=> d.state = "OPENING"
BY DEF Shaped, Fields, BeginClose

-----------------------------------------------------------------------------
(* How much of the capacity is taken.                                         *)

Room(d) == IsFiniteSet(d.held) /\ IsFiniteSet(d.published) /\ Items(d) <= PendingItems

LEMMA ItemsFacts ==
    ASSUME NEW d, IsFiniteSet(d.held), IsFiniteSet(d.published)
    PROVE  /\ Cardinality(d.held) \in Nat /\ Cardinality(d.published) \in Nat
           /\ Items(d) \in Nat /\ PendingItems \in Nat
BY FS_CardinalityType, LaneAssumption DEF Items

LEMMA HoldsNoMore ==
    ASSUME NEW d, NEW e, Room(d), e.held \subseteq d.held, e.published \subseteq d.published
    PROVE  Room(e) /\ Items(e) <= Items(d)
<1>1. /\ IsFiniteSet(e.held) /\ IsFiniteSet(e.published)
      /\ Cardinality(e.held) <= Cardinality(d.held)
      /\ Cardinality(e.published) <= Cardinality(d.published)
  BY FS_Subset DEF Room
<1>2. Items(e) <= Items(d) BY <1>1, ItemsFacts DEF Room, Items
<1>. QED BY <1>1, <1>2, ItemsFacts DEF Room

LEMMA HoldsOneMore ==
    ASSUME NEW d, NEW e, NEW h, Room(d), Items(d) < PendingItems,
           e.held = d.held \cup {h}, e.published = d.published
    PROVE  Room(e) /\ Items(e) <= Items(d) + 1
<1>1. /\ IsFiniteSet(e.held) /\ IsFiniteSet(e.published)
      /\ Cardinality(e.held) <= Cardinality(d.held) + 1
  <2>1. /\ IsFiniteSet(e.held)
        /\ Cardinality(e.held) = IF h \in d.held THEN Cardinality(d.held) ELSE Cardinality(d.held) + 1
    BY FS_AddElement DEF Room
  <2>. QED BY <2>1, ItemsFacts DEF Room
<1>2. /\ Cardinality(d.held) \in Nat /\ Cardinality(d.published) \in Nat
      /\ Cardinality(e.held) \in Nat /\ Cardinality(e.published) = Cardinality(d.published)
      /\ PendingItems \in Nat
  BY <1>1, ItemsFacts DEF Room
<1>3. Items(e) <= Items(d) + 1 BY <1>1, <1>2 DEF Items
<1>4. Items(d) \in Nat /\ Items(e) \in Nat BY <1>2 DEF Items
<1>. QED BY <1>1, <1>2, <1>3, <1>4 DEF Room

LEMMA PublishesInPlace ==
    ASSUME NEW d, NEW e, NEW h, NEW n, Room(d), h \in d.held,
           e.held = d.held \ {h}, e.published = d.published \cup {n}
    PROVE  Room(e) /\ Items(e) <= Items(d)
<1>1. IsFiniteSet(e.held) /\ Cardinality(e.held) = Cardinality(d.held) - 1
  BY FS_RemoveElement DEF Room
<1>2. /\ IsFiniteSet(e.published)
      /\ Cardinality(e.published) <= Cardinality(d.published) + 1
  <2>1. /\ IsFiniteSet(e.published)
        /\ Cardinality(e.published) =
              IF n \in d.published THEN Cardinality(d.published) ELSE Cardinality(d.published) + 1
    <3>1. ASSUME NEW S, IsFiniteSet(S)
          PROVE  /\ IsFiniteSet(S \cup {n})
                 /\ Cardinality(S \cup {n}) = IF n \in S THEN Cardinality(S) ELSE Cardinality(S) + 1
      BY <3>1, FS_AddElement
    <3>. QED BY <3>1 DEF Room
  <2>. QED BY <2>1, ItemsFacts DEF Room
<1>3. /\ Cardinality(d.held) \in Nat /\ Cardinality(d.published) \in Nat
      /\ Cardinality(e.held) \in Nat /\ Cardinality(e.published) \in Nat /\ PendingItems \in Nat
  BY <1>1, <1>2, ItemsFacts, FS_CardinalityType DEF Room
<1>4. Items(e) <= Items(d) BY <1>1, <1>2, <1>3 DEF Items
<1>5. Items(d) \in Nat /\ Items(e) \in Nat BY <1>3 DEF Items
<1>. QED BY <1>1, <1>2, <1>3, <1>4, <1>5 DEF Room

LEMMA NothingHeld ==
    ASSUME NEW d, Room(d), Items(d) = 0 PROVE d.held = {} /\ d.published = {}
<1>1. Cardinality(d.held) = 0 /\ Cardinality(d.published) = 0 BY ItemsFacts DEF Room, Items
<1>. QED BY <1>1, FS_EmptySet DEF Room

-----------------------------------------------------------------------------
(* What flows through the queue, the lane's batch and the store.              *)

(* Which publication is whose: in the queue, in the lane's batch, in the log. *)
TagOf(job) == <<job.of, job.number>>
QueueTags(q) == {TagOf(q[i]) : i \in {j \in DOMAIN q : Published(q[j])}}
BatchTags(taken) == {TagOf(taken[i]) : i \in DOMAIN taken}
Tags(q, l, s) == QueueTags(q) \cup BatchTags(l.jobs) \cup BatchTags(s.log)

(* A context that was handed over has one number of its own; the others have  *)
(* none.  The log is in the order of the numbers.                             *)
OneNumber(handed, admitted, tags) ==
    \A c \in Context :
        /\ c \notin handed => \A t \in tags : t[1] # c
        /\ c \in handed => \E n \in 1..admitted : \A t \in tags : t[1] = c <=> t[2] = n
Handed == {c \in Context : capture[c] = "HANDED"}
Ordered(log) == \A i \in DOMAIN log : i > 1 => log[i].number > log[i - 1].number

(* No contribution is lost on its way: it is acknowledged, told to be lost,   *)
(* still pending, or carried by a delta in the queue or in the lane's batch.  *)
LearnRecord == [made : Int, pending : Nat, acknowledged : Int, lost : Int]
Carried(q, l) ==
    Contributed(q) + IF l.pc \in {"BATCH", "WRITE", "RELEASE", "ACKNOWLEDGE"}
                     THEN Contributed(l.jobs) ELSE 0
DeltasCount(q) == \A i \in DOMAIN q : q[i].type # "DELTA" => q[i].count = 0
Balanced(a, q, l) ==
    /\ a \in LearnRecord /\ DeltasCount(q) /\ DeltasCount(l.jobs)
    /\ a.made = a.acknowledged + a.lost + a.pending + Carried(q, l)

(* A loss is told, and so is whatever leaves a batch before it is written.    *)
LossTold(a, l, failed) ==
    /\ failed \/ a.lost = 0
    /\ l.pc \in {"WRITE", "RELEASE", "ACKNOWLEDGE"} => l.ready = l.jobs \/ failed
    /\ l.pc = "ACKNOWLEDGE" /\ l.failed => failed

(* Every publication that counts against the capacity is on its way, and what *)
(* is on its way keeps its name and what it carries.                          *)
Flows(d, q, l, s, a, handed) ==
    /\ d.published = Flying(q, l)
    /\ OneNumber(handed, d.admitted, Tags(q, l, s)) /\ Ordered(s.log)
    /\ l.pc = "WRITE" => BatchTags(l.ready) \subseteq BatchTags(l.jobs)
    /\ Balanced(a, q, l) /\ LossTold(a, l, Failed(d))

LEMMA OneNumberOn ==
    ASSUME NEW handed, NEW m \in Nat, NEW n \in Nat, m <= n, NEW x, NEW y, y \subseteq x,
           OneNumber(handed, m, x)
    PROVE  OneNumber(handed, n, y)
<1>1. 1..m \subseteq 1..n OBVIOUS
<1>. QED BY <1>1 DEF OneNumber

LEMMA FlowsOn ==
    ASSUME NEW d, NEW e, NEW q, NEW l, NEW s, NEW a, NEW handed, NEW held,
           Flows(d, q, l, s, a, handed), Becomes(d, e, held, d.published)
    PROVE  Flows(e, q, l, s, a, handed)
<1>1. d.admitted \in Nat /\ e.admitted \in Nat /\ d.admitted <= e.admitted
  BY DEF Becomes, Shaped
<1>2. OneNumber(handed, e.admitted, Tags(q, l, s)) BY <1>1, OneNumberOn DEF Flows
<1>3. e.published = d.published /\ (Failed(d) => Failed(e)) BY DEF Becomes
<1>4. LossTold(a, l, Failed(e)) BY <1>3 DEF Flows, LossTold
<1>. QED BY <1>2, <1>3, <1>4 DEF Flows

(* What a contribution, or the loss of some, does to the balance.             *)
LEMMA FlowsLearns ==
    ASSUME NEW d, NEW q, NEW l, NEW s, NEW a, NEW b, NEW handed,
           Flows(d, q, l, s, a, handed), b \in LearnRecord, Failed(d) \/ b.lost = a.lost,
           b.made - b.acknowledged - b.lost - b.pending =
               a.made - a.acknowledged - a.lost - a.pending,
           q \in Seq(JobRecord), l.jobs \in Seq(JobRecord)
    PROVE  Flows(d, q, l, s, b, handed)
<1>1. Carried(q, l) \in Nat BY ContributedIsNat DEF Carried
<1>. DEFINE carried == Carried(q, l)
<1>2. a.made = a.acknowledged + a.lost + a.pending + carried /\ a \in LearnRecord
  BY DEF Flows, Balanced
<1>. HIDE DEF carried
<1>3. b.made = b.acknowledged + b.lost + b.pending + carried
  <2>1. /\ b.made \in Int /\ b.acknowledged \in Int /\ b.lost \in Int /\ b.pending \in Int
        /\ a.made \in Int /\ a.acknowledged \in Int /\ a.lost \in Int /\ a.pending \in Int
    BY <1>2 DEF LearnRecord
  <2>2. carried \in Int BY <1>1 DEF carried
  <2>3. b.made - b.acknowledged - b.lost - b.pending =
            a.made - a.acknowledged - a.lost - a.pending
    OBVIOUS
  <2>. QED BY ONLY <1>2, <2>1, <2>2, <2>3
<1>4. Balanced(b, q, l) BY <1>3 DEF carried, Flows, Balanced
<1>5. LossTold(b, l, Failed(d)) BY DEF Flows, LossTold
<1>. QED BY <1>4, <1>5 DEF Flows

LEMMA TagFacts ==
    ASSUME NEW d, NEW q, NEW l, NEW s, Good(d, q, l, s)
    PROVE  /\ \A t \in Tags(q, l, s) : t[2] \in 1..d.admitted
           /\ d.admitted \in Nat /\ q \in Seq(JobRecord) /\ l.jobs \in Seq(JobRecord)
           /\ l.ready \in Seq(JobRecord) /\ s.log \in Seq(LogRecord)
<1>1. QueueOk(q, d) /\ LaneOk(l, s, d) /\ d.admitted \in Nat BY BoundedFacts DEF Good, Sound
<1>2. q \in Seq(JobRecord) /\ l.jobs \in Seq(JobRecord) /\ s.log \in Seq(LogRecord)
      /\ l.ready \in Seq(JobRecord)
  BY <1>1 DEF QueueOk, LaneOk, LaneRecord
<1>3. \A i \in DOMAIN q : Published(q[i]) => q[i].number \in 1..d.admitted
  BY <1>1 DEF QueueOk
<1>4. \A i \in DOMAIN l.jobs : l.jobs[i].number \in 1..d.admitted
  <2>1. Numbers(l.jobs) \subseteq 1..d.admitted BY <1>1 DEF LaneOk
  <2>. QED BY <1>2, <2>1, NumbersFacts
<1>5. \A i \in DOMAIN s.log : s.log[i].number \in 1..d.admitted
  <2>1. Stored(s) \subseteq 1..d.admitted BY <1>1 DEF LaneOk
  <2>. QED BY <2>1 DEF Stored
<1>. QED BY <1>1, <1>2, <1>3, <1>4, <1>5 DEF Tags, QueueTags, BatchTags, TagOf

(* What is appended to the queue.                                             *)
LEMMA QueueGrows ==
    ASSUME NEW q \in Seq(JobRecord), NEW job \in JobRecord, NEW r, r = Append(q, job)
    PROVE  /\ r \in Seq(JobRecord) /\ Contributed(r) = Contributed(q) + job.count
           /\ Pending(r) = Pending(q) \cup (IF Published(job) THEN {job.number} ELSE {})
           /\ QueueTags(r) = QueueTags(q) \cup (IF Published(job) THEN {TagOf(job)} ELSE {})
           /\ DeltasCount(q) /\ (job.type # "DELTA" => job.count = 0) => DeltasCount(r)
<1>1. /\ r \in Seq(JobRecord)
      /\ \A i \in DOMAIN q : i \in DOMAIN r /\ r[i] = q[i]
      /\ Len(q) + 1 \in DOMAIN r /\ r[Len(q) + 1] = job
      /\ \A i \in DOMAIN r : i \in DOMAIN q \/ i = Len(q) + 1
  BY AppendFacts
<1>2. Contributed(r) = Contributed(q) + job.count BY ContributedAppend
<1>3. Pending(r) = Pending(q) \cup (IF Published(job) THEN {job.number} ELSE {})
  <2>1. \A n \in Pending(r) : n \in Pending(q) \/ (Published(job) /\ n = job.number)
    BY <1>1 DEF Pending
  <2>2. Pending(q) \subseteq Pending(r) BY <1>1 DEF Pending
  <2>3. Published(job) => job.number \in Pending(r) BY <1>1 DEF Pending
  <2>. QED BY <2>1, <2>2, <2>3
<1>4. QueueTags(r) = QueueTags(q) \cup (IF Published(job) THEN {TagOf(job)} ELSE {})
  <2>1. \A t \in QueueTags(r) : t \in QueueTags(q) \/ (Published(job) /\ t = TagOf(job))
    BY <1>1 DEF QueueTags
  <2>2. QueueTags(q) \subseteq QueueTags(r) BY <1>1 DEF QueueTags
  <2>3. Published(job) => TagOf(job) \in QueueTags(r) BY <1>1 DEF QueueTags
  <2>. QED BY <2>1, <2>2, <2>3
<1>5. DeltasCount(q) /\ (job.type # "DELTA" => job.count = 0) => DeltasCount(r)
  BY <1>1 DEF DeltasCount
<1>. QED BY <1>1, <1>2, <1>3, <1>4, <1>5

LEMMA NumberGiven ==
    ASSUME NEW handed, NEW m \in Nat, NEW k \in Nat, m + 1 <= k, NEW x, NEW o,
           OneNumber(handed, m, x), \A t \in x : t[2] \in 1..m, NEW after,
           \/ o \notin Context /\ after = handed
           \/ o \in Context /\ o \notin handed /\ after = handed \cup {o}
    PROVE  OneNumber(after, k, x \cup {<<o, m + 1>>})
<1>. DEFINE n == m + 1
            y == x \cup {<<o, n>>}
<1>1. n \in 1..k /\ n \notin 1..m /\ 1..m \subseteq 1..k OBVIOUS
<1>2. <<o, n>>[1] = o /\ <<o, n>>[2] = n OBVIOUS
<1>. HIDE DEF n
<1>3. ASSUME NEW c \in Context, c \notin after, NEW t \in y PROVE t[1] # c
  BY <1>2, <1>3 DEF OneNumber
<1>4. ASSUME NEW c \in Context, c \in after
      PROVE  \E j \in 1..k : \A t \in y : t[1] = c <=> t[2] = j
  <2>1. CASE c \in handed
    <3>1. PICK j \in 1..m : \A t \in x : t[1] = c <=> t[2] = j BY <2>1 DEF OneNumber
    <3>2. o # c /\ n # j BY <1>1, <2>1
    <3>3. \A t \in y : t[1] = c <=> t[2] = j BY <1>2, <3>1, <3>2
    <3>. QED BY <1>1, <3>1, <3>3
  <2>2. CASE c \notin handed
    <3>1. c = o BY <1>4, <2>2
    <3>2. \A t \in x : t[1] # c /\ t[2] # n BY <1>1, <2>2 DEF OneNumber
    <3>3. \A t \in y : t[1] = c <=> t[2] = n BY <1>2, <3>1, <3>2
    <3>. QED BY <1>1, <3>3
  <2>. QED BY <2>1, <2>2
<1>5. OneNumber(after, k, y) BY <1>3, <1>4 DEF OneNumber
<1>. QED BY <1>5 DEF n

(* A publication, of somebody who is not a context or of one that was not     *)
(* handed over before.                                                        *)
LEMMA FlowsPublishes ==
    ASSUME NEW d, NEW e, NEW q, NEW l, NEW s, NEW a, NEW b, NEW handed, NEW after, NEW held,
           NEW t \in {"SESSION", "DELTA", "CONTEXT"}, NEW o \in Anyone, NEW k \in Nat,
           t # "DELTA" => k = 0, Good(d, q, l, s), Flows(d, q, l, s, a, handed),
           Becomes(d, e, held, d.published \cup {d.admitted + 1}), d.admitted + 1 <= e.admitted,
           \/ o \notin Context /\ after = handed
           \/ o \in Context /\ o \notin handed /\ after = handed \cup {o},
           b \in LearnRecord, b.pending = a.pending - k, b.made = a.made, b.lost = a.lost,
           b.acknowledged = a.acknowledged
    PROVE  Flows(e, Append(q, Job(t, o, d.admitted + 1, k)), l, s, b, after)
<1>. DEFINE n == d.admitted + 1
            job == Job(t, o, n, k)
            r == Append(q, job)
<1>1. d.admitted \in Nat /\ n \in Nat /\ e.admitted \in Nat BY DEF Becomes, Shaped
<1>2. job \in JobRecord /\ Published(job) /\ TagOf(job) = <<o, n>> /\ job.number = n
      /\ job.count = k /\ job.type = t
  BY <1>1 DEF Job, JobRecord, Published, TagOf
<1>3. q \in Seq(JobRecord) /\ l.jobs \in Seq(JobRecord) BY TagFacts
<1>. HIDE DEF job
<1>4. /\ Contributed(r) = Contributed(q) + k /\ Pending(r) = Pending(q) \cup {n}
      /\ QueueTags(r) = QueueTags(q) \cup {<<o, n>>} /\ DeltasCount(r)
  BY <1>2, <1>3, QueueGrows DEF Flows, Balanced
<1>. HIDE DEF r
<1>5. e.published = Flying(r, l) BY <1>4 DEF Flows, Flying, Becomes
<1>6. OneNumber(after, e.admitted, Tags(r, l, s))
  <2>1. Tags(r, l, s) = Tags(q, l, s) \cup {<<o, d.admitted + 1>>} BY <1>4 DEF Tags
  <2>2. OneNumber(after, e.admitted, Tags(q, l, s) \cup {<<o, d.admitted + 1>>})
    BY <1>1, TagFacts, NumberGiven DEF Flows
  <2>. QED BY <2>1, <2>2
<1>7. Balanced(b, r, l)
  <2>. DEFINE carried == Carried(q, l)
  <2>1. carried \in Nat BY <1>3, ContributedIsNat DEF Carried
  <2>2. Carried(r, l) = carried + k BY <1>3, <1>4, ContributedIsNat DEF Carried
  <2>3. a.made = a.acknowledged + a.lost + a.pending + carried /\ a \in LearnRecord
    BY DEF Flows, Balanced
  <2>. HIDE DEF carried
  <2>4. b.made = b.acknowledged + b.lost + b.pending + (carried + k)
    BY <2>1, <2>3 DEF LearnRecord
  <2>. QED BY <1>4, <2>2, <2>4 DEF Flows, Balanced
<1>8. LossTold(b, l, Failed(e)) BY DEF Flows, LossTold, Becomes
<1>9. Flows(e, r, l, s, b, after) BY <1>5, <1>6, <1>7, <1>8 DEF Flows
<1>. QED BY <1>9 DEF r, job

(* A read carries nothing.                                                    *)
LEMMA FlowsReads ==
    ASSUME NEW d, NEW e, NEW q, NEW l, NEW s, NEW a, NEW handed, NEW held, NEW o \in Anyone,
           Good(d, q, l, s), Flows(d, q, l, s, a, handed), Becomes(d, e, held, d.published)
    PROVE  Flows(e, Append(q, Job("READ", o, 0, 0)), l, s, a, handed)
<1>. DEFINE job == Job("READ", o, 0, 0)
            r == Append(q, job)
<1>1. job \in JobRecord /\ ~ Published(job) /\ job.count = 0
  BY DEF Job, JobRecord, Published
<1>2. q \in Seq(JobRecord) BY TagFacts
<1>. HIDE DEF job
<1>3. /\ Contributed(r) = Contributed(q) + 0 /\ Pending(r) = Pending(q)
      /\ QueueTags(r) = QueueTags(q) /\ DeltasCount(r)
  BY <1>1, <1>2, QueueGrows DEF Flows, Balanced
<1>4. Contributed(r) = Contributed(q) BY <1>2, <1>3, ContributedIsNat
<1>. HIDE DEF r
<1>5. Flows(d, r, l, s, a, handed)
  BY <1>3, <1>4 DEF Flows, Flying, Tags, Balanced, Carried
<1>6. Flows(e, r, l, s, a, handed) BY <1>5, FlowsOn
<1>. QED BY <1>6 DEF r, job

(* The accumulator leaves: as a publication, or as a loss that is told.       *)
Drained(d, q, l, s, a, handed, D) ==
    /\ Flows(D.db, D.queue, l, s, D.learning, handed)
    /\ D.learning.pending = 0
    /\ Shaped(D.db)
    /\ D.db.held = IF a.pending = 0 THEN d.held ELSE d.held \ {"delta"}
    /\ D.db.closing = d.closing /\ (D.db.state = "OPENING" <=> d.state = "OPENING")
    /\ a.pending = 0 => D.queue = q /\ D.db = d /\ D.learning = a
    /\ Failed(d) => Failed(D.db)
    /\ Room(d) /\ (a.pending > 0 => "delta" \in d.held) => Room(D.db)

LEMMA FlowsDrains ==
    ASSUME NEW d, NEW q, NEW l, NEW s, NEW a, NEW handed, NEW D, D = Drain(d, q, a),
           Good(d, q, l, s), Flows(d, q, l, s, a, handed)
    PROVE  Drained(d, q, l, s, a, handed, D)
<1>1. a \in LearnRecord /\ a.pending \in Nat BY DEF Flows, Balanced, LearnRecord
<1>2. Shaped(d) /\ q \in Seq(JobRecord) /\ l.jobs \in Seq(JobRecord)
  BY TagFacts, BoundedShape DEF Good, Sound
<1>3. CASE a.pending = 0
  <2>1. D = [db |-> d, queue |-> q, learning |-> a] BY <1>3 DEF Drain
  <2>. QED BY <1>2, <1>3, <2>1 DEF Drained
<1>4. CASE a.pending > 0 /\ (d.unavailable \/ d.closing)
  <2>. DEFINE f == Discard(d, "delta", FALSE)
              e == RecordGap(f)
              b == [a EXCEPT !.pending = 0, !.lost = @ + a.pending]
  <2>1. D = [db |-> e, queue |-> q, learning |-> b] BY <1>1, <1>4 DEF Drain
  <2>2. Becomes(d, f, d.held \ {"delta"}, d.published)
    <3>1. FALSE \in BOOLEAN OBVIOUS
    <3>. QED BY <1>2, <3>1, DiscardBecomes
  <2>. HIDE DEF f
  <2>3. Becomes(f, e, f.held, f.published) /\ Failed(e)
    BY <2>2, GapBecomes DEF Becomes
  <2>. HIDE DEF e
  <2>4. Becomes(d, e, d.held \ {"delta"}, d.published)
    BY <2>2, <2>3, BecomesOn DEF Becomes
  <2>5. b \in LearnRecord /\ b.pending = 0 /\ b.lost = a.lost + a.pending /\ b.made = a.made
        /\ b.acknowledged = a.acknowledged
    <3>. DEFINE x == a.lost + a.pending
    <3>1. x \in Int BY <1>1 DEF LearnRecord
    <3>2. b = [a EXCEPT !.pending = 0, !.lost = x] OBVIOUS
    <3>3. a \in LearnRecord BY <1>1
    <3>. HIDE DEF x, b
    <3>4. b \in LearnRecord /\ b.pending = 0 /\ b.lost = x /\ b.made = a.made
          /\ b.acknowledged = a.acknowledged
      BY ONLY <3>1, <3>2, <3>3 DEF LearnRecord
    <3>. QED BY <3>4 DEF x
  <2>. HIDE DEF b
  <2>6. Flows(e, q, l, s, a, handed) BY <2>4, FlowsOn
  <2>7. Flows(e, q, l, s, b, handed)
    <3>1. b.made - b.acknowledged - b.lost - b.pending =
               a.made - a.acknowledged - a.lost - a.pending
      BY <1>1, <2>5 DEF LearnRecord
    <3>. QED BY <1>2, <2>3, <2>5, <2>6, <3>1, FlowsLearns
  <2>8. Room(d) => Room(e)
    <3>1. e.held \subseteq d.held /\ e.published \subseteq d.published BY <2>4 DEF Becomes
    <3>. QED BY <3>1, HoldsNoMore
  <2>9. a.pending # 0 BY <1>4
  <2>. QED BY <2>1, <2>4, <2>5, <2>7, <2>8, <2>9 DEF Becomes, Drained
<1>5. CASE a.pending > 0 /\ ~ (d.unavailable \/ d.closing)
  <2>. DEFINE e == Publish(d, "delta")
              b == [a EXCEPT !.pending = 0]
              r == Append(q, Job("DELTA", "delta", d.admitted + 1, a.pending))
  <2>1. D = [db |-> e, queue |-> r, learning |-> b] BY <1>1, <1>5 DEF Drain
  <2>2. /\ Becomes(d, e, d.held \ {"delta"}, d.published \cup {d.admitted + 1})
        /\ e.admitted = d.admitted + 1
    BY <1>2, PublishBecomes
  <2>. HIDE DEF e
  <2>3. b \in LearnRecord /\ b.pending = 0 /\ b.lost = a.lost /\ b.made = a.made
        /\ b.acknowledged = a.acknowledged /\ a.pending - a.pending = 0
    BY <1>1 DEF LearnRecord
  <2>. HIDE DEF b
  <2>4. "delta" \in Anyone /\ "delta" \notin Context /\ d.admitted + 1 <= e.admitted
    BY <1>2, <2>2, LaneAssumption DEF Anyone, Shaped
  <2>5. Flows(e, r, l, s, b, handed)
    BY <1>1, <2>2, <2>3, <2>4, FlowsPublishes
  <2>6. Room(d) /\ "delta" \in d.held => Room(e)
    <3>1. e.held = d.held \ {"delta"} /\ e.published = d.published \cup {d.admitted + 1}
      BY <2>2 DEF Becomes
    <3>. QED BY <3>1, PublishesInPlace
  <2>7. a.pending # 0 BY <1>5
  <2>. QED BY <1>5, <2>1, <2>2, <2>3, <2>5, <2>6, <2>7 DEF Becomes, Drained
<1>. QED BY <1>1, <1>3, <1>4, <1>5

-----------------------------------------------------------------------------
(* What the phases, the holders and what is missing have to do with it.       *)

CaptureStatus == {"NEW", "CAPTURING", "READY", "CLAIMED", "HANDED", "OMITTED", "UNRECORDED",
                  "REFUSED", "LOST"}
Untaken == {"OMITTED", "UNRECORDED", "LOST"}
Settings == strict \in BOOLEAN /\ faults \in 0..MaxFaults

(* Only an opened Database is worked with, nobody but the recorder's end and  *)
(* a rejected opening closes it, and a lane that ended leaves nothing behind. *)
PhasesAgree ==
    /\ lane.pc = "OPENING" <=> lane.opened = "NO"
    /\ recorder.pc \in {"STARTING", "LOADING", "OPEN", "DRAINING"} => lane.opened = "OK"
    /\ recorder.pc = "GIVING_UP" => recorder.gave_up
    /\ db.closing => recorder.pc \in {"ENDING", "CLOSED"} \/ lane.opened = "REJECTED"
    /\ lane.pc # "ENDED" => (db.state = "OPENING" <=> lane.opened # "OK")
    /\ lane.opened # "OK" =>
          learning.pending = 0 /\ \A c \in Context : capture[c] = "NEW"
    /\ lane.pc = "ENDED" => db.closing /\ db.held = {} /\ queue = << >>

(* Who holds which reservation, and that there are not too many of them.      *)
HoldersKnown ==
    /\ capture \in [Context -> CaptureStatus] /\ Room(db)
    /\ db.held \subseteq Context \cup {"session", "layout", "delta"}
    /\ \A c \in Context : c \in db.held <=> InHand(c)
    /\ "delta" \in db.held <=> learning.pending > 0
    /\ recorder.pc \in Late /\ ~ recorder.gave_up => db.held \subseteq {"session"}

(* What is missing is told to be missing.                                     *)
MissingTold == \A c \in Context : capture[c] \in Untaken => Failed(db)

Flowing == Flows(db, queue, lane, store, learning, Handed)
Accounted == Settings /\ PhasesAgree /\ HoldersKnown /\ MissingTold /\ Flowing
Keeps == (PhasesAgree /\ HoldersKnown /\ MissingTold /\ Flowing)'

LEMMA Strings ==
    /\ \A c \in Context : c \notin {"session", "startup", "layout", "delta"}
    /\ "delta" # "session" /\ "delta" # "layout" /\ "session" # "layout"
    /\ "delta" # "startup" /\ "startup" # "session"
BY LaneAssumption

LEMMA SettingsKept == ASSUME Settings, [Next]_vars PROVE Settings'
<1>1. MaxFaults \in Nat BY LaneAssumption
<1>2. ASSUME UNCHANGED strict, Fault \/ UNCHANGED faults PROVE Settings'
  BY <1>1, <1>2 DEF Settings, Fault
<1>3. CASE LaneStep
  BY <1>2, <1>3 DEF LaneStep, LaneOpen, LaneFailsToOpen, TakeRead, TakeBatch, Prepare, AttemptStored,
     AttemptUncertain, AttemptRejected, ReleaseBatch, Acknowledge, Settle, End, NoFault
<1>4. CASE RecorderStep
  BY <1>2, <1>4 DEF RecorderStep, RecorderOpens, SessionRecorded, AskProfiles, ProfilesLoaded,
     DrainRecorder, GiveUp, RecordShutdown, RecorderEnds, TimeIsUp, NoFault
<1>5. CASE Checkpoint \/ MaintenanceFails \/ RecorderTimesOut \/ CloseRecorder \/ StopWaiting
  BY <1>2, <1>5 DEF Checkpoint, MaintenanceFails, RecorderTimesOut, CloseRecorder, StopWaiting,
     TimeIsUp, NoFault
<1>6. ASSUME NEW c \in Context,
             BeginPrepare(c) \/ FinishPrepare(c) \/ Claim(c) \/ Abandon(c) \/ Finalize(c)
      PROVE  Settings'
  BY <1>2, <1>6 DEF BeginPrepare, FinishPrepare, Claim, Abandon, Finalize, NoFault
<1>7. ASSUME NEW f \in Flusher, Flush(f) PROVE Settings' BY <1>2, <1>7 DEF Flush
<1>8. ASSUME NEW r \in Reader, Request(r) PROVE Settings' BY <1>2, <1>8 DEF Request
<1>9. CASE UNCHANGED vars BY <1>2, <1>9 DEF vars
<1>. QED BY <1>3, <1>4, <1>5, <1>6, <1>7, <1>8, <1>9 DEF Next, Done

(* The recorder goes on as it may.                                            *)
WayOn ==
    /\ recorder'.pc \in {"STARTING", "LOADING", "OPEN", "DRAINING"} => lane.opened = "OK"
    /\ recorder'.pc = "GIVING_UP" => recorder'.gave_up
    /\ recorder.pc \in {"ENDING", "CLOSED"} => recorder'.pc \in {"ENDING", "CLOSED"}

LEMMA StaysOn == ASSUME Accounted, UNCHANGED recorder PROVE WayOn
BY DEF Accounted, PhasesAgree, WayOn

(* With a recorder at work the Database is open.                              *)
LEMMA WhileOpen ==
    ASSUME Accounted, recorder.pc \in {"STARTING", "LOADING", "OPEN", "DRAINING"}
    PROVE  /\ lane.opened = "OK" /\ ~ db.closing /\ lane.pc \notin {"OPENING", "ENDED"}
           /\ db.state # "OPENING"
BY DEF Accounted, PhasesAgree

(* A step beside the lane, in which the captures go from one to another: what *)
(* the record has become, what flows, and who holds what, are given.          *)
Holding(d, a) ==
    /\ Room(d) /\ d.held \subseteq Context \cup {"session", "layout", "delta"}
    /\ "delta" \in d.held <=> a.pending > 0

LEMMA Aside ==
    ASSUME Accounted, UNCHANGED <<lane, store>>, Flowing', WayOn,
           db'.state = "OPENING" <=> db.state = "OPENING", db.closing => db'.closing,
           db'.closing => db.closing \/ recorder'.pc \in {"ENDING", "CLOSED"},
           lane.opened # "OK" => learning'.pending = 0 /\ \A c \in Context : capture'[c] = "NEW",
           lane.pc = "ENDED" => db'.held \subseteq db.held /\ queue' = queue,
           capture' \in [Context -> CaptureStatus], Holding(db', learning'),
           \A c \in Context : c \in db'.held <=> InHand(c)',
           recorder'.pc \in Late /\ ~ recorder'.gave_up => db'.held \subseteq {"session"},
           MissingTold'
    PROVE  Keeps
<1>1. PhasesAgree' BY DEF Accounted, PhasesAgree, WayOn
<1>2. HoldersKnown' BY DEF Accounted, HoldersKnown, Holding
<1>. QED BY <1>1, <1>2 DEF Keeps

(* The captures stay as they are.                                             *)
LEMMA Untouched ==
    ASSUME Accounted, UNCHANGED <<lane, store, capture>>,
           Flows(db', queue', lane, store, learning', Handed), WayOn,
           Failed(db) => Failed(db'),
           db'.state = "OPENING" <=> db.state = "OPENING", db.closing => db'.closing,
           db'.closing => db.closing \/ recorder'.pc \in {"ENDING", "CLOSED"},
           lane.opened # "OK" => learning'.pending = 0,
           lane.pc = "ENDED" => db'.held \subseteq db.held /\ queue' = queue,
           Holding(db', learning'), \A c \in Context : c \in db'.held <=> c \in db.held,
           recorder'.pc \in Late /\ ~ recorder'.gave_up => db'.held \subseteq {"session"}
    PROVE  Keeps
<1>1. capture \in [Context -> CaptureStatus] /\ \A c \in Context : c \in db.held <=> InHand(c)
  BY DEF Accounted, HoldersKnown
<1>2. \A c \in Context : InHand(c)' <=> InHand(c) BY DEF InHand
<1>3. MissingTold' BY DEF Accounted, MissingTold
<1>4. Flowing'
  <2>1. Handed' = Handed BY DEF Handed
  <2>. QED BY <2>1 DEF Flowing
<1>5. lane.opened # "OK" => \A c \in Context : capture'[c] = "NEW" BY DEF Accounted, PhasesAgree
<1>. QED BY <1>1, <1>2, <1>3, <1>4, <1>5, Aside

(* A step of the lane between its opening and its end.                        *)
LEMMA Turns ==
    ASSUME Accounted, UNCHANGED <<capture, recorder>>,
           lane.pc \notin {"OPENING", "ENDED"}, lane'.pc \notin {"OPENING", "ENDED"},
           lane'.opened = lane.opened, learning'.pending = learning.pending,
           db'.held = db.held, db'.published \subseteq db.published,
           Failed(db) => Failed(db'),
           db'.state = "OPENING" <=> db.state = "OPENING", db'.closing = db.closing,
           Flows(db', queue', lane', store', learning', Handed)
    PROVE  Keeps
<1>1. PhasesAgree' BY DEF Accounted, PhasesAgree
<1>2. HoldersKnown'
  <2>1. Room(db')
    <3>1. Room(db) BY DEF Accounted, HoldersKnown
    <3>. DEFINE e == db'
    <3>2. e.held \subseteq db.held /\ e.published \subseteq db.published OBVIOUS
    <3>. HIDE DEF e
    <3>3. Room(e) BY <3>1, <3>2, HoldsNoMore
    <3>. QED BY <3>3 DEF e
  <2>. QED BY <2>1 DEF Accounted, HoldersKnown, InHand
<1>3. MissingTold' BY DEF Accounted, MissingTold
<1>4. Flowing'
  <2>1. Handed' = Handed BY DEF Handed
  <2>. QED BY <2>1 DEF Flowing
<1>. QED BY <1>1, <1>2, <1>3, <1>4 DEF Keeps

-----------------------------------------------------------------------------
(* The lane's steps.                                                          *)

LEMMA NowFlows ==
    ASSUME HistoryInv, Accounted
    PROVE  /\ Good(db, queue, lane, store) /\ Flows(db, queue, lane, store, learning, Handed)
           /\ Shaped(db) /\ Bounded(db) /\ queue \in Seq(JobRecord) /\ lane \in LaneRecord
           /\ lane.jobs \in Seq(JobRecord) /\ lane.ready \in Seq(JobRecord)
           /\ store.log \in Seq(LogRecord) /\ db.admitted \in Nat
           /\ LaneOk(lane, store, db) /\ Ahead(queue, lane, store)
<1>1. NowGood BY DEF HistoryInv
<1>. QED BY <1>1, LaneFacts, BoundedShape DEF Accounted, Flowing, NowGood

(* What was taken from a queue, and what is left of it.                       *)
Parts(q, a, b) ==
    /\ a \in Seq(JobRecord) /\ b \in Seq(JobRecord)
    /\ QueueTags(q) = QueueTags(a) \cup QueueTags(b)
    /\ Pending(q) = Pending(a) \cup Pending(b)
    /\ DeltasCount(q) => DeltasCount(a) /\ DeltasCount(b)
    /\ Contributed(q) = Contributed(a) + Contributed(b)

Begins(a, q, k) == \A i \in DOMAIN a : i \in DOMAIN q /\ i \in 1..k /\ a[i] = q[i]

LEMMA CutTags ==
    ASSUME NEW q \in Seq(JobRecord), NEW k \in 0..Len(q), NEW a, NEW b, Cut(q, k, a, b)
    PROVE  Parts(q, a, b) /\ Begins(a, q, k)
<1>0. Len(q) \in Nat /\ DOMAIN q = 1..Len(q) /\ k \in Nat /\ k <= Len(q) BY LenProperties
<1>1. /\ a \in Seq(JobRecord) /\ Len(a) = k /\ \A i \in 1..k : i \in DOMAIN q /\ a[i] = q[i]
      /\ b \in Seq(JobRecord) /\ Len(b) = Len(q) - k
      /\ \A i \in 1..(Len(q) - k) : k + i \in DOMAIN q /\ b[i] = q[k + i]
  BY CutFacts DEF Cut
<1>2. DOMAIN a = 1..k /\ DOMAIN b = 1..(Len(q) - k) BY <1>1, LenProperties
<1>3. \A j \in DOMAIN q : \/ j \in DOMAIN a /\ a[j] = q[j]
                          \/ j - k \in DOMAIN b /\ b[j - k] = q[j]
  <2>1. ASSUME NEW j \in DOMAIN q, j \notin 1..k
        PROVE  j - k \in 1..(Len(q) - k) /\ k + (j - k) = j
    BY <1>0, <2>1
  <2>. QED BY <1>1, <1>2, <2>1
<1>4. \A i \in DOMAIN a : i \in DOMAIN q /\ a[i] = q[i] BY <1>1, <1>2
<1>5. \A i \in DOMAIN b : \E j \in DOMAIN q : b[i] = q[j] BY <1>1, <1>2
<1>6. QueueTags(q) = QueueTags(a) \cup QueueTags(b)
  <2>1. QueueTags(q) \subseteq QueueTags(a) \cup QueueTags(b)
    <3>1. ASSUME NEW j \in DOMAIN q, Published(q[j])
          PROVE  TagOf(q[j]) \in QueueTags(a) \cup QueueTags(b)
      BY <1>3, <3>1 DEF QueueTags
    <3>. QED BY <3>1 DEF QueueTags
  <2>2. QueueTags(a) \subseteq QueueTags(q) BY <1>4 DEF QueueTags
  <2>3. QueueTags(b) \subseteq QueueTags(q)
    <3>1. ASSUME NEW i \in DOMAIN b, Published(b[i]) PROVE TagOf(b[i]) \in QueueTags(q)
      BY <1>5, <3>1 DEF QueueTags
    <3>. QED BY <3>1 DEF QueueTags
  <2>. QED BY <2>1, <2>2, <2>3
<1>7. Pending(q) = Pending(a) \cup Pending(b)
  <2>1. Pending(q) \subseteq Pending(a) \cup Pending(b)
    <3>1. ASSUME NEW j \in DOMAIN q, Published(q[j])
          PROVE  q[j].number \in Pending(a) \cup Pending(b)
      BY <1>3, <3>1 DEF Pending
    <3>. QED BY <3>1 DEF Pending
  <2>2. Pending(a) \subseteq Pending(q) BY <1>4 DEF Pending
  <2>3. Pending(b) \subseteq Pending(q)
    <3>1. ASSUME NEW i \in DOMAIN b, Published(b[i]) PROVE b[i].number \in Pending(q)
      BY <1>5, <3>1 DEF Pending
    <3>. QED BY <3>1 DEF Pending
  <2>. QED BY <2>1, <2>2, <2>3
<1>8. DeltasCount(q) => DeltasCount(a) /\ DeltasCount(b) BY <1>4, <1>5 DEF DeltasCount
<1>9. Contributed(q) = Contributed(a) + Contributed(b) BY ContributedCut
<1>. QED BY <1>1, <1>2, <1>6, <1>7, <1>8, <1>9 DEF Parts, Begins

LEMMA EmptyBatch == BatchTags(<< >>) = {} /\ DeltasCount(<< >>) /\ QueueTags(<< >>) = {}
<1>1. DOMAIN << >> = {}
  <2>1. << >> \in Seq(JobRecord) /\ DOMAIN << >> = {} BY EmptySeq
  <2>. QED BY <2>1
<1>. QED BY <1>1 DEF BatchTags, DeltasCount, QueueTags

(* A queue without its first job.                                             *)
LEMMA TailTags ==
    ASSUME NEW q \in Seq(JobRecord), q # << >>, NEW r, r = Tail(q)
    PROVE  \E h : Parts(q, h, r) /\ Begins(h, q, 1)
<1>1. 1 \in 0..Len(q) /\ r = SubSeq(q, 2, Len(q)) BY LenProperties, EmptySeq, TailIsSubSeq
<1>2. ASSUME NEW k \in 0..Len(q), k = 1, NEW h, h = SubSeq(q, 1, k)
      PROVE  Parts(q, h, r) /\ Begins(h, q, k)
  <2>1. Cut(q, k, h, r) BY <1>1, <1>2 DEF Cut
  <2>. QED BY <2>1, CutTags
<1>. QED BY <1>1, <1>2

LEMMA TakeReadFlows == ASSUME HistoryInv, Accounted, TakeRead PROVE Keeps
<1>1. /\ lane.pc = "IDLE" /\ queue # << >> /\ Head(queue).type = "READ"
      /\ queue' = Tail(queue) /\ UNCHANGED <<lane, store, capture, recorder, learning>>
      /\ \E x \in Status : db' = [db EXCEPT !.asked[Head(queue).of].status = x]
  BY DEF TakeRead, Status
<1>2. Becomes(db, db', db.held, db.published)
  BY <1>1, NowFlows DEF Becomes, Shaped, Fields, Failed
<1>3. PICK h : Parts(queue, h, queue') /\ Begins(h, queue, 1)
  <2>. DEFINE r == queue'
  <2>1. r = Tail(queue) /\ queue \in Seq(JobRecord) /\ queue # << >> BY <1>1, NowFlows
  <2>. HIDE DEF r
  <2>2. \E h : Parts(queue, h, r) /\ Begins(h, queue, 1) BY ONLY <2>1, TailTags
  <2>. QED BY <2>2 DEF r
<1>5. /\ h \in Seq(JobRecord) /\ queue' \in Seq(JobRecord)
      /\ QueueTags(queue) = QueueTags(h) \cup QueueTags(queue')
      /\ Pending(queue) = Pending(h) \cup Pending(queue')
      /\ DeltasCount(queue) => DeltasCount(h) /\ DeltasCount(queue')
      /\ Contributed(queue) = Contributed(h) + Contributed(queue')
  BY <1>3 DEF Parts
<1>4. queue[1].type = "READ" BY <1>1
<1>6. \A i \in DOMAIN h : h[i].type = "READ" /\ ~ Published(h[i])
  BY <1>3, <1>4 DEF Published, Begins
<1>7. QueueTags(h) = {} /\ Pending(h) = {} BY <1>6 DEF QueueTags, Pending
<1>8. DeltasCount(queue) BY NowFlows DEF Flows, Balanced
<1>9. Contributed(h) = 0
  <2>1. \A i \in DOMAIN h : h[i].count = 0 BY <1>5, <1>6, <1>8 DEF DeltasCount
  <2>. QED BY <1>5, <2>1, ContributedNone
<1>10. Contributed(queue') = Contributed(queue)
  <2>1. Contributed(queue') \in Nat BY <1>5, ContributedIsNat
  <2>. QED BY <1>5, <1>9, <2>1
<1>11. Flows(db, queue', lane, store, learning, Handed)
  BY <1>5, <1>7, <1>8, <1>10, NowFlows DEF Flows, Flying, Tags, Balanced, Carried
<1>12. Flows(db', queue', lane', store', learning', Handed)
  <2>1. Flows(db', queue', lane, store, learning, Handed) BY <1>2, <1>11, FlowsOn
  <2>. QED BY <1>1, <1>5, <2>1
<1>. QED BY <1>1, <1>2, <1>12, Turns DEF Becomes

(* The lane takes the publications at the head of the queue.                  *)
LEMMA TakeBatchFlows == ASSUME HistoryInv, Accounted, TakeBatch PROVE Keeps
<1>. DEFINE k == BatchLength
            taken == lane'.jobs
            rest == queue'
<1>1. /\ lane.pc = "IDLE" /\ queue # << >> /\ Head(queue).type # "READ"
      /\ lane' = [lane EXCEPT !.pc = "BATCH", !.jobs = SubSeq(queue, 1, k)]
      /\ queue' = SubSeq(queue, k + 1, Len(queue))
      /\ UNCHANGED <<db, store, capture, recorder, learning>>
  BY DEF TakeBatch
<1>2. k \in 1..Len(queue) /\ \A i \in 1..k : queue[i].type # "READ"
  BY <1>1, NowFlows, BatchLengthFacts
<1>3. /\ lane'.pc = "BATCH" /\ lane'.jobs = SubSeq(queue, 1, k) /\ lane'.opened = lane.opened
      /\ lane'.ready = lane.ready /\ lane'.failed = lane.failed
  BY <1>1, NowFlows DEF LaneRecord
<1>4. Parts(queue, taken, rest) /\ Begins(taken, queue, k)
  <2>1. k \in 0..Len(queue) /\ queue \in Seq(JobRecord) BY <1>2, NowFlows, LenProperties
  <2>2. Cut(queue, k, taken, rest) BY <1>1, <1>3 DEF Cut
  <2>. HIDE DEF k, taken, rest
  <2>. QED BY <2>1, <2>2, CutTags
<1>. HIDE DEF k
<1>5. /\ taken \in Seq(JobRecord) /\ rest \in Seq(JobRecord)
      /\ QueueTags(queue) = QueueTags(taken) \cup QueueTags(rest)
      /\ Pending(queue) = Pending(taken) \cup Pending(rest)
      /\ DeltasCount(queue) => DeltasCount(taken) /\ DeltasCount(rest)
      /\ Contributed(queue) = Contributed(taken) + Contributed(rest)
  BY <1>4 DEF Parts
<1>6. \A i \in DOMAIN taken : Published(taken[i]) BY <1>2, <1>4 DEF Published, Begins
<1>7. QueueTags(taken) = BatchTags(taken) BY <1>6 DEF QueueTags, BatchTags
<1>8. Pending(taken) = Numbers(taken)
  <2>1. Numbers(taken) = {taken[i].number : i \in DOMAIN taken} BY <1>5, NumbersFacts
  <2>. QED BY <1>6, <2>1 DEF Pending
<1>. HIDE DEF taken, rest
<1>9. /\ Flows(db, queue, lane, store, learning, Handed) /\ lane'.jobs = taken
  BY NowFlows DEF taken
<1>10. Flying(rest, lane') = Flying(queue, lane)
  BY <1>1, <1>3, <1>5, <1>8, <1>9 DEF Flying
<1>11. Tags(rest, lane', store) \subseteq Tags(queue, lane, store)
  BY <1>5, <1>7, <1>9 DEF Tags
<1>12. Carried(rest, lane') = Carried(queue, lane)
  <2>1. Contributed(taken) \in Nat /\ Contributed(rest) \in Nat /\ Contributed(queue) \in Nat
    BY <1>5, NowFlows, ContributedIsNat
  <2>2. Carried(queue, lane) = Contributed(queue) + 0 BY <1>1 DEF Carried
  <2>3. Carried(rest, lane') = Contributed(rest) + Contributed(taken) BY <1>3, <1>9 DEF Carried
  <2>. QED BY <1>5, <2>1, <2>2, <2>3
<1>13. OneNumber(Handed, db.admitted, Tags(rest, lane', store))
  <2>1. db.admitted <= db.admitted /\ db.admitted \in Nat BY NowFlows
  <2>. QED BY <1>9, <1>11, <2>1, OneNumberOn DEF Flows
<1>14. Flows(db, rest, lane', store, learning, Handed)
  BY <1>3, <1>5, <1>9, <1>10, <1>12, <1>13 DEF Flows, Balanced, LossTold
<1>15. Flows(db', queue', lane', store', learning', Handed)
  BY <1>1, <1>14 DEF rest
<1>. QED BY <1>1, <1>3, <1>15, Turns

(* The batch is encoded: what leaves it is told.                              *)
LEMMA RemovedTags ==
    ASSUME NEW taken \in Seq(JobRecord), NEW k \in 1..Len(taken), NEW r, r = RemoveAt(taken, k)
    PROVE  BatchTags(r) \subseteq BatchTags(taken)
<1>1. /\ r \in Seq(JobRecord) /\ Len(r) = Len(taken) - 1
      /\ \A i \in DOMAIN r : r[i] = IF i < k THEN taken[i] ELSE taken[i + 1]
  BY RemoveFacts
<1>2. DOMAIN r = 1..(Len(taken) - 1) /\ DOMAIN taken = 1..Len(taken) /\ Len(taken) \in Nat
  BY <1>1, LenProperties
<1>3. \A i \in DOMAIN r : i \in DOMAIN taken /\ i + 1 \in DOMAIN taken BY <1>2
<1>4. \A i \in DOMAIN r : \E j \in DOMAIN taken : r[i] = taken[j] BY <1>1, <1>3
<1>. QED BY <1>4 DEF BatchTags

LEMMA PrepareFlows == ASSUME HistoryInv, Accounted, Prepare PROVE Keeps
<1>0. lane.pc = "BATCH" /\ UNCHANGED <<queue, store, capture, recorder, learning>> BY DEF Prepare
<1>1. ASSUME NEW ready, NEW pc \in {"WRITE", "RELEASE"}, lane'.pc = pc, lane'.jobs = lane.jobs,
             lane'.ready = ready, lane'.opened = lane.opened, pc = "WRITE" =>
             BatchTags(ready) \subseteq BatchTags(lane.jobs),
             Becomes(db, db', db.held, db.published), ready = lane.jobs \/ Failed(db')
      PROVE  Keeps
  <2>1. Flows(db', queue, lane, store, learning, Handed) BY <1>1, NowFlows, FlowsOn
  <2>2. Flying(queue, lane') = Flying(queue, lane) BY <1>0, <1>1 DEF Flying
  <2>3. Tags(queue, lane', store) = Tags(queue, lane, store) BY <1>1 DEF Tags
  <2>4. Carried(queue, lane') = Carried(queue, lane) BY <1>0, <1>1 DEF Carried
  <2>5. Balanced(learning, queue, lane') BY <1>1, <2>1, <2>4 DEF Flows, Balanced
  <2>6. LossTold(learning, lane', Failed(db')) BY <1>1, <2>1 DEF Flows, LossTold
  <2>7. Flows(db', queue', lane', store', learning', Handed)
    BY <1>0, <1>1, <2>1, <2>2, <2>3, <2>5, <2>6 DEF Flows
  <2>. QED BY <1>0, <1>1, <2>7, Turns DEF Becomes
<1>2. CASE /\ UNCHANGED db
           /\ lane' = [lane EXCEPT !.pc = "WRITE", !.ready = lane.jobs, !.attempt = 1,
                                   !.sequence = @ + 1]
  <2>1. /\ lane'.pc = "WRITE" /\ lane'.jobs = lane.jobs /\ lane'.ready = lane.jobs
        /\ lane'.opened = lane.opened
    BY <1>2, NowFlows DEF LaneRecord
  <2>2. Becomes(db, db', db.held, db.published) BY <1>2, NowFlows, BecomesItself
  <2>. QED BY <1>1, <2>1, <2>2
<1>3. ASSUME NEW i \in 1..Len(lane.jobs), NEW complete \in BOOLEAN,
             db' = Failure(db, lane.jobs[i].number), NEW ready,
             ready = IF complete THEN lane.jobs ELSE RemoveAt(lane.jobs, i),
             lane' = IF ready = << >>
                     THEN [lane EXCEPT !.pc = "RELEASE", !.ready = << >>, !.failed = FALSE]
                     ELSE [lane EXCEPT !.pc = "WRITE", !.ready = ready, !.attempt = 1,
                                       !.sequence = @ + 1]
      PROVE  Keeps
  <2>1. lane.jobs[i].number \in Nat
    <3>1. i \in DOMAIN lane.jobs BY NowFlows, LenProperties
    <3>. QED BY <3>1, NowFlows, NumbersFacts
  <2>2. Becomes(db, db', db.held, db.published) /\ Failed(db')
    <3>. DEFINE n == lane.jobs[i].number
    <3>1. n \in Nat /\ db' = Failure(db, n) BY <1>3, <2>1
    <3>. HIDE DEF n
    <3>. QED BY <3>1, NowFlows, FailureBecomes
  <2>3. BatchTags(ready) \subseteq BatchTags(lane.jobs)
    <3>1. CASE complete BY <1>3, <3>1
    <3>2. CASE ~ complete
      <4>1. ready = RemoveAt(lane.jobs, i) /\ lane.jobs \in Seq(JobRecord) BY <1>3, <3>2, NowFlows
      <4>. QED BY <4>1, RemovedTags
    <3>. QED BY <3>1, <3>2
  <2>4. /\ lane'.pc \in {"WRITE", "RELEASE"} /\ lane'.jobs = lane.jobs /\ lane'.ready = ready
        /\ lane'.opened = lane.opened
    BY <1>3, NowFlows DEF LaneRecord
  <2>. QED BY <1>1, <2>2, <2>3, <2>4
<1>. QED BY <1>2, <1>3 DEF Prepare

(* An attempt stores the batch, or leaves the store as it was.                *)
LEMMA OrderedOn ==
    ASSUME NEW s, NEW t, s.log \in Seq(LogRecord), t.log \in Seq(LogRecord),
           Ordered(s.log), LogKeeps(s, t)
    PROVE  Ordered(t.log)
<1>1. CASE t.log = s.log BY <1>1
<1>2. CASE /\ Len(s.log) <= Len(t.log) /\ \A i \in 1..Len(s.log) : t.log[i] = s.log[i]
           /\ \A i \in (Len(s.log) + 1)..Len(t.log) :
                i > 1 => t.log[i].number > t.log[i - 1].number
  <2>. DEFINE m == Len(s.log)
              n == Len(t.log)
  <2>0. m \in Nat /\ n \in Nat /\ DOMAIN s.log = 1..m /\ DOMAIN t.log = 1..n BY LenProperties
  <2>1. ASSUME NEW i \in 1..n, i > 1 PROVE t.log[i].number > t.log[i - 1].number
    <3>. HIDE DEF m, n
    <3>1. CASE i \in 1..m
      <4>1. i - 1 \in 1..m BY <2>0, <2>1, <3>1
      <4>2. t.log[i] = s.log[i] /\ t.log[i - 1] = s.log[i - 1] BY <1>2, <3>1, <4>1 DEF m
      <4>. QED BY <2>0, <2>1, <3>1, <4>2 DEF Ordered
    <3>2. CASE i \notin 1..m
      <4>1. i \in (m + 1)..n BY <2>0, <3>2
      <4>. QED BY <1>2, <2>1, <4>1 DEF m, n
    <3>. QED BY <3>1, <3>2
  <2>. QED BY <2>0, <2>1 DEF Ordered
<1>. QED BY <1>1, <1>2 DEF LogKeeps

LEMMA CommittedTags ==
    ASSUME NEW s, NEW l, s.log \in Seq(LogRecord), l.ready \in Seq(JobRecord),
           NEW t, t = Committed(s, l)
    PROVE  BatchTags(t.log) \subseteq BatchTags(s.log) \cup BatchTags(l.ready)
<1>. DEFINE new == [i \in 1..Len(l.ready) |->
                        [of |-> l.ready[i].of, number |-> l.ready[i].number]]
            log == s.log \o new
<1>1. CASE l.sequence <= s.watermark BY <1>1 DEF Committed
<1>2. CASE ~ (l.sequence <= s.watermark)
  <2>1. t.log = log BY <1>2 DEF Committed
  <2>2. Len(l.ready) \in Nat /\ DOMAIN l.ready = 1..Len(l.ready)
        /\ \A i \in DOMAIN l.ready : l.ready[i] \in JobRecord
    BY NumbersFacts
  <2>3. new \in Seq(LogRecord) /\ Len(new) = Len(l.ready)
    <3>1. ASSUME NEW i \in 1..Len(l.ready)
          PROVE  [of |-> l.ready[i].of, number |-> l.ready[i].number] \in LogRecord
      BY <2>2 DEF JobRecord, LogRecord
    <3>2. new \in [1..Len(l.ready) -> LogRecord] BY <3>1
    <3>. HIDE DEF new
    <3>. QED BY <2>2, <3>2, SeqDef, LenProperties
  <2>4. \A i \in 1..Len(new) : i \in DOMAIN l.ready /\ TagOf(new[i]) = TagOf(l.ready[i])
    BY <2>2, <2>3 DEF TagOf
  <2>. HIDE DEF new
  <2>5. /\ log \in Seq(LogRecord) /\ Len(log) = Len(s.log) + Len(new)
        /\ \A i \in 1..Len(s.log) + Len(new) :
              log[i] = IF i <= Len(s.log) THEN s.log[i] ELSE new[i - Len(s.log)]
    <3>1. s.log \in Seq(LogRecord) /\ new \in Seq(LogRecord) BY <2>3
    <3>. QED BY ONLY <3>1, ConcatProperties
  <2>6. /\ Len(s.log) \in Nat /\ Len(new) \in Nat /\ DOMAIN s.log = 1..Len(s.log)
        /\ DOMAIN log = 1..(Len(s.log) + Len(new))
    BY <2>3, <2>5, LenProperties
  <2>. HIDE DEF log
  <2>7. ASSUME NEW i \in DOMAIN log
        PROVE  TagOf(log[i]) \in BatchTags(s.log) \cup BatchTags(l.ready)
    <3>1. CASE i <= Len(s.log)
      <4>1. i \in DOMAIN s.log /\ log[i] = s.log[i] BY <2>5, <2>6, <3>1
      <4>. QED BY <4>1 DEF BatchTags
    <3>2. CASE ~ (i <= Len(s.log))
      <4>1. i - Len(s.log) \in 1..Len(new) /\ log[i] = new[i - Len(s.log)]
        BY <2>5, <2>6, <3>2
      <4>. QED BY <2>4, <4>1 DEF BatchTags
    <3>. QED BY <3>1, <3>2
  <2>. QED BY <2>1, <2>7 DEF BatchTags
<1>. QED BY <1>1, <1>2

LEMMA AttemptsFlow ==
    ASSUME HistoryInv, Accounted, AttemptStored \/ AttemptUncertain \/ AttemptRejected
    PROVE  Keeps
<1>0. lane.pc = "WRITE" /\ UNCHANGED <<db, queue, capture, recorder, learning>>
  BY DEF AttemptStored, AttemptUncertain, AttemptRejected
<1>1. /\ lane'.pc \in {"WRITE", "RELEASE"} /\ lane'.jobs = lane.jobs /\ lane'.ready = lane.ready
      /\ lane'.opened = lane.opened
  <2>1. lane \in LaneRecord BY NowFlows
  <2>. QED BY <1>0, <2>1 DEF AttemptStored, AttemptUncertain, AttemptRejected, GiveUpBatch, LaneRecord
<1>2. store'.log = store.log \/ store'.log = Committed(store, lane).log
  <2>. DEFINE done == Committed(store, lane)
              Record == [log : Seq(LogRecord), watermark : Nat]
  <2>1. store \in Record /\ done \in Record
    BY <1>0, NowFlows, LaneFacts, CommittedFacts DEF HistoryInv
  <2>2. \/ store' = done \/ store' = store
        \/ store' = [store EXCEPT !.watermark = 0] \/ store' = [done EXCEPT !.watermark = 0]
    BY DEF AttemptStored, AttemptUncertain, AttemptRejected
  <2>. HIDE DEF done
  <2>3. ASSUME NEW s \in Record, store' = [s EXCEPT !.watermark = 0] PROVE store'.log = s.log
    BY <2>3
  <2>. QED BY <2>1, <2>2, <2>3 DEF done
<1>3. LogKeeps(store, store') /\ store'.log \in Seq(LogRecord)
  <2>1. LaneKeeps BY AttemptsKeep DEF HistoryInv
  <2>2. LaneOk(lane', store', db') BY <2>1 DEF LaneKeeps, Good
  <2>. QED BY <2>1, <2>2 DEF LaneKeeps, LaneOk
<1>4. Flows(db, queue, lane, store, learning, Handed) BY NowFlows
<1>5. Ordered(store'.log)
  <2>. DEFINE t == store'
  <2>1. t.log \in Seq(LogRecord) /\ store.log \in Seq(LogRecord) /\ Ordered(store.log)
        /\ LogKeeps(store, t)
    BY <1>3, <1>4, NowFlows DEF Flows
  <2>. HIDE DEF t
  <2>2. Ordered(t.log) BY <2>1, OrderedOn
  <2>. QED BY <2>2 DEF t
<1>6. BatchTags(lane.ready) \subseteq BatchTags(lane.jobs) BY <1>0, <1>4 DEF Flows
<1>7. BatchTags(store'.log) \subseteq BatchTags(store.log) \cup BatchTags(lane.jobs)
  <2>1. BatchTags(Committed(store, lane).log) \subseteq BatchTags(store.log) \cup BatchTags(lane.ready)
    BY NowFlows, CommittedTags
  <2>. QED BY <1>2, <1>6, <2>1
<1>8. OneNumber(Handed, db.admitted, Tags(queue, lane', store'))
  <2>1. Tags(queue, lane', store') \subseteq Tags(queue, lane, store) BY <1>1, <1>7 DEF Tags
  <2>2. db.admitted <= db.admitted /\ db.admitted \in Nat BY NowFlows
  <2>. QED BY <1>4, <2>1, <2>2, OneNumberOn DEF Flows
<1>9. Flying(queue, lane') = Flying(queue, lane) BY <1>0, <1>1 DEF Flying
<1>10. Carried(queue, lane') = Carried(queue, lane) BY <1>0, <1>1 DEF Carried
<1>11. Balanced(learning, queue, lane') BY <1>1, <1>4, <1>10 DEF Flows, Balanced
<1>12. LossTold(learning, lane', Failed(db)) BY <1>0, <1>1, <1>4 DEF Flows, LossTold
<1>13. Flows(db', queue', lane', store', learning', Handed)
  BY <1>0, <1>1, <1>4, <1>5, <1>6, <1>8, <1>9, <1>11, <1>12 DEF Flows
<1>. QED BY <1>0, <1>1, <1>13, Turns

(* What flows depends on the record only through what it counts and tells.    *)
LEMMA FlowsSame ==
    ASSUME NEW d, NEW e, NEW q, NEW l, NEW s, NEW a, NEW handed,
           Flows(d, q, l, s, a, handed), Shaped(d), Shaped(e), d.admitted <= e.admitted,
           e.published = d.published, Failed(d) => Failed(e)
    PROVE  Flows(e, q, l, s, a, handed)
<1>1. OneNumber(handed, e.admitted, Tags(q, l, s)) BY OneNumberOn DEF Flows, Shaped
<1>2. LossTold(a, l, Failed(e)) BY DEF Flows, LossTold
<1>. QED BY <1>1, <1>2 DEF Flows

(* The batch is released: it does not count against the capacity any more.    *)
LEMMA ReleaseFlows == ASSUME HistoryInv, Accounted, ReleaseBatch PROVE Keeps
<1>. DEFINE pc == IF \E i \in 1..Len(lane.jobs) : lane.jobs[i].type = "DELTA"
                  THEN "ACKNOWLEDGE" ELSE "SETTLE"
            e == IF lane.failed THEN Failure(db, lane.ready[1].number) ELSE db
            gone == Numbers(lane.jobs)
<1>0. /\ lane.pc = "RELEASE" /\ UNCHANGED <<queue, store, capture, recorder, learning>>
      /\ db' = Release(e, gone) /\ lane' = [lane EXCEPT !.pc = pc]
  BY DEF ReleaseBatch
<1>1. Becomes(db, e, db.held, db.published) /\ (lane.failed => Failed(e))
  <2>1. CASE ~ lane.failed BY <2>1, NowFlows, BecomesItself
  <2>2. CASE lane.failed
    <3>. DEFINE n == lane.ready[1].number
    <3>1. ReadyOk(lane, db) BY <1>0, <2>2, NowFlows DEF LaneOk
    <3>2. n \in Nat BY <3>1, BatchFacts DEF ReadyOk
    <3>3. e = Failure(db, n) BY <2>2
    <3>. HIDE DEF n, e
    <3>. QED BY <3>2, <3>3, NowFlows, FailureBecomes
  <2>. QED BY <2>1, <2>2
<1>2. /\ pc \in {"ACKNOWLEDGE", "SETTLE"}
      /\ pc = "SETTLE" => \A i \in 1..Len(lane.jobs) : lane.jobs[i].type # "DELTA"
  OBVIOUS
<1>. HIDE DEF pc, e
<1>3. /\ lane'.pc = pc /\ lane'.jobs = lane.jobs /\ lane'.ready = lane.ready
      /\ lane'.failed = lane.failed /\ lane'.opened = lane.opened
  BY <1>0, NowFlows DEF LaneRecord
<1>4. Flows(e, queue, lane, store, learning, Handed) BY <1>1, NowFlows, FlowsOn
<1>5. /\ db'.admitted = e.admitted /\ (Failed(db') <=> Failed(e)) /\ db'.held = e.held
      /\ db'.published = e.published \ gone /\ db'.state = e.state /\ db'.closing = e.closing
  BY <1>0, <1>1 DEF Becomes, Shaped, Fields, Release, Failed
<1>6. db'.published = Flying(queue, lane')
  <2>1. e.published = Pending(queue) \cup gone BY <1>0, <1>4 DEF Flows, Flying
  <2>2. \A n \in Pending(queue) : n \notin gone
    <3>1. Pending(queue) \subseteq Nat BY NowFlows, NumbersFacts
    <3>. QED BY <3>1, NowFlows DEF Ahead
  <2>3. Flying(queue, lane') = Pending(queue) BY <1>2, <1>3 DEF Flying
  <2>. HIDE DEF gone
  <2>. QED BY <1>5, <2>1, <2>2, <2>3
<1>7. Carried(queue, lane') = Carried(queue, lane)
  <2>1. CASE pc = "ACKNOWLEDGE" BY <1>0, <1>3, <2>1 DEF Carried
  <2>2. CASE pc = "SETTLE"
    <3>1. DOMAIN lane.jobs = 1..Len(lane.jobs) BY NowFlows, NumbersFacts
    <3>2. \A i \in DOMAIN lane.jobs : lane.jobs[i].count = 0
      BY <1>2, <1>4, <2>2, <3>1 DEF Flows, Balanced, DeltasCount
    <3>3. Contributed(lane.jobs) = 0 BY <3>2, NowFlows, ContributedNone
    <3>. QED BY <1>0, <1>3, <2>2, <3>3 DEF Carried
  <2>. QED BY <1>2, <2>1, <2>2
<1>8. Tags(queue, lane', store) = Tags(queue, lane, store) BY <1>3 DEF Tags
<1>9. Balanced(learning, queue, lane') BY <1>3, <1>4, <1>7 DEF Flows, Balanced
<1>10. LossTold(learning, lane', Failed(db'))
  BY <1>0, <1>1, <1>2, <1>3, <1>4, <1>5 DEF Flows, LossTold
<1>11. Flows(db', queue', lane', store', learning', Handed)
  BY <1>0, <1>2, <1>3, <1>4, <1>5, <1>6, <1>8, <1>9, <1>10 DEF Flows
<1>12. db'.published \subseteq db.published BY <1>1, <1>5 DEF Becomes
<1>. QED BY <1>0, <1>1, <1>2, <1>3, <1>5, <1>11, <1>12, Turns DEF Becomes

(* What was carried is acknowledged, or lost: then it was told.               *)
LEMMA AcknowledgeFlows == ASSUME HistoryInv, Accounted, Acknowledge PROVE Keeps
<1>. DEFINE confirmed == IF lane.failed THEN 0 ELSE Contributed(lane.ready)
            x == learning.acknowledged + confirmed
            y == learning.lost + (Contributed(lane.jobs) - confirmed)
<1>0. /\ lane.pc = "ACKNOWLEDGE" /\ UNCHANGED <<db, queue, store, capture, recorder>>
      /\ learning' = [learning EXCEPT !.acknowledged = x, !.lost = y]
      /\ lane' = [lane EXCEPT !.pc = "SETTLE"]
  BY DEF Acknowledge
<1>1. Flows(db, queue, lane, store, learning, Handed) BY NowFlows
<1>2. learning \in LearnRecord BY <1>1 DEF Flows, Balanced
<1>3. /\ lane'.pc = "SETTLE" /\ lane'.jobs = lane.jobs /\ lane'.ready = lane.ready
      /\ lane'.failed = lane.failed /\ lane'.opened = lane.opened
  BY <1>0, NowFlows DEF LaneRecord
<1>4. Contributed(lane.jobs) \in Nat /\ Contributed(queue) \in Nat /\ confirmed \in Nat
  BY NowFlows, ContributedIsNat
<1>5. ~ Failed(db) => Contributed(lane.jobs) = confirmed BY <1>0, <1>1 DEF Flows, LossTold
<1>6. Carried(queue, lane) = Contributed(queue) + Contributed(lane.jobs) BY <1>0 DEF Carried
<1>7. Carried(queue, lane') = Contributed(queue) BY <1>3, <1>4 DEF Carried
<1>. HIDE DEF confirmed
<1>8. x \in Int /\ y \in Int BY <1>2, <1>4 DEF LearnRecord
<1>9. ~ Failed(db) => y = learning.lost BY <1>2, <1>4, <1>5 DEF LearnRecord
<1>10. learning.made = x + y + learning.pending + Contributed(queue)
  <2>1. learning.made = learning.acknowledged + learning.lost + learning.pending
                        + (Contributed(queue) + Contributed(lane.jobs))
    BY <1>1, <1>6 DEF Flows, Balanced
  <2>2. /\ learning.made \in Int /\ learning.acknowledged \in Int /\ learning.lost \in Int
        /\ learning.pending \in Int
    BY <1>2 DEF LearnRecord
  <2>. DEFINE cq == Contributed(queue)
              cj == Contributed(lane.jobs)
  <2>3. cq \in Int /\ cj \in Int /\ confirmed \in Int BY <1>4
  <2>. HIDE DEF cq, cj
  <2>4. learning.made = (learning.acknowledged + confirmed) + (learning.lost + (cj - confirmed))
                        + learning.pending + cq
    BY ONLY <2>1, <2>2, <2>3 DEF cq, cj
  <2>. QED BY <2>4 DEF cq, cj
<1>. HIDE DEF x, y
<1>11. /\ learning' \in LearnRecord /\ learning'.made = learning.made
       /\ learning'.pending = learning.pending /\ learning'.acknowledged = x /\ learning'.lost = y
  BY <1>0, <1>2, <1>8 DEF LearnRecord
<1>12. Balanced(learning', queue, lane')
  BY <1>1, <1>3, <1>7, <1>10, <1>11 DEF Flows, Balanced
<1>13. LossTold(learning', lane', Failed(db)) BY <1>1, <1>3, <1>9, <1>11 DEF Flows, LossTold
<1>14. Flying(queue, lane') = Flying(queue, lane) BY <1>0, <1>3 DEF Flying
<1>15. Tags(queue, lane', store) = Tags(queue, lane, store) BY <1>3 DEF Tags
<1>16. Flows(db', queue', lane', store', learning', Handed)
  BY <1>0, <1>1, <1>3, <1>12, <1>13, <1>14, <1>15 DEF Flows
<1>. QED BY <1>0, <1>3, <1>11, <1>16, Turns

(* The lane without its batch.                                                *)
LEMMA RestsFlow ==
    ASSUME HistoryInv, Accounted, NEW d, NEW l, Shaped(d), db.admitted <= d.admitted,
           d.published = db.published, Failed(db) => Failed(d),
           lane.pc \in {"OPENING", "IDLE", "SETTLE"}, l.pc \in {"IDLE", "ENDED"},
           l.jobs = << >> \/ l.jobs = lane.jobs
    PROVE  Flows(d, queue, l, store, learning, Handed)
<1>1. Flows(db, queue, lane, store, learning, Handed) BY NowFlows
<1>2. Flying(queue, l) = Flying(queue, lane) BY DEF Flying
<1>3. Tags(queue, l, store) \subseteq Tags(queue, lane, store) BY EmptyBatch DEF Tags
<1>4. Carried(queue, l) = Carried(queue, lane) BY DEF Carried
<1>5. Balanced(learning, queue, l) BY <1>1, <1>4, EmptyBatch DEF Flows, Balanced
<1>6. LossTold(learning, l, Failed(db)) BY <1>1 DEF Flows, LossTold
<1>7. OneNumber(Handed, db.admitted, Tags(queue, l, store))
  <2>1. db.admitted <= db.admitted /\ db.admitted \in Nat BY NowFlows
  <2>. QED BY <1>1, <1>3, <2>1, OneNumberOn DEF Flows
<1>8. Flows(db, queue, l, store, learning, Handed)
  BY <1>1, <1>2, <1>5, <1>6, <1>7 DEF Flows
<1>. QED BY <1>8, NowFlows, FlowsSame

LEMMA SettleFlows == ASSUME HistoryInv, Accounted, Settle PROVE Keeps
<1>. DEFINE n == Last(lane.jobs).number
            d == [db EXCEPT !.settled = n]
            e == SettleBarriers(d)
<1>0. /\ lane.pc = "SETTLE" /\ UNCHANGED <<queue, store, capture, recorder, learning>>
      /\ db' = e
      /\ lane' = [lane EXCEPT !.pc = "IDLE", !.jobs = << >>, !.ready = << >>,
                              !.attempt = 0, !.failed = FALSE]
  BY DEF Settle
<1>. HIDE DEF n
<1>1. Becomes(db, d, db.held, db.published) BY NowFlows DEF Becomes, Shaped, Fields, Failed
<1>. HIDE DEF d
<1>2. Becomes(d, e, d.held, d.published) BY <1>1, SettleBecomes DEF Becomes
<1>. HIDE DEF e
<1>3. Becomes(db, e, db.held, db.published) BY <1>1, <1>2, BecomesOn DEF Becomes
<1>4. lane'.pc = "IDLE" /\ lane'.jobs = << >> /\ lane'.opened = lane.opened
  BY <1>0, NowFlows DEF LaneRecord
<1>5. Flows(e, queue, lane', store, learning, Handed)
  BY <1>0, <1>3, <1>4, RestsFlow DEF Becomes
<1>6. Flows(db', queue', lane', store', learning', Handed) BY <1>0, <1>5
<1>. QED BY <1>0, <1>3, <1>4, <1>6, Turns DEF Becomes

(* Opened, or not opened.                                                     *)
LEMMA OpenedFlows ==
    ASSUME HistoryInv, Accounted, lane.pc = "OPENING",
           UNCHANGED <<queue, store, capture, recorder, learning>>,
           Shaped(db'), db'.admitted = db.admitted, db'.held = db.held,
           db'.published = db.published, Failed(db) => Failed(db'),
           lane'.pc = "IDLE", lane'.jobs = << >>,
           \/ lane'.opened = "OK" /\ db'.state # "OPENING" /\ db'.closing = db.closing
           \/ lane'.opened = "REJECTED" /\ db'.state = "OPENING"
    PROVE  Keeps
<1>1. PhasesAgree' BY DEF Accounted, PhasesAgree
<1>2. HoldersKnown'
  <2>1. Room(db') BY DEF Accounted, HoldersKnown, Room, Items
  <2>. QED BY <2>1 DEF Accounted, HoldersKnown, InHand
<1>3. MissingTold' BY DEF Accounted, MissingTold
<1>4. Flowing'
  <2>. DEFINE e == db'
              l == lane'
  <2>1. /\ Shaped(e) /\ db.admitted <= e.admitted /\ e.published = db.published
        /\ Failed(db) => Failed(e)
        /\ l.pc = "IDLE" /\ l.jobs = << >>
    BY NowFlows
  <2>. HIDE DEF e, l
  <2>2. Flows(e, queue, l, store, learning, Handed) BY <2>1, RestsFlow
  <2>3. Handed' = Handed BY DEF Handed
  <2>. QED BY <2>2, <2>3 DEF Flowing, e, l
<1>. QED BY <1>1, <1>2, <1>3, <1>4 DEF Keeps

LEMMA OpeningFlows == ASSUME HistoryInv, Accounted, LaneOpen \/ LaneFailsToOpen PROVE Keeps
<1>0. /\ lane.pc = "OPENING" /\ UNCHANGED <<queue, store, capture, recorder, learning>>
      /\ db.state = "OPENING"
  BY DEF LaneOpen, LaneFailsToOpen, Accounted, PhasesAgree
<1>1. CASE LaneOpen
  <2>. DEFINE s == IF db.closing THEN "CLOSING" ELSE "OPEN"
  <2>1. lane' = Idle /\ db' = [db EXCEPT !.state = s] /\ s # "OPENING" BY <1>1 DEF LaneOpen
  <2>. HIDE DEF s
  <2>2. lane'.pc = "IDLE" /\ lane'.jobs = << >> /\ lane'.opened = "OK" BY <2>1 DEF Idle
  <2>3. /\ Shaped(db') /\ db'.admitted = db.admitted /\ db'.held = db.held
        /\ db'.published = db.published /\ (Failed(db) => Failed(db'))
        /\ db'.state = s /\ db'.closing = db.closing
    BY <2>1, NowFlows DEF Shaped, Fields, Failed
  <2>. QED BY <1>0, <2>1, <2>2, <2>3, OpenedFlows
<1>2. CASE LaneFailsToOpen
  <2>. DEFINE f == Failure(db, 0)
              s == IF db.closing THEN "CLOSING" ELSE "DEGRADED"
  <2>1. \/ /\ db' = [f EXCEPT !.unavailable = TRUE, !.state = s]
           /\ lane' = [Idle EXCEPT !.handle = FALSE]
        \/ /\ db' = [f EXCEPT !.unavailable = TRUE, !.closing = TRUE]
           /\ lane' = [Idle EXCEPT !.handle = FALSE, !.opened = "REJECTED"]
    BY <1>2 DEF LaneFailsToOpen
  <2>2. s # "OPENING" OBVIOUS
  <2>3. Becomes(db, f, db.held, db.published) /\ f.admitted = db.admitted
    <3>1. f.admitted = db.admitted
      BY NowFlows DEF Failure, SettleBarriers, Shaped, Fields
    <3>. QED BY <3>1, NowFlows, FailureBecomes
  <2>. HIDE DEF f, s
  <2>4. /\ lane'.pc = "IDLE" /\ lane'.jobs = << >>
        /\ \/ lane'.opened = "OK" /\ db' = [f EXCEPT !.unavailable = TRUE, !.state = s]
           \/ lane'.opened = "REJECTED" /\ db' = [f EXCEPT !.unavailable = TRUE, !.closing = TRUE]
    BY <2>1 DEF Idle
  <2>5. /\ Shaped(db') /\ db'.admitted = db.admitted /\ db'.held = db.held
        /\ db'.published = db.published /\ (Failed(db) => Failed(db'))
    BY <2>3, <2>4 DEF Becomes, Shaped, Fields, Failed
  <2>6. \/ lane'.opened = "OK" /\ db'.state = s /\ db'.closing = db.closing
        \/ lane'.opened = "REJECTED" /\ db'.state = "OPENING"
    BY <1>0, <2>3, <2>4 DEF Becomes, Shaped, Fields
  <2>. QED BY <1>0, <2>2, <2>4, <2>5, <2>6, OpenedFlows
<1>. QED BY <1>1, <1>2

(* The lane ends with nothing reserved and nothing left to do.                *)
LEMMA EndFlows == ASSUME HistoryInv, Accounted, End PROVE Keeps
<1>0. /\ lane.pc = "IDLE" /\ queue = << >> /\ db.closing /\ Items(db) = 0
      /\ UNCHANGED <<queue, store, capture, recorder, learning>>
      /\ lane' = [lane EXCEPT !.pc = "ENDED", !.handle = FALSE]
      /\ \E d \in {db, RecordGap(db)} : db' = [d EXCEPT !.state = "CLOSED"]
  BY DEF End
<1>1. PICK d \in {db, RecordGap(db)} : db' = [d EXCEPT !.state = "CLOSED"] BY <1>0
<1>2. Becomes(db, d, db.held, db.published)
  BY <1>1, NowFlows, BecomesItself, GapBecomes
<1>3. /\ Shaped(db') /\ db.admitted <= db'.admitted /\ db'.held = db.held
      /\ db'.published = db.published /\ (Failed(db) => Failed(db'))
      /\ db'.closing = db.closing
  BY <1>1, <1>2 DEF Becomes, Shaped, Fields, Failed
<1>4. lane'.pc = "ENDED" /\ lane'.jobs = lane.jobs /\ lane'.opened = lane.opened
  BY <1>0, NowFlows DEF LaneRecord
<1>5. db.held = {} BY <1>0, NothingHeld DEF Accounted, HoldersKnown
<1>6. PhasesAgree' BY <1>0, <1>3, <1>4, <1>5 DEF Accounted, PhasesAgree
<1>7. HoldersKnown'
  <2>1. Room(db') BY <1>3 DEF Accounted, HoldersKnown, Room, Items
  <2>. QED BY <1>0, <1>3, <2>1 DEF Accounted, HoldersKnown, InHand
<1>8. MissingTold' BY <1>0, <1>3 DEF Accounted, MissingTold
<1>9. Flowing'
  <2>. DEFINE e == db'
              l == lane'
  <2>1. /\ Shaped(e) /\ db.admitted <= e.admitted /\ e.published = db.published
        /\ Failed(db) => Failed(e)
        /\ l.pc = "ENDED" /\ l.jobs = lane.jobs
    BY <1>3, <1>4
  <2>. HIDE DEF e, l
  <2>2. Flows(e, queue, l, store, learning, Handed) BY <1>0, <2>1, RestsFlow
  <2>3. Handed' = Handed BY <1>0 DEF Handed
  <2>. QED BY <1>0, <2>2, <2>3 DEF Flowing, e, l
<1>. QED BY <1>6, <1>7, <1>8, <1>9 DEF Keeps

LEMMA LaneStepFlows == ASSUME HistoryInv, Accounted, LaneStep PROVE Keeps
BY OpeningFlows, TakeReadFlows, TakeBatchFlows, PrepareFlows, AttemptsFlow, ReleaseFlows,
   AcknowledgeFlows, SettleFlows, EndFlows DEF LaneStep

-----------------------------------------------------------------------------
(* What happens beside the lane.                                              *)

LEMMA NowHeld ==
    ASSUME Accounted
    PROVE  /\ Room(db) /\ db.held \subseteq Context \cup {"session", "layout", "delta"}
           /\ "delta" \in db.held <=> learning.pending > 0
           /\ learning \in LearnRecord /\ learning.pending \in Nat
           /\ lane.pc = "ENDED" => db.closing /\ db.held = {} /\ learning.pending = 0
BY DEF Accounted, HoldersKnown, PhasesAgree, Flowing, Flows, Balanced, LearnRecord

(* At most the session's record and the layout are given back, and what is    *)
(* told is told.                                                              *)
LEMMA Lighter ==
    ASSUME HistoryInv, Accounted, UNCHANGED <<lane, store, capture, learning>>, WayOn,
           NEW e, e = db', Flows(e, queue', lane, store, learning, Handed),
           Failed(db) => Failed(e), e.state = "OPENING" <=> db.state = "OPENING",
           db.closing => e.closing,
           e.closing => db.closing \/ recorder'.pc \in {"ENDING", "CLOSED"},
           lane.pc = "ENDED" => queue' = queue, Room(e),
           e.held \subseteq db.held, db.held \ {"session", "layout"} \subseteq e.held,
           recorder'.pc \in Late /\ ~ recorder'.gave_up => e.held \subseteq {"session"}
    PROVE  Keeps
<1>1. Holding(e, learning) BY NowHeld, Strings DEF Holding
<1>2. \A c \in Context : c \in e.held <=> c \in db.held BY Strings
<1>3. lane.opened # "OK" => learning.pending = 0 BY DEF Accounted, PhasesAgree
<1>. QED BY <1>1, <1>2, <1>3, Untouched

(* Something is told, or nothing.                                             *)
LEMMA Told ==
    ASSUME HistoryInv, Accounted, UNCHANGED <<queue, lane, store, capture, learning>>, WayOn,
           Becomes(db, db', db.held, db.published),
           recorder'.pc \in Late /\ ~ recorder'.gave_up => db.held \subseteq {"session"}
    PROVE  Keeps
<1>. DEFINE e == db'
<1>1. /\ Becomes(db, e, db.held, db.published) /\ e = db'
      /\ recorder'.pc \in Late /\ ~ recorder'.gave_up => e.held \subseteq {"session"}
      /\ queue' = queue
  BY DEF Becomes
<1>. HIDE DEF e
<1>2. Flows(e, queue, lane, store, learning, Handed) BY <1>1, NowFlows, FlowsOn
<1>3. Room(e) BY <1>1, NowHeld, HoldsNoMore DEF Becomes
<1>. QED BY <1>1, <1>2, <1>3, Lighter DEF Becomes

(* A read is asked for.                                                       *)
LEMMA AsksFlow ==
    ASSUME HistoryInv, Accounted, UNCHANGED <<lane, store, capture, recorder, learning>>,
           Readable(db), NEW o \in Anyone, db' = Asked(db, o),
           queue' = Append(queue, Job("READ", o, 0, 0))
    PROVE  Keeps
<1>. DEFINE e == db'
<1>1. Becomes(db, e, db.held, db.published) /\ e = db' BY NowFlows, AskedBecomes
<1>. HIDE DEF e
<1>2. Flows(e, queue', lane, store, learning, Handed) BY <1>1, NowFlows, FlowsReads
<1>3. Room(e) BY <1>1, NowHeld, HoldsNoMore DEF Becomes
<1>4. lane.pc # "ENDED" BY NowHeld DEF Readable
<1>5. recorder'.pc \in Late /\ ~ recorder'.gave_up => e.held \subseteq {"session"}
  BY <1>1 DEF Accounted, HoldersKnown, Becomes
<1>6. WayOn BY StaysOn
<1>. QED BY <1>1, <1>2, <1>3, <1>4, <1>5, <1>6, Lighter DEF Becomes

(* The accumulator is drained, and somebody may then wait for it.             *)
LEMMA DrainsFlow ==
    ASSUME HistoryInv, Accounted, UNCHANGED <<lane, store, capture>>, WayOn,
           NEW D, D = Drain(db, queue, learning), queue' = D.queue, learning' = D.learning,
           Becomes(D.db, db', D.db.held, D.db.published),
           recorder'.pc \in Late /\ ~ recorder'.gave_up => D.db.held \subseteq {"session"}
    PROVE  Keeps
<1>. DEFINE e == db'
<1>0. Becomes(D.db, e, D.db.held, D.db.published) /\ e = db' OBVIOUS
<1>. HIDE DEF e
<1>1. /\ Flows(D.db, D.queue, lane, store, D.learning, Handed)
      /\ D.learning.pending = 0
      /\ D.db.held = IF learning.pending = 0 THEN db.held ELSE db.held \ {"delta"}
      /\ D.db.closing = db.closing /\ (D.db.state = "OPENING" <=> db.state = "OPENING")
      /\ learning.pending = 0 => D.queue = queue
      /\ Failed(db) => Failed(D.db)
      /\ Room(D.db)
  <2>1. Room(db) /\ (learning.pending > 0 => "delta" \in db.held) BY NowHeld
  <2>2. Good(db, queue, lane, store) /\ Flows(db, queue, lane, store, learning, Handed)
        /\ D = Drain(db, queue, learning)
    BY NowFlows
  <2>3. Drained(db, queue, lane, store, learning, Handed, D) BY ONLY <2>2, FlowsDrains
  <2>. QED BY <2>1, <2>3 DEF Drained
<1>2. Flows(e, D.queue, lane, store, D.learning, Handed) BY <1>0, <1>1, FlowsOn
<1>3. Room(e) BY <1>0, <1>1, HoldsNoMore DEF Becomes
<1>4. "delta" \notin e.held /\ e.held \subseteq db.held /\ db.held \ {"delta"} \subseteq e.held
  BY <1>0, <1>1, NowHeld DEF Becomes
<1>5. Holding(e, learning') BY <1>1, <1>3, <1>4, NowHeld DEF Holding
<1>6. \A c \in Context : c \in e.held <=> c \in db.held BY <1>4, Strings
<1>7. lane.pc = "ENDED" => e.held \subseteq db.held /\ queue' = queue BY <1>1, <1>4, NowHeld
<1>8. recorder'.pc \in Late /\ ~ recorder'.gave_up => e.held \subseteq {"session"}
  BY <1>0 DEF Becomes
<1>9. /\ Failed(db) => Failed(e)
      /\ e.state = "OPENING" <=> db.state = "OPENING"
      /\ e.closing = db.closing
  BY <1>0, <1>1 DEF Becomes
<1>10. Flows(e, queue', lane, store, learning', Handed) /\ learning'.pending = 0 BY <1>1, <1>2
<1>. QED BY <1>0, <1>5, <1>6, <1>7, <1>8, <1>9, <1>10, Untouched

LEMMA DrainShaped ==
    ASSUME HistoryInv, Accounted, NEW D, D = Drain(db, queue, learning)
    PROVE  /\ Shaped(D.db) /\ Becomes(D.db, D.db, D.db.held, D.db.published)
           /\ D.db.held \subseteq db.held
<1>1. Good(db, queue, lane, store) /\ Flows(db, queue, lane, store, learning, Handed)
      /\ D = Drain(db, queue, learning)
  BY NowFlows
<1>2. Drained(db, queue, lane, store, learning, Handed, D) BY ONLY <1>1, FlowsDrains
<1>. QED BY <1>2, BecomesItself DEF Drained

LEMMA LanesideFlows == ASSUME HistoryInv, Accounted, Checkpoint \/ MaintenanceFails PROVE Keeps
<1>0. UNCHANGED <<lane, store, capture, recorder>> BY DEF Checkpoint, MaintenanceFails
<1>1. WayOn BY <1>0, StaysOn
<1>2. recorder'.pc \in Late /\ ~ recorder'.gave_up => db.held \subseteq {"session"}
  BY <1>0 DEF Accounted, HoldersKnown
<1>3. CASE Checkpoint
  <2>. DEFINE D == Drain(db, queue, learning)
  <2>1. D = Drain(db, queue, learning) /\ db' = D.db /\ queue' = D.queue /\ learning' = D.learning
    BY <1>3 DEF Checkpoint
  <2>. HIDE DEF D
  <2>2. Becomes(D.db, db', D.db.held, D.db.published) /\ D.db.held \subseteq db.held
    BY <2>1, DrainShaped
  <2>. QED BY <1>0, <1>1, <1>2, <2>1, <2>2, DrainsFlow
<1>4. CASE MaintenanceFails
  <2>1. db' = RecordGap(db) /\ UNCHANGED <<queue, learning>> BY <1>4 DEF MaintenanceFails
  <2>2. Becomes(db, db', db.held, db.published) BY <2>1, NowFlows, GapBecomes
  <2>. QED BY <1>0, <1>1, <1>2, <2>1, <2>2, Told
<1>. QED BY <1>3, <1>4

LEMMA FlushFlows == ASSUME HistoryInv, Accounted, NEW f \in Flusher, Flush(f) PROVE Keeps
<1>. DEFINE D == Drain(db, queue, learning)
<1>0. /\ UNCHANGED <<lane, store, capture, recorder>> /\ D = Drain(db, queue, learning)
      /\ db' = Barrier(D.db, f) /\ queue' = D.queue /\ learning' = D.learning
  BY DEF Flush
<1>. HIDE DEF D
<1>1. Shaped(D.db) /\ D.db.held \subseteq db.held BY <1>0, DrainShaped
<1>2. Becomes(D.db, db', D.db.held, D.db.published) BY <1>0, <1>1, AskedBecomes
<1>3. recorder'.pc \in Late /\ ~ recorder'.gave_up => D.db.held \subseteq {"session"}
  BY <1>0, <1>1 DEF Accounted, HoldersKnown
<1>4. WayOn BY <1>0, StaysOn
<1>. QED BY <1>0, <1>2, <1>3, <1>4, DrainsFlow

LEMMA RequestFlows == ASSUME HistoryInv, Accounted, NEW r \in Reader, Request(r) PROVE Keeps
<1>1. r \in Anyone BY DEF Anyone, Caller
<1>. QED BY <1>1, AsksFlow DEF Request

-----------------------------------------------------------------------------
(* The recorder's steps.                                                      *)

LEMMA GoesOn ==
    ASSUME HistoryInv, NEW pc, Go(pc)
    PROVE  recorder'.pc = pc /\ recorder'.gave_up = recorder.gave_up
BY Still DEF Go, RecorderRecord

(* The session's record takes its place, and another is kept for the end.     *)
LEMMA SessionFlows ==
    ASSUME HistoryInv, Accounted, UNCHANGED <<lane, store, capture, learning>>,
           recorder.pc = "OPENING", lane.opened = "OK",
           Reservable(db), CanCache(Hold(db, "startup")), Go("STARTING"),
           db' = Barrier(Publish(Hold(Hold(db, "startup"), "session"), "startup"), "startup"),
           queue' = Append(queue, Job("SESSION", "startup", db.admitted + 1, 0))
    PROVE  Keeps
<1>. DEFINE d1 == Hold(db, "startup")
            d2 == Hold(d1, "session")
            d3 == Publish(d2, "startup")
            e == Barrier(d3, "startup")
<1>0. e = db' /\ CanCache(d1) OBVIOUS
<1>1. Becomes(db, d1, db.held \cup {"startup"}, db.published) /\ d1.admitted = db.admitted
      /\ d1.closing = db.closing
  <2>1. d1.admitted = db.admitted BY NowFlows DEF Hold, Shaped, Fields
  <2>. QED BY <2>1, NowFlows, HoldBecomes DEF Becomes
<1>. HIDE DEF d1
<1>2. Becomes(d1, d2, d1.held \cup {"session"}, d1.published) /\ d2.admitted = d1.admitted
  <2>1. Shaped(d1) BY <1>1 DEF Becomes
  <2>2. d2.admitted = d1.admitted BY <2>1 DEF Hold, Shaped, Fields
  <2>. QED BY <2>1, <2>2, HoldBecomes
<1>. HIDE DEF d2
<1>3. /\ Becomes(d2, d3, d2.held \ {"startup"}, d2.published \cup {d2.admitted + 1})
      /\ d3.admitted = d2.admitted + 1
  BY <1>2, PublishBecomes DEF Becomes
<1>. HIDE DEF d3
<1>4. Becomes(d3, e, d3.held, d3.published) BY <1>3, AskedBecomes DEF Becomes
<1>. HIDE DEF e
<1>5. "startup" \notin db.held BY NowHeld, Strings
<1>6. /\ e.held = db.held \cup {"session"} /\ e.published = db.published \cup {db.admitted + 1}
      /\ d2.held = db.held \cup {"startup", "session"} /\ d2.published = db.published
      /\ d1.held = db.held \cup {"startup"} /\ d1.published = db.published
      /\ d3.held = e.held /\ d3.published = e.published
  BY <1>1, <1>2, <1>3, <1>4, <1>5, Strings DEF Becomes
<1>7. Becomes(db, d2, d2.held, d2.published) BY <1>1, <1>2, BecomesOn DEF Becomes
<1>8. Becomes(db, d3, d3.held, d3.published) BY <1>3, <1>7, BecomesOn DEF Becomes
<1>9. Becomes(db, e, e.held, e.published) BY <1>4, <1>8, BecomesOn DEF Becomes
<1>10. Room(d3)
  <2>1. Room(d1)
    <3>1. Items(db) < PendingItems BY DEF Reservable
    <3>. QED BY <1>6, <3>1, NowHeld, HoldsOneMore
  <2>2. Room(d2)
    <3>1. Items(d1) < PendingItems BY <1>0 DEF CanCache
    <3>2. d2.held = d1.held \cup {"session"} /\ d2.published = d1.published
      BY <1>2 DEF Becomes
    <3>. QED BY <2>1, <3>1, <3>2, HoldsOneMore
  <2>3. "startup" \in d2.held BY <1>6
  <2>4. d3.held = d2.held \ {"startup"} /\ d3.published = d2.published \cup {d2.admitted + 1}
    BY <1>3 DEF Becomes
  <2>. QED BY <2>2, <2>3, <2>4, PublishesInPlace
<1>11. Room(e) BY <1>6, <1>10, HoldsNoMore
<1>12. Flows(e, queue', lane, store, learning, Handed)
  <2>1. "startup" \in Anyone /\ "startup" \notin Context BY Strings DEF Anyone
  <2>2. Becomes(db, e, e.held, db.published \cup {db.admitted + 1}) BY <1>6, <1>9
  <2>3. db.admitted + 1 <= e.admitted
    BY <1>1, <1>2, <1>3, <1>4, NowFlows DEF Becomes, Shaped
  <2>4. learning \in LearnRecord /\ learning.pending = learning.pending - 0
    BY NowHeld
  <2>. QED BY <2>1, <2>2, <2>3, <2>4, NowFlows, FlowsPublishes
<1>13. Holding(e, learning) BY <1>6, <1>11, NowHeld, Strings DEF Holding
<1>14. \A c \in Context : c \in e.held <=> c \in db.held BY <1>6, Strings
<1>15. lane.pc # "ENDED" BY <1>0, <1>1, NowHeld DEF CanCache
<1>16. recorder'.pc = "STARTING" BY GoesOn
<1>17. WayOn /\ recorder'.pc \notin Late BY <1>16 DEF WayOn, Late
<1>18. lane.opened # "OK" => learning'.pending = 0 OBVIOUS
<1>. QED BY <1>0, <1>9, <1>12, <1>13, <1>14, <1>15, <1>17, <1>18, Untouched DEF Becomes

LEMMA RecorderOpensFlow == ASSUME HistoryInv, Accounted, RecorderOpens PROVE Keeps
<1>0. recorder.pc = "OPENING" /\ UNCHANGED <<lane, store, capture, learning>> BY DEF RecorderOpens
<1>1. ASSUME Becomes(db, db', db.held, db.published), queue' = queue,
             Go("ABANDONED") \/ (lane.opened = "OK" /\ Go("LOADING"))
      PROVE  Keeps
  <2>1. recorder'.pc = "ABANDONED" \/ (lane.opened = "OK" /\ recorder'.pc = "LOADING")
    BY <1>1, GoesOn
  <2>2. WayOn /\ recorder'.pc \notin Late BY <1>0, <2>1 DEF WayOn, Late
  <2>. QED BY <1>0, <1>1, <2>2, Told
<1>2. CASE lane.opened = "REJECTED" /\ Go("ABANDONED") /\ UNCHANGED <<db, queue>>
  BY <1>1, <1>2, NowFlows, BecomesItself
<1>3. CASE /\ lane.opened = "OK" /\ db' = Unreserved(db)
           /\ Go(IF strict THEN "ABANDONED" ELSE "LOADING") /\ UNCHANGED queue
  BY <1>1, <1>3, NowFlows, UnreservedBecomes
<1>4. CASE /\ lane.opened = "OK" /\ db' = IF strict THEN db ELSE RecordGap(db)
           /\ Go(IF strict THEN "ABANDONED" ELSE "LOADING") /\ UNCHANGED queue
  BY <1>1, <1>4, NowFlows, BecomesItself, GapBecomes
<1>5. CASE /\ lane.opened = "OK" /\ Reservable(db) /\ CanCache(Hold(db, "startup"))
           /\ db' = Barrier(Publish(Hold(Hold(db, "startup"), "session"), "startup"), "startup")
           /\ queue' = Append(queue, Job("SESSION", "startup", db.admitted + 1, 0))
           /\ Go("STARTING")
  BY <1>0, <1>5, SessionFlows
<1>. QED BY <1>2, <1>3, <1>4, <1>5 DEF RecorderOpens

LEMMA RecorderWaitsFlow ==
    ASSUME HistoryInv, Accounted, RecorderTimesOut \/ SessionRecorded \/ RecorderEnds
    PROVE  Keeps
<1>0. UNCHANGED <<db, queue, lane, store, capture, learning>>
  BY DEF RecorderTimesOut, SessionRecorded, RecorderEnds
<1>1. Becomes(db, db', db.held, db.published) BY <1>0, NowFlows, BecomesItself
<1>2. CASE RecorderTimesOut
  <2>1. recorder.pc \in {"OPENING", "LOADING"} /\ recorder'.pc = "ABANDONED"
    BY <1>2, GoesOn DEF RecorderTimesOut
  <2>. QED BY <1>0, <1>1, <2>1, Told DEF WayOn, Late
<1>3. CASE SessionRecorded
  <2>1. recorder.pc = "STARTING" /\ recorder'.pc \in {"LOADING", "ABANDONED"}
    <3>1. /\ recorder.pc = "STARTING"
          /\ \/ recorder' = [recorder EXCEPT !.pc = "LOADING", !.ready = TRUE]
             \/ Go("ABANDONED") \/ Go("LOADING")
      BY <1>3 DEF SessionRecorded
    <3>. QED BY <3>1, Still, GoesOn DEF RecorderRecord
  <2>. QED BY <1>0, <1>1, <2>1, WhileOpen, Told DEF WayOn, Late
<1>4. CASE RecorderEnds
  <2>1. /\ recorder.pc = "ENDING" /\ recorder'.pc = "CLOSED"
        /\ recorder'.gave_up = recorder.gave_up
    BY <1>4, GoesOn DEF RecorderEnds
  <2>2. WayOn BY <2>1 DEF WayOn
  <2>3. recorder'.pc \in Late /\ ~ recorder'.gave_up => db.held \subseteq {"session"}
    BY <2>1 DEF Accounted, HoldersKnown, Late
  <2>. QED BY <1>0, <1>1, <2>2, <2>3, Told
<1>. QED BY <1>2, <1>3, <1>4

LEMMA ProfilesFlow == ASSUME HistoryInv, Accounted, AskProfiles \/ ProfilesLoaded PROVE Keeps
<1>0. recorder.pc = "LOADING" /\ UNCHANGED <<lane, store, capture, learning>>
  BY DEF AskProfiles, ProfilesLoaded
<1>1. ASSUME db' = db \/ db' = RecordGap(db), queue' = queue, Go("ABANDONED") \/ Go("OPEN")
      PROVE  Keeps
  <2>1. Becomes(db, db', db.held, db.published) BY <1>1, NowFlows, BecomesItself, GapBecomes
  <2>2. recorder'.pc \in {"ABANDONED", "OPEN"} BY <1>1, GoesOn
  <2>. QED BY <1>0, <1>1, <2>1, <2>2, WhileOpen, Told DEF WayOn, Late
<1>2. CASE ProfilesLoaded BY <1>1, <1>2 DEF ProfilesLoaded
<1>3. CASE AskProfiles
  <2>1. CASE Readable(db)
    <3>1. "profiles" \in Anyone BY DEF Anyone, Caller
    <3>. QED BY <1>0, <1>3, <2>1, <3>1, AsksFlow DEF AskProfiles
  <2>2. CASE ~ Readable(db) BY <1>1, <1>3, <2>2 DEF AskProfiles
  <2>. QED BY <2>1, <2>2
<1>. QED BY <1>2, <1>3

LEMMA CloseRecorderFlows == ASSUME HistoryInv, Accounted, CloseRecorder PROVE Keeps
<1>. DEFINE D == Drain(db, queue, learning)
<1>0. /\ recorder.pc \in {"OPEN", "ABANDONED"} /\ UNCHANGED <<lane, store, capture>>
      /\ D = Drain(db, queue, learning)
      /\ db' = D.db /\ queue' = D.queue /\ learning' = D.learning
      /\ Go("CLOSING") \/ (lane.pc = "ENDED" /\ Go("CLOSED"))
  BY DEF CloseRecorder, Owned
<1>. HIDE DEF D
<1>1. Becomes(D.db, db', D.db.held, D.db.published) /\ D.db.held \subseteq db.held
  BY <1>0, DrainShaped
<1>2. recorder'.pc = "CLOSING" \/ (lane.pc = "ENDED" /\ recorder'.pc = "CLOSED") BY <1>0, GoesOn
<1>3. WayOn BY <1>0, <1>2 DEF WayOn
<1>4. recorder'.pc \in Late => D.db.held \subseteq {"session"} BY <1>1, <1>2, NowHeld DEF Late
<1>. QED BY <1>0, <1>1, <1>3, <1>4, DrainsFlow

LEMMA GiveUpFlows == ASSUME HistoryInv, Accounted, StopWaiting \/ GiveUp PROVE Keeps
<1>0. UNCHANGED <<queue, lane, store, capture, learning>> BY DEF StopWaiting, GiveUp
<1>1. CASE StopWaiting
  <2>. DEFINE e == Discard(db, "layout", FALSE)
  <2>1. /\ recorder.pc = "CLOSING" /\ db' = e
        /\ recorder' = [recorder EXCEPT !.pc = "GIVING_UP", !.gave_up = TRUE]
    BY <1>1 DEF StopWaiting
  <2>2. recorder'.pc = "GIVING_UP" /\ recorder'.gave_up BY <2>1, Still DEF RecorderRecord
  <2>3. Becomes(db, e, db.held \ {"layout"}, db.published)
    <3>1. FALSE \in BOOLEAN OBVIOUS
    <3>. QED BY <3>1, NowFlows, DiscardBecomes
  <2>. HIDE DEF e
  <2>4. WayOn /\ recorder'.pc \notin Late BY <2>1, <2>2 DEF WayOn, Late
  <2>5. Flows(e, queue, lane, store, learning, Handed) BY <2>3, NowFlows, FlowsOn
  <2>6. Room(e) BY <2>3, NowHeld, HoldsNoMore DEF Becomes
  <2>. QED BY <1>0, <2>1, <2>3, <2>4, <2>5, <2>6, Lighter DEF Becomes
<1>2. CASE GiveUp
  <2>. DEFINE g == RecordGap(db)
              b == "session" \in db.held
              f == Discard(g, "session", b)
              e == BeginClose(f)
  <2>1. recorder.pc = "GIVING_UP" /\ db' = e /\ Go("ENDING") BY <1>2 DEF GiveUp
  <2>2. recorder'.pc = "ENDING" /\ recorder'.gave_up
    BY <2>1, GoesOn DEF Accounted, PhasesAgree
  <2>3. Becomes(db, g, db.held, db.published) BY NowFlows, GapBecomes
  <2>4. b \in BOOLEAN OBVIOUS
  <2>. HIDE DEF g, b
  <2>5. Becomes(g, f, g.held \ {"session"}, g.published)
    BY <2>3, <2>4, DiscardBecomes DEF Becomes
  <2>. HIDE DEF f
  <2>6. Becomes(db, f, db.held \ {"session"}, db.published)
    BY <2>3, <2>5, BecomesOn DEF Becomes
  <2>7. /\ Shaped(e) /\ e.held = f.held /\ e.published = f.published /\ e.closing
        /\ e.admitted = f.admitted /\ e.first = f.first
        /\ e.state = "OPENING" <=> f.state = "OPENING"
    BY <2>6, CloseBecomes DEF Becomes
  <2>. HIDE DEF e
  <2>8. Flows(f, queue, lane, store, learning, Handed) BY <2>6, NowFlows, FlowsOn
  <2>9. Flows(e, queue, lane, store, learning, Handed)
    BY <2>6, <2>7, <2>8, FlowsSame DEF Becomes, Shaped, Failed
  <2>10. Room(e) BY <2>6, <2>7, NowHeld, HoldsNoMore DEF Becomes
  <2>11. WayOn BY <2>2 DEF WayOn
  <2>12. Failed(db) => Failed(e) BY <2>6, <2>7 DEF Becomes, Failed
  <2>13. e.state = "OPENING" <=> db.state = "OPENING" BY <2>6, <2>7 DEF Becomes
  <2>14. e.held \subseteq db.held /\ db.held \ {"session", "layout"} \subseteq e.held
    BY <2>6, <2>7 DEF Becomes
  <2>. QED BY <1>0, <2>1, <2>2, <2>7, <2>9, <2>10, <2>11, <2>12, <2>13, <2>14, Lighter
<1>. QED BY <1>1, <1>2

(* The last record takes its place, or is told to be missing.                 *)
LEMMA ShutdownFlows == ASSUME HistoryInv, Accounted, RecordShutdown PROVE Keeps
<1>. DEFINE g == RecordGap(db)
            b == "session" \in db.held
            f == Discard(g, "session", b)
            p == Publish(db, "session")
<1>0. /\ recorder.pc = "DRAINING" /\ UNCHANGED <<lane, store, capture, learning>> /\ Go("ENDING")
      /\ \/ /\ "session" \in db.held /\ db' = BeginClose(p)
            /\ queue' = Append(queue, Job("SESSION", "session", db.admitted + 1, 0))
         \/ db' = BeginClose(db) /\ queue' = queue
         \/ db' = BeginClose(f) /\ queue' = queue
  BY DEF RecordShutdown
<1>. HIDE DEF g, b, f, p
<1>1. recorder'.pc = "ENDING" /\ recorder'.gave_up = recorder.gave_up BY <1>0, GoesOn
<1>2. WayOn BY <1>1 DEF WayOn
<1>3. lane.pc # "ENDED" BY <1>0, WhileOpen
<1>4. ~ recorder'.gave_up => db.held \subseteq {"session"}
  BY <1>0, <1>1 DEF Accounted, HoldersKnown, Late
<1>5. ASSUME NEW d, db' = BeginClose(d), Flows(d, queue', lane, store, learning, Handed),
             Shaped(d), Room(d), Failed(db) => Failed(d),
             d.state = "OPENING" <=> db.state = "OPENING",
             d.held \subseteq db.held, db.held \ {"session"} \subseteq d.held
      PROVE  Keeps
  <2>. DEFINE e == BeginClose(d)
  <2>1. /\ Shaped(e) /\ e.held = d.held /\ e.published = d.published /\ e.closing
        /\ e.admitted = d.admitted /\ e.first = d.first
        /\ e.state = "OPENING" <=> d.state = "OPENING"
    BY <1>5, CloseBecomes
  <2>2. e = db' BY <1>5
  <2>. HIDE DEF e
  <2>3. Flows(e, queue', lane, store, learning, Handed)
    <3>1. d.admitted <= e.admitted /\ (Failed(d) => Failed(e))
      BY <1>5, <2>1 DEF Shaped, Failed
    <3>. QED BY <1>5, <2>1, <3>1, FlowsSame
  <2>4. Room(e) BY <1>5, <2>1, HoldsNoMore
  <2>5. Failed(db) => Failed(e) BY <1>5, <2>1 DEF Failed
  <2>6. e.held \subseteq db.held /\ db.held \ {"session", "layout"} \subseteq e.held
    BY <1>5, <2>1
  <2>7. recorder'.pc \in Late /\ ~ recorder'.gave_up => e.held \subseteq {"session"}
    BY <1>4, <2>6
  <2>. QED BY <1>0, <1>1, <1>2, <1>3, <1>5, <2>1, <2>2, <2>3, <2>4, <2>5, <2>6, <2>7, Lighter
<1>6. CASE /\ "session" \in db.held /\ db' = BeginClose(p)
           /\ queue' = Append(queue, Job("SESSION", "session", db.admitted + 1, 0))
  <2>1. /\ Becomes(db, p, db.held \ {"session"}, db.published \cup {db.admitted + 1})
        /\ p.admitted = db.admitted + 1
    BY NowFlows, PublishBecomes DEF p
  <2>2. Flows(p, queue', lane, store, learning, Handed)
    <3>1. "session" \in Anyone /\ "session" \notin Context BY Strings DEF Anyone
    <3>2. learning \in LearnRecord /\ learning.pending = learning.pending - 0 BY NowHeld
    <3>3. db.admitted + 1 <= p.admitted BY <2>1, NowFlows
    <3>. QED BY <1>6, <2>1, <3>1, <3>2, <3>3, NowFlows, FlowsPublishes
  <2>3. Room(p)
    <3>1. p.held = db.held \ {"session"} /\ p.published = db.published \cup {db.admitted + 1}
      BY <2>1 DEF Becomes
    <3>. QED BY <1>6, <3>1, NowHeld, PublishesInPlace
  <2>. QED BY <1>5, <1>6, <2>1, <2>2, <2>3 DEF Becomes
<1>7. CASE db' = BeginClose(db) /\ queue' = queue
  BY <1>5, <1>7, NowFlows, NowHeld
<1>8. CASE db' = BeginClose(f) /\ queue' = queue
  <2>1. Becomes(db, g, db.held, db.published) BY NowFlows, GapBecomes DEF g
  <2>2. Becomes(g, f, g.held \ {"session"}, g.published)
    <3>1. b \in BOOLEAN BY DEF b
    <3>. QED BY <2>1, <3>1, DiscardBecomes DEF Becomes, f
  <2>3. Becomes(db, f, db.held \ {"session"}, db.published)
    BY <2>1, <2>2, BecomesOn DEF Becomes
  <2>4. Flows(f, queue, lane, store, learning, Handed) BY <2>3, NowFlows, FlowsOn
  <2>5. Room(f) BY <2>3, NowHeld, HoldsNoMore DEF Becomes
  <2>. QED BY <1>5, <1>8, <2>3, <2>4, <2>5 DEF Becomes
<1>. QED BY <1>0, <1>6, <1>7, <1>8

(* Nobody is in hand any more: the captures that were are given back, and     *)
(* those that a context had claimed are told to be missing.                   *)
LEMMA SurrenderedFacts ==
    ASSUME Accounted, Capturing = {}, capture' = Surrendered
    PROVE  /\ capture' \in [Context -> CaptureStatus] /\ Handed' = Handed
           /\ \A c \in Context : ~ InHand(c)'
           /\ \A c \in Context :
                /\ capture'[c] \in Untaken => capture[c] \in Untaken \/ c \in Claimed
                /\ capture[c] = "NEW" => capture'[c] = "NEW"
<1>1. capture \in [Context -> CaptureStatus] BY DEF Accounted, HoldersKnown
<1>2. ASSUME NEW c \in Context
      PROVE  /\ capture'[c] = IF capture[c] = "READY" THEN "REFUSED"
                              ELSE IF capture[c] = "CLAIMED" THEN "LOST" ELSE capture[c]
             /\ capture[c] \in CaptureStatus /\ capture[c] # "CAPTURING"
  BY <1>1 DEF Surrendered, Capturing
<1>3. capture' \in [Context -> CaptureStatus]
  <2>1. \A c \in Context : capture'[c] \in CaptureStatus BY <1>2 DEF CaptureStatus
  <2>2. capture' = [c \in Context |-> capture'[c]] BY DEF Surrendered
  <2>. QED BY <2>1, <2>2
<1>4. Handed' = Handed BY <1>2 DEF Handed
<1>5. \A c \in Context : ~ InHand(c)' BY <1>2 DEF InHand
<1>6. \A c \in Context :
        /\ capture'[c] \in Untaken => capture[c] \in Untaken \/ c \in Claimed
        /\ capture[c] = "NEW" => capture'[c] = "NEW"
  BY <1>2 DEF Untaken, Claimed
<1>. QED BY <1>3, <1>4, <1>5, <1>6

LEMMA SurrenderFlows ==
    ASSUME HistoryInv, Accounted, NEW d, d = Gaps(Kept(db), Cardinality(Claimed))
    PROVE  /\ Becomes(db, d, d.held, db.published)
           /\ d.held \subseteq db.held /\ d.held \subseteq {"session", "delta"}
           /\ "delta" \in db.held => "delta" \in d.held
           /\ Claimed # {} => Failed(d)
           /\ Flows(d, queue, lane, store, learning, Handed) /\ Room(d)
<1>. DEFINE n == Cardinality(Claimed)
            k == Kept(db)
            gone == {"layout"} \cup {c \in Context : InHand(c)}
<1>1. n \in Nat /\ (Claimed # {} => n # 0)
  <2>1. IsFiniteSet(Context) BY LaneAssumption
  <2>2. Claimed \subseteq Context BY DEF Claimed
  <2>3. IsFiniteSet(Claimed) BY <2>1, <2>2, FS_Subset
  <2>. QED BY <2>3, FS_CardinalityType, FS_EmptySet
<1>2. k = [db EXCEPT !.held = @ \ gone] BY DEF Kept
<1>3. d = Gaps(k, n) OBVIOUS
<1>. HIDE DEF n, k, gone
<1>4. Becomes(db, k, db.held \ gone, db.published) BY <1>2, NowFlows, LetGoBecomes
<1>5. Becomes(k, d, k.held, k.published) /\ (n # 0 => Failed(d))
  BY <1>1, <1>3, <1>4, GapsBecome DEF Becomes
<1>6. Becomes(db, d, db.held \ gone, db.published) BY <1>4, <1>5, BecomesOn DEF Becomes
<1>7. db.held \ gone \subseteq {"session", "delta"} /\ "delta" \notin gone
  <2>1. /\ \A c \in Context : c \in db.held => InHand(c)
        /\ db.held \subseteq Context \cup {"session", "layout", "delta"}
    BY DEF Accounted, HoldersKnown
  <2>. QED BY <2>1, Strings DEF gone
<1>8. d.held = db.held \ gone /\ d.published = db.published BY <1>6 DEF Becomes
<1>9. Flows(d, queue, lane, store, learning, Handed) BY <1>6, NowFlows, FlowsOn
<1>10. Room(d) BY <1>8, NowHeld, HoldsNoMore
<1>11. Becomes(db, d, d.held, db.published) BY <1>6, <1>8
<1>. QED BY <1>1, <1>5, <1>7, <1>8, <1>9, <1>10, <1>11

LEMMA DrainRecorderFlows == ASSUME HistoryInv, Accounted, DrainRecorder PROVE Keeps
<1>. DEFINE d == Gaps(Kept(db), Cardinality(Claimed))
            D == Drain(d, queue, learning)
<1>0. /\ recorder.pc = "CLOSING" /\ Capturing = {} /\ UNCHANGED <<lane, store>>
      /\ capture' = Surrendered
      /\ \/ lane.pc = "ENDED" /\ Go("CLOSED") /\ UNCHANGED <<db, queue, learning>>
         \/ /\ lane.pc # "ENDED" /\ db.state = "OPENING"
            /\ db' = BeginClose(RecordGap(d)) /\ Go("ENDING")
            /\ UNCHANGED <<queue, learning>>
         \/ /\ lane.pc # "ENDED" /\ db.state # "OPENING"
            /\ db' = Barrier(D.db, "shutdown") /\ Go("DRAINING")
            /\ queue' = D.queue /\ learning' = D.learning
  BY DEF DrainRecorder, Owned
<1>1. d = Gaps(Kept(db), Cardinality(Claimed)) /\ D = Drain(d, queue, learning) OBVIOUS
<1>. HIDE DEF d, D
<1>2. /\ capture' \in [Context -> CaptureStatus] /\ Handed' = Handed
      /\ \A c \in Context : ~ InHand(c)'
      /\ \A c \in Context :
           /\ capture'[c] \in Untaken => capture[c] \in Untaken \/ c \in Claimed
           /\ capture[c] = "NEW" => capture'[c] = "NEW"
  BY <1>0, SurrenderedFacts
<1>3. /\ Becomes(db, d, d.held, db.published)
      /\ d.held \subseteq db.held /\ d.held \subseteq {"session", "delta"}
      /\ "delta" \in db.held => "delta" \in d.held
      /\ Claimed # {} => Failed(d)
      /\ Flows(d, queue, lane, store, learning, Handed) /\ Room(d)
  BY <1>1, SurrenderFlows
<1>4. \A c \in Context : c \notin {"session", "layout", "delta"} BY Strings
<1>5. lane.opened # "OK" => learning.pending = 0 /\ \A c \in Context : capture'[c] = "NEW"
  BY <1>2 DEF Accounted, PhasesAgree
<1>6. ASSUME Failed(d) => Failed(db') PROVE MissingTold'
  <2>1. \A c \in Context : capture[c] \in Untaken => Failed(db) BY DEF Accounted, MissingTold
  <2>2. \A c \in Context : c \in Claimed => Failed(d) BY <1>3
  <2>3. Failed(db) => Failed(d) BY <1>3 DEF Becomes
  <2>. QED BY <1>2, <1>6, <2>1, <2>2, <2>3 DEF MissingTold
<1>7. CASE lane.pc = "ENDED" /\ Go("CLOSED") /\ UNCHANGED <<db, queue, learning>>
  <2>1. db.held = {} /\ learning.pending = 0 BY <1>7, NowHeld
  <2>2. \A c \in Context : ~ InHand(c) BY <2>1 DEF Accounted, HoldersKnown
  <2>3. MissingTold'
    <3>1. \A c \in Context : capture[c] \in Untaken => Failed(db) BY DEF Accounted, MissingTold
    <3>2. \A c \in Context : c \notin Claimed BY <2>2 DEF Claimed, InHand
    <3>. QED BY <1>2, <1>7, <3>1, <3>2 DEF MissingTold
  <2>4. recorder'.pc = "CLOSED" BY <1>7, GoesOn
  <2>5. WayOn BY <2>4 DEF WayOn
  <2>6. Flowing' BY <1>0, <1>2, <1>7, NowFlows DEF Flowing
  <2>7. Holding(db', learning') BY <1>7, NowHeld DEF Holding
  <2>. QED BY <1>0, <1>2, <1>5, <1>7, <2>1, <2>3, <2>5, <2>6, <2>7, Aside
<1>8. CASE /\ lane.pc # "ENDED" /\ db.state = "OPENING"
           /\ db' = BeginClose(RecordGap(d)) /\ Go("ENDING") /\ UNCHANGED <<queue, learning>>
  <2>. DEFINE g == RecordGap(d)
              e == BeginClose(g)
  <2>1. Becomes(d, g, d.held, d.published) /\ Failed(g) BY <1>3, GapBecomes DEF Becomes
  <2>2. e = db' BY <1>8
  <2>. HIDE DEF g
  <2>3. /\ Shaped(e) /\ e.held = g.held /\ e.published = g.published /\ e.closing
        /\ e.admitted = g.admitted /\ e.first = g.first
        /\ e.state = "OPENING" <=> g.state = "OPENING"
    BY <2>1, CloseBecomes DEF Becomes
  <2>. HIDE DEF e
  <2>4. Flows(g, queue, lane, store, learning, Handed) BY <1>3, <2>1, FlowsOn
  <2>5. Flows(e, queue, lane, store, learning, Handed)
    <3>1. Shaped(g) /\ g.admitted <= e.admitted /\ (Failed(g) => Failed(e))
      BY <2>1, <2>3 DEF Becomes, Shaped, Failed
    <3>. QED BY <2>3, <2>4, <3>1, FlowsSame
  <2>6. recorder'.pc = "ENDING" BY <1>8, GoesOn
  <2>7. WayOn BY <2>6 DEF WayOn
  <2>8. learning.pending = 0 /\ lane.opened # "OK" BY <1>8 DEF Accounted, PhasesAgree
  <2>9. "delta" \notin e.held /\ e.held \subseteq {"session"}
    <3>1. e.held = d.held BY <2>1, <2>3 DEF Becomes
    <3>. QED BY <1>3, <2>8, <3>1, NowHeld
  <2>10. Room(e)
    <3>1. e.held = d.held /\ e.published = d.published BY <2>1, <2>3 DEF Becomes
    <3>. QED BY <1>3, <3>1, HoldsNoMore
  <2>11. Holding(e, learning) BY <2>8, <2>9, <2>10 DEF Holding
  <2>12. MissingTold' BY <1>6, <2>1, <2>2, <2>3 DEF Failed
  <2>13. e.state = "OPENING" <=> db.state = "OPENING" BY <1>3, <2>1, <2>3 DEF Becomes
  <2>14. Flowing' BY <1>0, <1>2, <1>8, <2>2, <2>5 DEF Flowing
  <2>15. \A c \in Context : c \in e.held <=> InHand(c)' BY <1>2, <1>4, <2>9
  <2>16. /\ db'.state = "OPENING" <=> db.state = "OPENING"
         /\ db'.closing /\ Holding(db', learning') /\ db'.held \subseteq {"session"}
         /\ \A c \in Context : c \in db'.held <=> InHand(c)'
    BY <1>8, <2>2, <2>3, <2>9, <2>11, <2>13, <2>15
  <2>. QED BY <1>0, <1>2, <1>5, <1>8, <2>6, <2>7, <2>12, <2>14, <2>16, Aside
<1>9. CASE /\ lane.pc # "ENDED" /\ db.state # "OPENING"
           /\ db' = Barrier(D.db, "shutdown") /\ Go("DRAINING")
           /\ queue' = D.queue /\ learning' = D.learning
  <2>1. Drained(d, queue, lane, store, learning, Handed, D)
    <3>1. Good(d, queue, lane, store) BY <1>1, SurrenderKeeps
    <3>. QED BY ONLY <1>1, <1>3, <3>1, FlowsDrains
  <2>2. /\ Flows(D.db, D.queue, lane, store, D.learning, Handed) /\ D.learning.pending = 0
        /\ Shaped(D.db)
        /\ D.db.held = IF learning.pending = 0 THEN d.held ELSE d.held \ {"delta"}
        /\ D.db.closing = d.closing /\ (D.db.state = "OPENING" <=> d.state = "OPENING")
        /\ Failed(d) => Failed(D.db)
    BY <2>1 DEF Drained
  <2>3. Room(D.db)
    <3>1. Room(d) /\ (learning.pending > 0 => "delta" \in d.held) BY <1>3, NowHeld
    <3>. QED BY <2>1, <3>1 DEF Drained
  <2>4. "delta" \notin D.db.held /\ D.db.held \subseteq {"session"} BY <1>3, <2>2, NowHeld
  <2>. DEFINE e == Barrier(D.db, "shutdown")
  <2>5. Becomes(D.db, e, D.db.held, D.db.published) BY <2>2, AskedBecomes
  <2>6. e = db' BY <1>9
  <2>. HIDE DEF e
  <2>7. Flows(e, D.queue, lane, store, D.learning, Handed) BY <2>2, <2>5, FlowsOn
  <2>8. Room(e) BY <2>3, <2>5, HoldsNoMore DEF Becomes
  <2>9. "delta" \notin e.held /\ e.held \subseteq {"session"} BY <2>4, <2>5 DEF Becomes
  <2>10. Holding(e, D.learning) BY <2>2, <2>8, <2>9 DEF Holding
  <2>11. recorder'.pc = "DRAINING" BY <1>9, GoesOn
  <2>12. lane.opened = "OK" BY <1>9 DEF Accounted, PhasesAgree
  <2>13. WayOn BY <1>0, <2>11, <2>12 DEF WayOn
  <2>14. MissingTold' BY <1>6, <2>2, <2>5, <2>6 DEF Becomes
  <2>15. Flowing' BY <1>0, <1>2, <1>9, <2>6, <2>7 DEF Flowing
  <2>16. e.closing = db.closing /\ (e.state = "OPENING" <=> db.state = "OPENING")
    BY <1>3, <2>2, <2>5 DEF Becomes
  <2>17. \A c \in Context : c \in e.held <=> InHand(c)' BY <1>2, <1>4, <2>9
  <2>18. /\ db'.closing = db.closing /\ (db'.state = "OPENING" <=> db.state = "OPENING")
         /\ Holding(db', learning') /\ db'.held \subseteq {"session"}
         /\ \A c \in Context : c \in db'.held <=> InHand(c)'
    BY <1>9, <2>6, <2>9, <2>10, <2>16, <2>17
  <2>. QED BY <1>0, <1>2, <1>9, <2>12, <2>13, <2>14, <2>15, <2>18, Aside
<1>. QED BY <1>0, <1>7, <1>8, <1>9

LEMMA RecorderStepFlows == ASSUME HistoryInv, Accounted, RecorderStep PROVE Keeps
BY RecorderOpensFlow, RecorderWaitsFlow, ProfilesFlow, GiveUpFlows, ShutdownFlows,
   DrainRecorderFlows DEF RecorderStep

-----------------------------------------------------------------------------
(* The captures' steps.                                                       *)

(* A capture in hand, or a recorder that is open: the lane has not ended, and *)
(* nobody waits for the end.                                                  *)
LEMMA Busy ==
    ASSUME Accounted, NEW c \in Context, InHand(c) \/ recorder.pc = "OPEN"
    PROVE  /\ lane.opened = "OK" /\ lane.pc # "ENDED"
           /\ ~ (recorder.pc \in Late /\ ~ recorder.gave_up)
           /\ InHand(c) => c \in db.held
<1>1. InHand(c) => c \in db.held BY DEF Accounted, HoldersKnown
<1>2. CASE recorder.pc = "OPEN" BY <1>1, <1>2, WhileOpen DEF Late
<1>3. CASE InHand(c)
  <2>1. lane.opened = "OK" BY <1>3 DEF Accounted, PhasesAgree, InHand
  <2>2. lane.pc # "ENDED" BY <1>1, <1>3, NowHeld
  <2>3. ~ (recorder.pc \in Late /\ ~ recorder.gave_up)
    BY <1>1, <1>3, Strings DEF Accounted, HoldersKnown
  <2>. QED BY <1>1, <2>1, <2>2, <2>3
<1>. QED BY <1>2, <1>3

InHandAs(x) == x \in {"CAPTURING", "READY", "CLAIMED"}

(* One capture goes on; the other contexts hold what they held.               *)
LEMMA Shifts ==
    ASSUME HistoryInv, Accounted, UNCHANGED <<lane, store, recorder>>,
           NEW c \in Context, NEW x \in CaptureStatus, InHand(c) \/ recorder.pc = "OPEN",
           capture' = [capture EXCEPT ![c] = x], capture[c] # "HANDED", NEW e, e = db',
           NEW after, after = IF x = "HANDED" THEN Handed \cup {c} ELSE Handed,
           Flows(e, queue', lane, store, learning', after), Failed(db) => Failed(e),
           x \in Untaken => Failed(e), e.state = "OPENING" <=> db.state = "OPENING",
           e.closing = db.closing, Holding(e, learning'), c \in e.held <=> InHandAs(x),
           \A o \in Context : o # c => (o \in e.held <=> o \in db.held)
    PROVE  Keeps
<1>1. /\ lane.opened = "OK" /\ lane.pc # "ENDED"
      /\ ~ (recorder'.pc \in Late /\ ~ recorder'.gave_up)
  BY Busy
<1>2. /\ capture \in [Context -> CaptureStatus]
      /\ \A o \in Context : o \in db.held <=> InHand(o)
  BY DEF Accounted, HoldersKnown
<1>3. capture' \in [Context -> CaptureStatus] /\ capture'[c] = x
      /\ \A o \in Context : o # c => capture'[o] = capture[o]
  BY <1>2
<1>4. Handed' = after BY <1>3 DEF Handed
<1>5. \A o \in Context : o \in e.held <=> InHand(o)' BY <1>2, <1>3 DEF InHand, InHandAs
<1>6. MissingTold'
  <2>1. \A o \in Context : capture[o] \in Untaken => Failed(db) BY DEF Accounted, MissingTold
  <2>. QED BY <1>3, <2>1 DEF MissingTold
<1>7. Flowing' BY <1>4 DEF Flowing
<1>8. WayOn BY StaysOn
<1>9. \A o \in Context : o \in db'.held <=> InHand(o)' BY <1>5
<1>. QED BY <1>1, <1>3, <1>6, <1>7, <1>8, <1>9, Aside

(* Only the layout is held or given back.                                     *)
LayoutOnly(d, e) ==
    /\ Becomes(d, e, e.held, d.published) /\ Room(e)
    /\ e.held \subseteq d.held \cup {"layout"} /\ d.held \ {"layout"} \subseteq e.held

LEMMA LayoutStays ==
    ASSUME NEW d, Shaped(d), Room(d) PROVE LayoutOnly(d, d)
BY BecomesItself DEF LayoutOnly

LEMMA LayoutGoes ==
    ASSUME NEW d, Shaped(d), Room(d), NEW e, e = Discard(d, "layout", FALSE)
    PROVE  LayoutOnly(d, e)
<1>1. FALSE \in BOOLEAN OBVIOUS
<1>2. Becomes(d, e, d.held \ {"layout"}, d.published) BY <1>1, DiscardBecomes
<1>3. Room(e) BY <1>2, HoldsNoMore DEF Becomes
<1>. QED BY <1>2, <1>3 DEF LayoutOnly, Becomes

LEMMA SpareIsLayout ==
    ASSUME NEW d, Shaped(d), Room(d) PROVE LayoutOnly(d, SpareLayout(d))
BY LayoutStays, LayoutGoes DEF SpareLayout

LEMMA CacheIsLayout ==
    ASSUME NEW d, Shaped(d), Room(d) PROVE LayoutOnly(d, CacheLayout(d))
<1>. DEFINE w == Discard(d, "layout", FALSE)
            e == Hold(w, "layout")
<1>1. LayoutOnly(d, w) BY LayoutGoes
<1>2. CacheLayout(d) = IF CanCache(w) THEN e ELSE w BY DEF CacheLayout
<1>. HIDE DEF w
<1>3. ASSUME CanCache(w) PROVE LayoutOnly(d, e)
  <2>1. Becomes(w, e, w.held \cup {"layout"}, w.published)
    BY <1>1, HoldBecomes DEF LayoutOnly, Becomes
  <2>. HIDE DEF e
  <2>2. e.held = w.held \cup {"layout"} /\ e.published = w.published BY <2>1 DEF Becomes
  <2>3. Room(w) /\ Items(w) < PendingItems BY <1>1, <1>3 DEF LayoutOnly, CanCache
  <2>4. Room(e)
    <3>1. ASSUME NEW h, e.held = w.held \cup {h} PROVE Room(e)
      BY <2>2, <2>3, <3>1, HoldsOneMore
    <3>. QED BY <2>2, <3>1
  <2>5. Becomes(d, e, e.held, d.published)
    BY <1>1, <2>1, <2>2, BecomesOn DEF LayoutOnly, Becomes
  <2>. QED BY <1>1, <2>2, <2>4, <2>5 DEF LayoutOnly
<1>. QED BY <1>1, <1>2, <1>3

(* What the layout does, and what then becomes of the place for c.            *)
LEMMA ThenShifts ==
    ASSUME HistoryInv, Accounted, UNCHANGED <<queue, lane, store, recorder, learning>>,
           NEW c \in Context, NEW x \in CaptureStatus, InHand(c) \/ recorder.pc = "OPEN",
           capture' = [capture EXCEPT ![c] = x], capture[c] # "HANDED", x # "HANDED",
           NEW d, LayoutOnly(db, d), NEW e, e = db',
           Becomes(d, e, e.held, d.published), Room(e), x \in Untaken => Failed(e),
           \A o : o # c => (o \in e.held <=> o \in d.held), c \in e.held <=> InHandAs(x)
    PROVE  Keeps
<1>1. /\ Becomes(db, d, d.held, db.published) /\ d.published = db.published
      /\ d.held \subseteq db.held \cup {"layout"} /\ db.held \ {"layout"} \subseteq d.held
  BY DEF LayoutOnly, Becomes
<1>2. Becomes(db, e, e.held, db.published) BY <1>1, BecomesOn
<1>3. Flows(e, queue', lane, store, learning', Handed) BY <1>2, NowFlows, FlowsOn
<1>4. \A o : o # c /\ o # "layout" => (o \in e.held <=> o \in db.held) BY <1>1
<1>5. Holding(e, learning')
  <2>1. c # "delta" /\ c # "layout" /\ "delta" # "layout" BY Strings
  <2>2. e.held \subseteq Context \cup {"session", "layout", "delta"} BY <1>4, NowHeld
  <2>3. "delta" \in e.held <=> learning.pending > 0 BY <1>4, <2>1, NowHeld
  <2>. QED BY <2>2, <2>3 DEF Holding
<1>6. \A o \in Context : o # c => (o \in e.held <=> o \in db.held) BY <1>4, Strings
<1>. QED BY <1>2, <1>3, <1>5, <1>6, Shifts DEF Becomes

LEMMA BeginPrepareFlows ==
    ASSUME HistoryInv, Accounted, NEW c \in Context, BeginPrepare(c) PROVE Keeps
<1>. DEFINE d == SpareLayout(db)
<1>0. /\ capture[c] = "NEW" /\ recorder.pc = "OPEN"
      /\ UNCHANGED <<queue, lane, store, recorder, learning>>
      /\ \/ /\ db' = RecordGap(Unreserved(d)) \/ db' = Unreserved(d)
            /\ \E x \in {"REFUSED", "OMITTED"} : capture' = [capture EXCEPT ![c] = x]
         \/ db' = RecordGap(d) /\ capture' = [capture EXCEPT ![c] = "OMITTED"]
         \/ /\ Reservable(d) /\ db' = Hold(d, c)
            /\ capture' = [capture EXCEPT ![c] = "CAPTURING"]
  BY DEF BeginPrepare
<1>1. LayoutOnly(db, d) BY NowFlows, NowHeld, SpareIsLayout
<1>. HIDE DEF d
<1>2. Shaped(d) /\ Room(d) /\ (\A o : o # "layout" => (o \in d.held <=> o \in db.held))
  BY <1>1 DEF LayoutOnly, Becomes
<1>3. c \notin d.held
  <2>1. ~ InHand(c) /\ c # "layout" BY <1>0, Strings DEF InHand
  <2>. QED BY <1>2, <2>1 DEF Accounted, HoldersKnown
<1>4. capture[c] # "HANDED" BY <1>0
<1>5. ASSUME NEW e, e = db', Becomes(d, e, d.held, d.published), Failed(e),
             NEW x \in {"REFUSED", "OMITTED"}, capture' = [capture EXCEPT ![c] = x]
      PROVE  Keeps
  <2>1. Room(e) BY <1>2, <1>5, HoldsNoMore DEF Becomes
  <2>2. e.held = d.held BY <1>5 DEF Becomes
  <2>3. x \in CaptureStatus /\ x # "HANDED" /\ ~ InHandAs(x) BY DEF CaptureStatus, InHandAs
  <2>. QED BY <1>0, <1>1, <1>3, <1>4, <1>5, <2>1, <2>2, <2>3, ThenShifts
<1>6. CASE /\ db' = RecordGap(Unreserved(d)) \/ db' = Unreserved(d)
           /\ \E x \in {"REFUSED", "OMITTED"} : capture' = [capture EXCEPT ![c] = x]
  <2>. DEFINE u == Unreserved(d)
              g == RecordGap(u)
  <2>1. Becomes(d, u, d.held, d.published) /\ Failed(u) BY <1>2, UnreservedBecomes
  <2>. HIDE DEF u
  <2>2. Becomes(u, g, u.held, u.published) /\ Failed(g) BY <2>1, GapBecomes DEF Becomes
  <2>. HIDE DEF g
  <2>3. Becomes(d, g, d.held, d.published) BY <2>1, <2>2, BecomesOn DEF Becomes
  <2>4. db' = u \/ db' = g BY <1>6 DEF u, g
  <2>. QED BY <1>5, <1>6, <2>1, <2>2, <2>3, <2>4
<1>7. CASE db' = RecordGap(d) /\ capture' = [capture EXCEPT ![c] = "OMITTED"]
  <2>1. Becomes(d, RecordGap(d), d.held, d.published) /\ Failed(RecordGap(d))
    BY <1>2, GapBecomes
  <2>. QED BY <1>5, <1>7, <2>1
<1>8. CASE /\ Reservable(d) /\ db' = Hold(d, c)
           /\ capture' = [capture EXCEPT ![c] = "CAPTURING"]
  <2>. DEFINE e == Hold(d, c)
  <2>1. Becomes(d, e, d.held \cup {c}, d.published) BY <1>2, HoldBecomes
  <2>2. e = db' BY <1>8
  <2>. HIDE DEF e
  <2>3. e.held = d.held \cup {c} /\ e.published = d.published BY <2>1 DEF Becomes
  <2>4. Room(e)
    <3>1. Items(d) < PendingItems BY <1>8 DEF Reservable
    <3>. QED BY <1>2, <2>3, <3>1, HoldsOneMore
  <2>5. "CAPTURING" \in CaptureStatus /\ InHandAs("CAPTURING") /\ "CAPTURING" \notin Untaken
    BY DEF CaptureStatus, InHandAs, Untaken
  <2>6. \A o : o # c => (o \in e.held <=> o \in d.held) BY <2>3
  <2>7. c \in e.held BY <2>3
  <2>8. Becomes(d, e, e.held, d.published) BY <2>1, <2>3
  <2>9. /\ InHand(c) \/ recorder.pc = "OPEN"
        /\ capture' = [capture EXCEPT ![c] = "CAPTURING"]
        /\ UNCHANGED <<queue, lane, store, recorder, learning>>
    BY <1>0, <1>8
  <2>10. "CAPTURING" # "HANDED" /\ ("CAPTURING" \in Untaken => Failed(e)) BY <2>5
  <2>. DEFINE x == "CAPTURING"
  <2>11. /\ x \in CaptureStatus /\ InHandAs(x) /\ x # "HANDED" /\ (x \in Untaken => Failed(e))
         /\ capture' = [capture EXCEPT ![c] = x]
    BY <2>5, <2>9, <2>10
  <2>. HIDE DEF x
  <2>. QED BY ONLY HistoryInv, Accounted, <1>1, <1>4, <2>2, <2>4, <2>6, <2>7, <2>8, <2>9, <2>11, ThenShifts
<1>. QED BY <1>0, <1>6, <1>7, <1>8

(* A capture is given back, and told to be missing where that is due.         *)
LEMMA GivesBackFlows ==
    ASSUME HistoryInv, Accounted, UNCHANGED <<queue, lane, store, recorder, learning>>,
           NEW c \in Context, InHand(c), NEW x \in {"REFUSED", "OMITTED"},
           capture' = [capture EXCEPT ![c] = x], NEW d, LayoutOnly(db, d),
           \/ db' = Discard(d, c, FALSE) /\ x = "REFUSED"
           \/ db' = RecordGap(Discard(d, c, FALSE)) /\ x = "REFUSED"
           \/ db' = Discard(d, c, TRUE)
    PROVE  Keeps
<1>0. /\ Shaped(d) /\ Room(d) /\ c \in d.held /\ capture[c] # "HANDED"
      /\ TRUE \in BOOLEAN /\ FALSE \in BOOLEAN
  <2>1. c \in db.held /\ c # "layout" BY Busy, Strings
  <2>. QED BY <2>1 DEF LayoutOnly, Becomes, InHand
<1>1. ASSUME NEW e, e = db', Becomes(d, e, d.held \ {c}, d.published),
             x = "OMITTED" => Failed(e)
      PROVE  Keeps
  <2>1. Room(e) BY <1>0, <1>1, HoldsNoMore DEF Becomes
  <2>2. e.held = d.held \ {c} BY <1>1 DEF Becomes
  <2>3. x \in CaptureStatus /\ x # "HANDED" /\ ~ InHandAs(x) /\ (x \in Untaken => x = "OMITTED")
    BY DEF CaptureStatus, InHandAs, Untaken
  <2>. QED BY <1>0, <1>1, <2>1, <2>2, <2>3, ThenShifts
<1>. DEFINE f == Discard(d, c, FALSE)
            g == RecordGap(f)
            t == Discard(d, c, TRUE)
<1>2. Becomes(d, f, d.held \ {c}, d.published) BY <1>0, DiscardBecomes
<1>3. Becomes(d, t, d.held \ {c}, d.published) /\ Failed(t) BY <1>0, DiscardBecomes
<1>4. (db' = f /\ x = "REFUSED") \/ (db' = g /\ x = "REFUSED") \/ db' = t OBVIOUS
<1>. HIDE DEF f, t
<1>5. Becomes(f, g, f.held, f.published) BY <1>2, GapBecomes DEF Becomes
<1>. HIDE DEF g
<1>6. Becomes(d, g, d.held \ {c}, d.published) BY <1>2, <1>5, BecomesOn DEF Becomes
<1>. QED BY <1>1, <1>2, <1>3, <1>4, <1>6

LEMMA FinishPrepareFlows ==
    ASSUME HistoryInv, Accounted, NEW c \in Context, FinishPrepare(c) PROVE Keeps
<1>. DEFINE S == {CacheLayout(db)} \cup (IF "layout" \in db.held THEN {db} ELSE {})
            readied == [capture EXCEPT ![c] = "READY"]
            refused == [capture EXCEPT ![c] = "REFUSED"]
            omitted == [capture EXCEPT ![c] = "OMITTED"]
<1>0. /\ capture[c] = "CAPTURING" /\ UNCHANGED <<queue, lane, store, recorder, learning>>
      /\ \/ \E d \in S : \/ db' = d /\ capture' = readied
                         \/ db' = Discard(d, c, FALSE) /\ capture' = refused
         \/ db' = RecordGap(Discard(db, c, FALSE)) /\ capture' = refused
         \/ db' = Discard(db, c, TRUE) /\ capture' = omitted
  <2>1. /\ capture[c] = "CAPTURING" /\ UNCHANGED <<queue, lane, store, recorder, learning>>
        /\ \/ \E d \in S : IF Accepting THEN db' = d /\ capture' = readied
                           ELSE db' = Discard(d, c, FALSE) /\ capture' = refused
           \/ /\ db' = IF strict THEN RecordGap(Discard(db, c, FALSE)) ELSE Discard(db, c, TRUE)
              /\ capture' = [capture EXCEPT ![c] = IF strict THEN "REFUSED" ELSE "OMITTED"]
    BY DEF FinishPrepare
  <2>2. CASE \E d \in S : IF Accepting THEN db' = d /\ capture' = readied
                           ELSE db' = Discard(d, c, FALSE) /\ capture' = refused
    <3>. HIDE DEF S, readied, refused, omitted
    <3>. QED BY <2>1, <2>2
  <2>3. CASE /\ db' = IF strict THEN RecordGap(Discard(db, c, FALSE)) ELSE Discard(db, c, TRUE)
             /\ capture' = [capture EXCEPT ![c] = IF strict THEN "REFUSED" ELSE "OMITTED"]
    BY <2>1, <2>3
  <2>. QED BY <2>1, <2>2, <2>3
<1>1. LayoutOnly(db, db) /\ LayoutOnly(db, CacheLayout(db))
  BY NowFlows, NowHeld, LayoutStays, CacheIsLayout
<1>2. \A d \in S : LayoutOnly(db, d)
  <2>1. \A d \in S : d = CacheLayout(db) \/ d = db OBVIOUS
  <2>. HIDE DEF S
  <2>. QED BY <1>1, <2>1
<1>3. InHand(c) BY <1>0 DEF InHand
<1>. HIDE DEF S
<1>4. ASSUME NEW d \in S, db' = d, capture' = readied PROVE Keeps
  <2>1. LayoutOnly(db, d) BY <1>2
  <2>2. Becomes(d, d, d.held, d.published) /\ Room(d)
    BY <2>1, BecomesItself DEF LayoutOnly, Becomes
  <2>3. c \in d.held
    <3>1. c \in db.held /\ c # "layout" BY <1>3, Busy, Strings
    <3>. QED BY <2>1, <3>1 DEF LayoutOnly
  <2>4. "READY" \in CaptureStatus /\ InHandAs("READY") /\ "READY" \notin Untaken
        /\ capture[c] # "HANDED"
    BY <1>0 DEF CaptureStatus, InHandAs, Untaken
  <2>. QED BY <1>0, <1>3, <1>4, <2>1, <2>2, <2>3, <2>4, ThenShifts
<1>5. ASSUME NEW d \in S, db' = Discard(d, c, FALSE), capture' = refused PROVE Keeps
  BY <1>0, <1>2, <1>3, <1>5, GivesBackFlows
<1>6. CASE db' = RecordGap(Discard(db, c, FALSE)) /\ capture' = refused
  BY <1>0, <1>1, <1>3, <1>6, GivesBackFlows
<1>7. CASE db' = Discard(db, c, TRUE) /\ capture' = omitted
  BY <1>0, <1>1, <1>3, <1>7, GivesBackFlows
<1>. HIDE DEF readied, refused, omitted
<1>. QED BY <1>0, <1>4, <1>5, <1>6, <1>7

LEMMA TakenOverFlows ==
    ASSUME HistoryInv, Accounted, NEW c \in Context, Claim(c) \/ Abandon(c) PROVE Keeps
<1>0. capture[c] = "READY" /\ UNCHANGED <<queue, lane, store, recorder, learning>>
  BY DEF Claim, Abandon
<1>1. InHand(c) BY <1>0 DEF InHand
<1>2. LayoutOnly(db, db) BY NowFlows, NowHeld, LayoutStays
<1>3. CASE Abandon(c)
  BY <1>0, <1>1, <1>2, <1>3, GivesBackFlows DEF Abandon
<1>4. CASE Claim(c)
  <2>1. db' = db /\ capture' = [capture EXCEPT ![c] = "CLAIMED"] BY <1>4 DEF Claim
  <2>2. Becomes(db, db, db.held, db.published) BY NowFlows, BecomesItself
  <2>3. "CLAIMED" \in CaptureStatus /\ InHandAs("CLAIMED") /\ "CLAIMED" \notin Untaken
        /\ capture[c] # "HANDED"
    BY <1>0 DEF CaptureStatus, InHandAs, Untaken
  <2>4. c \in db.held BY <1>1, Busy
  <2>. QED BY <1>0, <1>1, <1>2, <2>1, <2>2, <2>3, <2>4, NowHeld, ThenShifts
<1>. QED BY <1>3, <1>4

(* A contribution is accumulated and has its place, or it is lost and told.   *)
LEMMA ContributesFlow ==
    ASSUME HistoryInv, Accounted, NEW T, T = Contribute(db, learning)
    PROVE  /\ Becomes(db, T.db, T.db.held, db.published)
           /\ Flows(T.db, queue, lane, store, T.learning, Handed)
           /\ Holding(T.db, T.learning) /\ \A c \in Context : c \in T.db.held <=> c \in db.held
<1>. DEFINE x == learning.made + 1
            k == learning.pending + 1
            y == learning.lost + 1
<1>0. /\ learning \in LearnRecord /\ learning.made \in Int /\ learning.pending \in Nat
      /\ learning.lost \in Int /\ learning.acknowledged \in Int
  BY NowHeld DEF LearnRecord
<1>5. x \in Int /\ k \in Nat /\ y \in Int BY <1>0
<1>6. learning \in LearnRecord BY <1>0
<1>1. ASSUME NEW e, NEW b \in LearnRecord, Becomes(db, e, e.held, db.published), Holding(e, b),
             \A c \in Context : c \in e.held <=> c \in db.held,
             Failed(e) \/ b.lost = learning.lost,
             b.made - b.acknowledged - b.lost - b.pending =
               learning.made - learning.acknowledged - learning.lost - learning.pending,
             T = [db |-> e, learning |-> b]
      PROVE  /\ Becomes(db, T.db, T.db.held, db.published)
             /\ Flows(T.db, queue, lane, store, T.learning, Handed)
             /\ Holding(T.db, T.learning) /\ \A c \in Context : c \in T.db.held <=> c \in db.held
  <2>1. Flows(e, queue, lane, store, learning, Handed) BY <1>1, NowFlows, FlowsOn
  <2>2. Flows(e, queue, lane, store, b, Handed) BY <1>1, <2>1, NowFlows, FlowsLearns
  <2>3. T.db = e /\ T.learning = b BY <1>1
  <2>. QED BY <1>1, <2>2, <2>3
<1>2. CASE learning.pending > 0
  <2>. DEFINE b == [learning EXCEPT !.made = x, !.pending = k]
  <2>1. T = [db |-> db, learning |-> b] BY <1>2 DEF Contribute
  <2>2. /\ b \in LearnRecord /\ b.made = x /\ b.pending = k /\ b.lost = learning.lost
        /\ b.acknowledged = learning.acknowledged
    <3>1. b = [learning EXCEPT !.made = x, !.pending = k] OBVIOUS
    <3>. HIDE DEF x, k, b
    <3>2. learning.lost \in Int BY <1>0
    <3>. QED BY ONLY <1>5, <1>6, <3>1, <3>2 DEF LearnRecord
  <2>. HIDE DEF b
  <2>3. b.made - b.acknowledged - b.lost - b.pending =
            learning.made - learning.acknowledged - learning.lost - learning.pending
    BY <1>0, <2>2
  <2>4. Holding(db, b)
    <3>1. b.pending > 0 BY <1>0, <2>2
    <3>. QED BY <1>2, <3>1, NowHeld DEF Holding
  <2>5. Becomes(db, db, db.held, db.published) BY NowFlows, BecomesItself
  <2>. QED BY <1>1, <2>1, <2>2, <2>3, <2>4, <2>5
<1>3. CASE learning.pending = 0 /\ CanCache(db)
  <2>. DEFINE b == [learning EXCEPT !.made = x, !.pending = 1]
              e == Hold(db, "delta")
  <2>1. T = [db |-> e, learning |-> b] BY <1>0, <1>3 DEF Contribute
  <2>2. /\ b \in LearnRecord /\ b.made = x /\ b.pending = 1 /\ b.lost = learning.lost
        /\ b.acknowledged = learning.acknowledged
    <3>. DEFINE v == 1
    <3>1. b = [learning EXCEPT !.made = x, !.pending = v] /\ v \in Nat OBVIOUS
    <3>. HIDE DEF x, v, b
    <3>2. learning.lost \in Int BY <1>0
    <3>3. /\ b \in LearnRecord /\ b.made = x /\ b.pending = v /\ b.lost = learning.lost
          /\ b.acknowledged = learning.acknowledged
      BY ONLY <1>5, <1>6, <3>1, <3>2 DEF LearnRecord
    <3>. QED BY <3>3 DEF v
  <2>. HIDE DEF b
  <2>3. b.made - b.acknowledged - b.lost - b.pending =
            learning.made - learning.acknowledged - learning.lost - learning.pending
    BY <1>0, <1>3, <2>2
  <2>4. Becomes(db, e, db.held \cup {"delta"}, db.published) BY NowFlows, HoldBecomes
  <2>. HIDE DEF e
  <2>5. e.held = db.held \cup {"delta"} /\ e.published = db.published BY <2>4 DEF Becomes
  <2>6. Room(e)
    <3>1. Items(db) < PendingItems BY <1>3 DEF CanCache
    <3>2. ASSUME NEW h, e.held = db.held \cup {h} PROVE Room(e)
      BY <2>5, <3>1, <3>2, NowHeld, HoldsOneMore
    <3>. QED BY <2>5, <3>2
  <2>7. Holding(e, b)
    <3>1. b.pending > 0 BY <2>2
    <3>. QED BY <2>5, <2>6, <3>1, NowHeld DEF Holding
  <2>8. \A c \in Context : c \in e.held <=> c \in db.held BY <2>5, Strings
  <2>9. Becomes(db, e, e.held, db.published) BY <2>4, <2>5
  <2>. QED BY <1>1, <2>1, <2>2, <2>3, <2>7, <2>8, <2>9
<1>4. CASE learning.pending = 0 /\ ~ CanCache(db)
  <2>. DEFINE b == [learning EXCEPT !.made = x, !.lost = y]
              e == RecordGap(db)
  <2>1. T = [db |-> e, learning |-> b] BY <1>0, <1>4 DEF Contribute
  <2>2. /\ b \in LearnRecord /\ b.made = x /\ b.lost = y /\ b.pending = learning.pending
        /\ b.acknowledged = learning.acknowledged
    <3>1. b = [learning EXCEPT !.made = x, !.lost = y] OBVIOUS
    <3>. HIDE DEF x, y, b
    <3>. QED BY ONLY <1>0, <1>5, <1>6, <3>1 DEF LearnRecord
  <2>. HIDE DEF b
  <2>3. b.made - b.acknowledged - b.lost - b.pending =
            learning.made - learning.acknowledged - learning.lost - learning.pending
    BY <1>0, <2>2
  <2>4. Becomes(db, e, db.held, db.published) /\ Failed(e) BY NowFlows, GapBecomes
  <2>. HIDE DEF e
  <2>5. e.held = db.held /\ e.published = db.published BY <2>4 DEF Becomes
  <2>6. Room(e) BY <2>5, NowHeld, HoldsNoMore
  <2>7. Holding(e, b) BY <2>2, <2>5, <2>6, NowHeld DEF Holding
  <2>8. \A c \in Context : c \in e.held <=> c \in db.held BY <2>5
  <2>9. Becomes(db, e, e.held, db.published) BY <2>4, <2>5
  <2>. QED BY <1>1, <2>1, <2>2, <2>3, <2>4, <2>7, <2>8, <2>9
<1>. QED BY <1>0, <1>2, <1>3, <1>4

LEMMA FinalizeFlows ==
    ASSUME HistoryInv, Accounted, NEW c \in Context, Finalize(c) PROVE Keeps
<1>. DEFINE T == IF c \in Timed THEN Contribute(db, learning)
                 ELSE [db |-> db, learning |-> learning]
            d == T.db
<1>0. /\ recorder.pc = "OPEN" /\ UNCHANGED <<lane, store, recorder>> /\ learning' = T.learning
      /\ \/ /\ capture[c] = "OMITTED" /\ db' = d /\ UNCHANGED queue
            /\ capture' = [capture EXCEPT ![c] = "UNRECORDED"]
         \/ /\ capture[c] = "CLAIMED" /\ db' = Publish(d, c)
            /\ queue' = Append(queue, Job("CONTEXT", c, d.admitted + 1, 0))
            /\ capture' = [capture EXCEPT ![c] = "HANDED"]
         \/ /\ capture[c] = "CLAIMED" /\ db' = Discard(RecordGap(d), c, FALSE) /\ UNCHANGED queue
            /\ capture' = [capture EXCEPT ![c] = "LOST"]
  BY DEF Finalize
<1>1. /\ Becomes(db, d, d.held, db.published)
      /\ Flows(d, queue, lane, store, learning', Handed)
      /\ Holding(d, learning') /\ \A o \in Context : o \in d.held <=> o \in db.held
  <2>1. CASE c \in Timed
    <3>1. T = Contribute(db, learning) BY <2>1
    <3>. HIDE DEF T
    <3>. QED BY <1>0, <3>1, ContributesFlow
  <2>2. CASE c \notin Timed
    <3>1. d = db /\ learning' = learning BY <1>0, <2>2
    <3>2. Holding(db, learning) BY NowHeld DEF Holding
    <3>. QED BY <3>1, <3>2, NowFlows, BecomesItself
  <2>. QED BY <2>1, <2>2
<1>2. Good(d, queue, lane, store)
  <2>1. CASE c \in Timed
    <3>1. T = Contribute(db, learning) BY <2>1
    <3>. HIDE DEF T
    <3>. QED BY <3>1, Contributes
  <2>2. CASE c \notin Timed
    <3>1. d = db BY <2>2
    <3>. QED BY <3>1, NowFlows
  <2>. QED BY <2>1, <2>2
<1>. HIDE DEF d, T
<1>3. Shaped(d) /\ Room(d) /\ d.published = db.published BY <1>1 DEF Becomes, Holding
<1>4. capture[c] # "HANDED" BY <1>0
<1>5. capture[c] = "CLAIMED" => c \in d.held
  <2>1. capture[c] = "CLAIMED" => InHand(c) BY DEF InHand
  <2>. QED BY <1>1, <2>1 DEF Accounted, HoldersKnown
<1>6. CASE /\ capture[c] = "OMITTED" /\ db' = d /\ UNCHANGED queue
           /\ capture' = [capture EXCEPT ![c] = "UNRECORDED"]
  <2>1. Failed(db)
    <3>1. capture[c] \in Untaken BY <1>6 DEF Untaken
    <3>. QED BY <3>1 DEF Accounted, MissingTold
  <2>2. c \notin d.held
    <3>1. ~ InHand(c) BY <1>6 DEF InHand
    <3>. QED BY <1>1, <3>1 DEF Accounted, HoldersKnown
  <2>3. "UNRECORDED" \in CaptureStatus /\ ~ InHandAs("UNRECORDED") BY DEF CaptureStatus, InHandAs
  <2>4. /\ Failed(db) => Failed(d)
        /\ d.state = "OPENING" <=> db.state = "OPENING"
        /\ d.closing = db.closing
    BY <1>1 DEF Becomes
  <2>5. Flows(d, queue', lane, store, learning', Handed) BY <1>1, <1>6
  <2>. QED BY <1>0, <1>1, <1>4, <1>6, <2>1, <2>2, <2>3, <2>4, <2>5, Shifts
<1>7. CASE /\ capture[c] = "CLAIMED" /\ db' = Publish(d, c)
           /\ queue' = Append(queue, Job("CONTEXT", c, d.admitted + 1, 0))
           /\ capture' = [capture EXCEPT ![c] = "HANDED"]
  <2>. DEFINE e == Publish(d, c)
              after == Handed \cup {c}
  <2>1. /\ Becomes(d, e, d.held \ {c}, d.published \cup {d.admitted + 1})
        /\ e.admitted = d.admitted + 1
    BY <1>3, PublishBecomes
  <2>2. e = db' BY <1>7
  <2>. HIDE DEF e
  <2>3. e.held = d.held \ {c} /\ e.published = d.published \cup {d.admitted + 1}
    BY <2>1 DEF Becomes
  <2>4. Room(e) BY <1>3, <1>5, <1>7, <2>3, PublishesInPlace
  <2>5. Holding(e, learning') BY <1>1, <2>3, <2>4, Strings DEF Holding
  <2>6. Flows(e, queue', lane, store, learning', after)
    <3>1. c \in Anyone /\ c \notin Handed BY <1>4 DEF Anyone, Handed
    <3>2. learning' \in LearnRecord /\ learning'.pending = learning'.pending - 0
      BY <1>1 DEF Flows, Balanced, LearnRecord
    <3>3. d.admitted + 1 <= e.admitted BY <1>3, <2>1 DEF Shaped
    <3>. QED BY <1>1, <1>2, <1>7, <2>1, <3>1, <3>2, <3>3, FlowsPublishes
  <2>7. "HANDED" \in CaptureStatus /\ ~ InHandAs("HANDED") /\ "HANDED" \notin Untaken
    BY DEF CaptureStatus, InHandAs, Untaken
  <2>8. /\ Failed(db) => Failed(e)
        /\ e.state = "OPENING" <=> db.state = "OPENING"
        /\ e.closing = db.closing
    BY <1>1, <2>1 DEF Becomes
  <2>9. \A o \in Context : o # c => (o \in e.held <=> o \in db.held) BY <1>1, <2>3
  <2>10. c \notin e.held BY <2>3
  <2>. QED BY <1>0, <1>4, <1>7, <2>2, <2>5, <2>6, <2>7, <2>8, <2>9, <2>10, Shifts
<1>8. CASE /\ capture[c] = "CLAIMED" /\ db' = Discard(RecordGap(d), c, FALSE) /\ UNCHANGED queue
           /\ capture' = [capture EXCEPT ![c] = "LOST"]
  <2>. DEFINE g == RecordGap(d)
              e == Discard(g, c, FALSE)
  <2>0. FALSE \in BOOLEAN /\ e = db' BY <1>8
  <2>1. Becomes(d, g, d.held, d.published) /\ Failed(g) BY <1>3, GapBecomes
  <2>. HIDE DEF g
  <2>2. Becomes(g, e, g.held \ {c}, g.published) BY <2>0, <2>1, DiscardBecomes DEF Becomes
  <2>. HIDE DEF e
  <2>3. Becomes(d, e, d.held \ {c}, d.published) /\ Failed(e)
    BY <2>1, <2>2, BecomesOn DEF Becomes
  <2>4. e.held = d.held \ {c} /\ e.published = d.published BY <2>3 DEF Becomes
  <2>5. Room(e) BY <1>3, <2>4, HoldsNoMore
  <2>6. Holding(e, learning') BY <1>1, <2>4, <2>5, Strings DEF Holding
  <2>7. Flows(e, queue', lane, store, learning', Handed) BY <1>1, <1>8, <2>3, FlowsOn
  <2>8. "LOST" \in CaptureStatus /\ ~ InHandAs("LOST") BY DEF CaptureStatus, InHandAs
  <2>9. /\ e.state = "OPENING" <=> db.state = "OPENING"
        /\ e.closing = db.closing
    BY <1>1, <2>3 DEF Becomes
  <2>10. \A o \in Context : o # c => (o \in e.held <=> o \in db.held) BY <1>1, <2>4
  <2>11. c \notin e.held BY <2>4
  <2>. QED BY <1>0, <1>4, <1>8, <2>0, <2>3, <2>6, <2>7, <2>8, <2>9, <2>10, <2>11, Shifts
<1>. QED BY <1>0, <1>6, <1>7, <1>8

-----------------------------------------------------------------------------
(* Nothing is lost untold: it is so at first, every step keeps it, and with   *)
(* it the model's own invariant.                                              *)

LEMMA AccountStarts == ASSUME Init PROVE Accounted
<1>0. /\ db.state = "OPENING" /\ db.closing = FALSE /\ db.admitted = 0 /\ db.first = NoFailure
      /\ db.held = {} /\ db.published = {} /\ queue = << >> /\ store.log = << >>
      /\ lane.pc = "OPENING" /\ lane.opened = "NO" /\ lane.jobs = << >>
      /\ capture = [c \in Context |-> "NEW"]
      /\ recorder.pc = "OPENING" /\ recorder.gave_up = FALSE
      /\ learning = [made |-> 0, pending |-> 0, acknowledged |-> 0, lost |-> 0]
  BY DEF Init, Idle
<1>1. Settings
  <2>1. MaxFaults \in Nat BY LaneAssumption
  <2>. QED BY <2>1 DEF Settings, Init
<1>2. PhasesAgree BY <1>0 DEF PhasesAgree
<1>3. HoldersKnown
  <2>1. IsFiniteSet({}) /\ Cardinality({}) = 0 BY FS_EmptySet
  <2>2. Room(db) BY <1>0, <2>1, LaneAssumption DEF Room, Items
  <2>3. capture \in [Context -> CaptureStatus] /\ \A c \in Context : ~ InHand(c)
    BY <1>0 DEF CaptureStatus, InHand
  <2>. QED BY <1>0, <2>2, <2>3 DEF HoldersKnown, Late
<1>4. MissingTold BY <1>0 DEF MissingTold, Untaken
<1>5. Flowing
  <2>0. << >> \in Seq(LogRecord) /\ DOMAIN << >> = {} BY EmptySeq
  <2>1. Flying(queue, lane) = {} BY <1>0, <2>0 DEF Flying, Pending
  <2>2. Tags(queue, lane, store) = {} BY <1>0, EmptyBatch DEF Tags
  <2>3. Handed = {} BY <1>0 DEF Handed
  <2>4. Ordered(store.log) BY <1>0, <2>0 DEF Ordered
  <2>5. Carried(queue, lane) = 0 BY <1>0, ContributedEmpty DEF Carried
  <2>6. Balanced(learning, queue, lane) BY <1>0, <2>5, EmptyBatch DEF Balanced, LearnRecord
  <2>7. LossTold(learning, lane, Failed(db)) BY <1>0 DEF LossTold
  <2>8. OneNumber(Handed, db.admitted, Tags(queue, lane, store)) BY <2>2, <2>3 DEF OneNumber
  <2>. QED BY <1>0, <2>1, <2>4, <2>6, <2>7, <2>8 DEF Flowing, Flows
<1>. QED BY <1>1, <1>2, <1>3, <1>4, <1>5 DEF Accounted

LEMMA AccountsKept == ASSUME HistoryInv, Accounted, [Next]_vars PROVE Accounted'
<1>1. Settings' BY SettingsKept DEF Accounted
<1>2. CASE UNCHANGED vars
  <2>1. Accounted' <=> Accounted
    BY <1>2 DEF vars, Accounted, Settings, PhasesAgree, HoldersKnown, MissingTold, Flowing,
       InHand, Handed
  <2>. QED BY <2>1
<1>3. ASSUME NEW c \in Context,
             BeginPrepare(c) \/ FinishPrepare(c) \/ Claim(c) \/ Abandon(c) \/ Finalize(c)
      PROVE  Keeps
  BY <1>3, BeginPrepareFlows, FinishPrepareFlows, TakenOverFlows, FinalizeFlows
<1>4. ASSUME NEW f \in Flusher, Flush(f) PROVE Keeps BY <1>4, FlushFlows
<1>5. ASSUME NEW r \in Reader, Request(r) PROVE Keeps BY <1>5, RequestFlows
<1>6. ASSUME LaneStep \/ Checkpoint \/ MaintenanceFails \/ RecorderStep \/ RecorderTimesOut
             \/ CloseRecorder \/ StopWaiting
      PROVE  Keeps
  BY <1>6, LaneStepFlows, LanesideFlows, RecorderStepFlows, RecorderWaitsFlow,
     CloseRecorderFlows, GiveUpFlows
<1>7. Keeps \/ UNCHANGED vars BY <1>3, <1>4, <1>5, <1>6 DEF Next, Done
<1>8. Keeps => Accounted' BY <1>1 DEF Keeps, Accounted
<1>. QED BY <1>2, <1>7, <1>8

LEMMA LogIncreases ==
    ASSUME NEW log \in Seq(LogRecord), Ordered(log)
    PROVE  \A i, j \in DOMAIN log : i < j => log[i].number < log[j].number
<1>0. /\ Len(log) \in Nat /\ DOMAIN log = 1..Len(log)
      /\ \A i \in 1..Len(log) : log[i].number \in Nat
  <2>1. \A i \in 1..Len(log) : log[i] \in LogRecord BY ElementOfSeq
  <2>. QED BY <2>1, LenProperties DEF LogRecord
<1>. DEFINE T == {n \in 0..Len(log) :
                    \A i, j \in 1..n : i < j => log[i].number < log[j].number}
<1>1. 0 \in T BY <1>0
<1>2. ASSUME NEW n \in 0..Len(log), n \in T, n < Len(log) PROVE n + 1 \in T
  <2>1. n + 1 \in 0..Len(log) /\ n + 1 \in 1..Len(log) BY <1>0, <1>2
  <2>2. ASSUME NEW i \in 1..n PROVE log[i].number < log[n + 1].number
    <3>1. n \in 1..Len(log) /\ n + 1 > 1 /\ (n + 1) - 1 = n /\ i \in 1..Len(log)
      BY <1>0, <1>2
    <3>2. log[n + 1].number > log[n].number BY <1>0, <2>1, <3>1 DEF Ordered
    <3>3. i = n \/ log[i].number < log[n].number
      <4>1. i = n \/ (i < n /\ n \in 1..n) BY <3>1
      <4>. QED BY <1>2, <4>1
    <3>4. log[i].number \in Nat /\ log[n].number \in Nat /\ log[n + 1].number \in Nat
      BY <1>0, <2>1, <3>1
    <3>. QED BY <3>2, <3>3, <3>4
  <2>3. ASSUME NEW i \in 1..(n + 1), NEW j \in 1..(n + 1), i < j
        PROVE  log[i].number < log[j].number
    <3>1. i \in 1..n /\ (j \in 1..n \/ j = n + 1) BY <1>0, <2>3
    <3>. QED BY <1>2, <2>2, <2>3, <3>1
  <2>. QED BY <2>1, <2>3
<1>3. Len(log) \in T
  <2>. HIDE DEF T
  <2>1. \A n \in 0..Len(log) : n \in T BY <1>0, <1>1, <1>2, Inductive
  <2>. QED BY <1>0, <2>1
<1>. QED BY <1>0, <1>3

(* No context is stored twice.                                                *)
LEMMA NoneTwice ==
    ASSUME HistoryInv, Accounted, NEW c \in Context PROVE Cardinality(Entries(c)) <= 1
<1>1. /\ store.log \in Seq(LogRecord) /\ Ordered(store.log)
      /\ OneNumber(Handed, db.admitted, Tags(queue, lane, store))
  BY NowFlows DEF Flows
<1>2. /\ Len(store.log) \in Nat /\ DOMAIN store.log = 1..Len(store.log)
      /\ \A i \in 1..Len(store.log) : store.log[i].number \in Nat
  <2>1. \A i \in 1..Len(store.log) : store.log[i] \in LogRecord BY <1>1, ElementOfSeq
  <2>. QED BY <1>1, <2>1, LenProperties DEF LogRecord
<1>3. \A i \in 1..Len(store.log) : TagOf(store.log[i]) \in Tags(queue, lane, store)
  BY <1>2 DEF Tags, BatchTags
<1>4. ASSUME NEW i \in Entries(c), NEW j \in Entries(c) PROVE i = j
  <2>1. /\ i \in 1..Len(store.log) /\ j \in 1..Len(store.log)
        /\ store.log[i].of = c /\ store.log[j].of = c
    BY DEF Entries
  <2>2. TagOf(store.log[i])[1] = c /\ TagOf(store.log[j])[1] = c
    BY <2>1 DEF TagOf
  <2>3. PICK n \in 1..db.admitted : \A t \in Tags(queue, lane, store) : t[1] = c <=> t[2] = n
    BY <1>1, <1>3, <2>1, <2>2 DEF OneNumber
  <2>4. store.log[i].number = n /\ store.log[j].number = n
    BY <1>3, <2>1, <2>2, <2>3 DEF TagOf
  <2>5. ~ (i < j) /\ ~ (j < i)
    <3>1. \A k, l \in DOMAIN store.log : k < l => store.log[k].number < store.log[l].number
      BY <1>1, LogIncreases
    <3>. QED BY <1>2, <2>1, <2>4, <3>1
  <2>. QED BY <2>1, <2>5
<1>5. CASE Entries(c) = {} BY <1>5, FS_EmptySet
<1>6. CASE Entries(c) # {}
  <2>1. PICK i : i \in Entries(c) BY <1>6
  <2>2. Entries(c) = {i} BY <1>4, <2>1
  <2>3. Cardinality({i}) = 1 BY FS_Singleton
  <2>. QED BY <2>2, <2>3
<1>. QED BY <1>5, <1>6

LEMMA NothingUntold == ASSUME HistoryInv, Accounted PROVE NothingLostUntold
<1>0. /\ Good(db, queue, lane, store) /\ Flows(db, queue, lane, store, learning, Handed)
      /\ Bounded(db) /\ lane \in LaneRecord /\ LaneOk(lane, store, db)
      /\ db.published = Flying(queue, lane)
  BY NowFlows DEF Flows
<1>1. TypeOK
  <2>1. strict \in BOOLEAN /\ faults \in 0..MaxFaults BY DEF Accounted, Settings
  <2>2. db \in DbRecord BY <1>0 DEF Bounded
  <2>3. /\ db.state \in {"OPENING", "OPEN", "DEGRADED", "CLOSING", "CLOSED"}
        /\ db.closing \in BOOLEAN /\ db.unavailable \in BOOLEAN /\ db.admitted \in Nat
        /\ db.settled \in Nat /\ db.first \in Nat \cup {NoFailure}
        /\ db.asked \in [Caller -> AskRecord]
    BY <2>2 DEF DbRecord
  <2>4. db.settled \in 0..db.admitted /\ db.first \in {NoFailure} \cup 0..db.admitted
    BY <1>0, <2>3 DEF Bounded
  <2>5. db.published \subseteq 1..db.admitted
    <3>1. Pending(queue) \subseteq 1..db.admitted BY <1>0 DEF Good, QueueOk, Pending
    <3>2. Numbers(lane.jobs) \subseteq 1..db.admitted BY <1>0 DEF LaneOk
    <3>. QED BY <1>0, <3>1, <3>2 DEF Flying
  <2>6. db.asked \in [Caller -> [status : Status, target : 0..db.admitted]]
    <3>1. ASSUME NEW c \in Caller
          PROVE  db.asked[c] \in [status : Status, target : 0..db.admitted]
      <4>1. db.asked[c] \in [status : Status, target : Nat] BY <2>3 DEF AskRecord
      <4>2. db.asked[c].target \in 0..db.admitted BY <1>0, <2>3, <4>1 DEF Bounded
      <4>. QED BY <4>1, <4>2
    <3>. QED BY <2>3, <3>1
  <2>7. lane.pc \in {"OPENING", "IDLE", "BATCH", "WRITE", "RELEASE", "ACKNOWLEDGE",
                     "SETTLE", "ENDED"}
    BY <1>0 DEF LaneRecord, Working
  <2>8. db.held \subseteq Context \cup {"session", "layout", "delta"} BY NowHeld
  <2>9. capture \in [Context -> CaptureStatus] BY DEF Accounted, HoldersKnown
  <2>. QED BY <2>1, <2>3, <2>4, <2>5, <2>6, <2>7, <2>8, <2>9 DEF TypeOK, CaptureStatus
<1>2. ReservationsOwned
  <2>1. db.held \cap Context = {c \in Context : InHand(c)} BY DEF Accounted, HoldersKnown
  <2>2. "delta" \in db.held <=> learning.pending > 0 BY NowHeld
  <2>3. recorder.pc \in {"DRAINING", "ENDING", "CLOSED"} /\ ~ recorder.gave_up =>
            db.held \subseteq {"session"}
    BY DEF Accounted, HoldersKnown, Late
  <2>4. Items(db) <= PendingItems BY NowHeld DEF Room
  <2>. QED BY <1>0, <2>1, <2>2, <2>3, <2>4 DEF ReservationsOwned, Flying, Pending, Published
<1>3. \A c \in Context : Cardinality(Entries(c)) <= 1 BY NoneTwice
<1>4. ASSUME lane.pc = "ENDED"
      PROVE  /\ learning.made = learning.acknowledged + learning.lost
             /\ db.first = NoFailure =>
                 /\ learning.lost = 0
                 /\ \A c \in Context :
                     /\ capture[c] \in {"HANDED", "NEW", "REFUSED"}
                     /\ capture[c] = "HANDED" => Entries(c) # {}
  <2>1. db.held = {} /\ queue = << >> /\ learning.pending = 0
    BY <1>4, NowHeld DEF Accounted, PhasesAgree
  <2>2. learning.made = learning.acknowledged + learning.lost
    <3>1. Carried(queue, lane) = 0 BY <1>4, <2>1, ContributedEmpty DEF Carried
    <3>2. learning \in LearnRecord /\ learning.made =
              learning.acknowledged + learning.lost + learning.pending + Carried(queue, lane)
      BY <1>0 DEF Flows, Balanced
    <3>. QED BY <2>1, <3>1, <3>2 DEF LearnRecord
  <2>3. ASSUME db.first = NoFailure PROVE learning.lost = 0
    BY <1>0, <2>3 DEF Flows, LossTold, Failed
  <2>4. ASSUME db.first = NoFailure, NEW c \in Context
        PROVE  /\ capture[c] \in {"HANDED", "NEW", "REFUSED"}
               /\ capture[c] = "HANDED" => Entries(c) # {}
    <3>0. ~ Failed(db) BY <2>4 DEF Failed
    <3>1. capture[c] \in CaptureStatus /\ ~ InHand(c) /\ capture[c] \notin Untaken
      BY <2>1, <3>0 DEF Accounted, HoldersKnown, MissingTold
    <3>2. capture[c] \in {"HANDED", "NEW", "REFUSED"}
      BY <3>1 DEF CaptureStatus, InHand, Untaken
    <3>3. ASSUME capture[c] = "HANDED" PROVE Entries(c) # {}
      <4>1. PICK n \in 1..db.admitted : \A t \in Tags(queue, lane, store) : t[1] = c <=> t[2] = n
        BY <1>0, <3>3 DEF Flows, OneNumber, Handed
      <4>2. Flying(queue, lane) = {}
        <5>1. << >> \in Seq(JobRecord) /\ DOMAIN << >> = {} BY EmptySeq
        <5>. QED BY <1>4, <2>1, <5>1 DEF Flying, Pending
      <4>3. n \in Stored(store)
        BY <1>0, <3>0, <4>2 DEF Good, Sound, Accounts, Missed
      <4>4. PICK i \in DOMAIN store.log : store.log[i].number = n BY <4>3 DEF Stored
      <4>5. TagOf(store.log[i]) \in Tags(queue, lane, store) BY DEF Tags, BatchTags
      <4>6. store.log[i].of = c BY <4>1, <4>4, <4>5 DEF TagOf
      <4>7. i \in 1..Len(store.log)
        <5>1. store.log \in Seq(LogRecord) BY NowFlows
        <5>. QED BY <5>1, LenProperties
      <4>. QED BY <4>6, <4>7 DEF Entries
    <3>. QED BY <3>2, <3>3
  <2>. QED BY <2>2, <2>3, <2>4
<1>. QED BY <1>1, <1>2, <1>3, <1>4 DEF NothingLostUntold

-----------------------------------------------------------------------------
(* The workspace, for any number of handlers and graphs, any queue and any    *)
(* number of captures: who still answers each future and each layout.         *)

ClientJob == [kind : {"history", "summary"}, of : Client]
LayoutJob == [kind : {"layout"}, of : Graph \X Nat]
Layouts == [Graph -> [ready : BOOLEAN, capture : Nat, pending : Nat]]
AnyJob == ClientJob \cup LayoutJob \cup {W!End}

WorkspaceType ==
    /\ jobs \in Seq(AnyJob)
    /\ worker \in [at : {"IDLE", "RUNS", "JOINS", "DONE", "CANCELLED"}, job : AnyJob]
    /\ future \in [Client -> {"NONE", "PENDING", "RESULT", "ERROR", "CANCELLED"}]
    /\ layout \in Layouts
    /\ closer \in {"NONE", "PUTS", "JOINS", "CLOSED"}

(* A worker that joins has answered its future already: only a job that waits *)
(* or runs can still answer one.                                              *)
AnswersTo(job, q) == job.kind \in {"history", "summary"} /\ job.of = q
Answerable ==
    \A q \in Client : future[q] = "PENDING" =>
        \/ \E i \in DOMAIN jobs : AnswersTo(jobs[i], q)
        \/ worker.at = "RUNS" /\ AnswersTo(worker.job, q)

(* The pending mark of a layout goes with the job that carries it, also when  *)
(* the worker is cancelled in the middle of it.                               *)
LayoutJobOf(g) == W!Job("layout", <<g, layout[g].pending>>)
LaidOutLater ==
    \A g \in Graph : layout[g].pending # 0 =>
        \/ \E i \in DOMAIN jobs : jobs[i] = LayoutJobOf(g)
        \/ worker.at \in {"RUNS", "JOINS"} /\ worker.job = LayoutJobOf(g)

ClosedSettled == closer = "CLOSED" => \A q \in Client : future[q] # "PENDING"

WorkspaceInv == WorkspaceType /\ Answerable /\ LaidOutLater /\ ClosedSettled

-----------------------------------------------------------------------------
(* The queue.                                                                 *)

(* What is put into a queue stays there beside what it held.                  *)
LEMMA AppendKeeps ==
    ASSUME NEW S, NEW s \in Seq(S), NEW e \in S
    PROVE  /\ Append(s, e) \in Seq(S)
           /\ \A i \in DOMAIN s : i \in DOMAIN Append(s, e) /\ Append(s, e)[i] = s[i]
           /\ \E i \in DOMAIN Append(s, e) : Append(s, e)[i] = e
<1>1. /\ Append(s, e) \in Seq(S) /\ Len(Append(s, e)) = Len(s) + 1
      /\ \A i \in 1..Len(s) : Append(s, e)[i] = s[i]
      /\ Append(s, e)[Len(s) + 1] = e
  BY AppendProperties
<1>2. DOMAIN s = 1..Len(s) /\ DOMAIN Append(s, e) = 1..Len(Append(s, e))
      /\ Len(s) \in Nat
  BY <1>1, LenProperties
<1>. QED BY <1>1, <1>2

(* What is taken from it is its head, and the rest is still there.            *)
LEMMA TailKeeps ==
    ASSUME NEW S, NEW s \in Seq(S), s # <<>>
    PROVE  /\ Head(s) \in S /\ Tail(s) \in Seq(S)
           /\ \A i \in DOMAIN s :
                 s[i] = Head(s) \/ \E j \in DOMAIN Tail(s) : Tail(s)[j] = s[i]
<1>1. /\ Head(s) \in S /\ Tail(s) \in Seq(S) /\ Head(s) = s[1]
      /\ Len(Tail(s)) = Len(s) - 1
      /\ \A i \in 1..Len(Tail(s)) : Tail(s)[i] = s[i + 1]
  BY HeadTailProperties
<1>2. DOMAIN s = 1..Len(s) /\ DOMAIN Tail(s) = 1..Len(Tail(s)) /\ Len(s) \in Nat
  BY <1>1, LenProperties
<1>3. ASSUME NEW i \in DOMAIN s, i # 1
      PROVE  \E j \in DOMAIN Tail(s) : Tail(s)[j] = s[i]
  <2>1. i - 1 \in DOMAIN Tail(s) /\ Tail(s)[i - 1] = s[i] BY <1>1, <1>2, <1>3
  <2>. QED BY <2>1
<1>. QED BY <1>1, <1>3

-----------------------------------------------------------------------------
(* The layouts.                                                               *)

(* The end of a layout job takes back its own mark and no other.              *)
LEMMA LaidOutMarks ==
    ASSUME layout \in Layouts, NEW job \in AnyJob, NEW ok \in BOOLEAN
    PROVE  /\ W!LaidOut(job, ok) \in Layouts
           /\ \A h \in Graph : W!LaidOut(job, ok)[h].pending =
                IF job = W!Job("layout", <<h, layout[h].pending>>) THEN 0
                ELSE layout[h].pending
<1>1. CASE job.kind # "layout"
  BY <1>1 DEF W!LaidOut, W!Job
<1>2. CASE job.kind = "layout"
  <2>1. job \in LayoutJob BY <1>2 DEF AnyJob, ClientJob, W!End, W!Job
  <2>2. PICK g \in Graph, n \in Nat : job.of = <<g, n>> BY <2>1 DEF LayoutJob
  <2>3. job.of[1] = g /\ job.of[2] = n BY <2>2
  <2>4. job = W!Job("layout", <<g, n>>) BY <1>2, <2>1, <2>2 DEF LayoutJob, W!Job
  <2>. DEFINE r == layout[g].ready \/ (ok /\ ~W!closing /\ layout[g].capture = n)
              p == IF layout[g].pending = n THEN 0 ELSE layout[g].pending
  <2>5. r \in BOOLEAN /\ p \in Nat BY DEF Layouts
  <2>6. W!LaidOut(job, ok) = [layout EXCEPT ![g].ready = r, ![g].pending = p]
    BY <1>2, <2>3 DEF W!LaidOut
  <2>. DEFINE e == W!LaidOut(job, ok)
  <2>. HIDE DEF r, p, e
  <2>7. e = [layout EXCEPT ![g].ready = r, ![g].pending = p]
    BY <2>6 DEF e
  <2>8. e \in Layouts BY <2>5, <2>7 DEF Layouts
  <2>9. e = [layout EXCEPT ![g] = [layout[g] EXCEPT !.ready = r, !.pending = p]]
    BY <2>7 DEF Layouts
  <2>10. e[g].pending = p BY <2>5, <2>9 DEF Layouts
  <2>11. ASSUME NEW h \in Graph, h # g PROVE e[h].pending = layout[h].pending
    BY <2>9, <2>11 DEF Layouts
  <2>12. ASSUME NEW h \in Graph
        PROVE  (job = W!Job("layout", <<h, layout[h].pending>>)) <=>
                   (h = g /\ layout[h].pending = n)
    <3>1. (<<g, n>> = <<h, layout[h].pending>>) <=> (h = g /\ layout[h].pending = n)
      OBVIOUS
    <3>. QED BY <2>4, <3>1 DEF W!Job
  <2>13. ASSUME NEW h \in Graph
         PROVE  e[h].pending =
                    IF job = W!Job("layout", <<h, layout[h].pending>>) THEN 0
                    ELSE layout[h].pending
    <3>1. CASE h = g
      <4>1. p = IF layout[g].pending = n THEN 0 ELSE layout[g].pending BY DEF p
      <4>. QED BY <2>10, <2>12, <3>1, <4>1, Zenon
    <3>2. CASE h # g BY <2>11, <2>12, <3>2, Zenon
    <3>. QED BY <3>1, <3>2
  <2>. QED BY <2>8, <2>13 DEF e
<1>. QED BY <1>1, <1>2

-----------------------------------------------------------------------------
(* The parts of the invariant, step by step.                                  *)

LEMMA WorkspaceStarts == ASSUME W!Init PROVE WorkspaceInv
<1>1. WorkspaceType
  <2>1. <<>> \in Seq(AnyJob) BY EmptySeq
  <2>. QED BY <2>1 DEF W!Init, WorkspaceType, W!Idle, W!End, W!Job, AnyJob, Layouts
<1>. QED BY <1>1 DEF W!Init, WorkspaceInv, Answerable, LaidOutLater, ClosedSettled

LEMMA WorkspaceTypeStep == ASSUME WorkspaceType, [W!Next]_workspace PROVE WorkspaceType'
<1>. USE DEF WorkspaceType
<1>1. ASSUME NEW q \in Client, W!AskHistory(q) PROVE WorkspaceType'
  <2>1. W!Job("history", q) \in AnyJob BY DEF AnyJob, ClientJob, W!Job
  <2>2. jobs' \in Seq(AnyJob)
    <3>1. jobs \in Seq(AnyJob) /\ (jobs' = jobs \/ jobs' = Append(jobs, W!Job("history", q)))
      BY <1>1 DEF W!AskHistory
    <3>. QED BY ONLY <2>1, <3>1, AppendKeeps
  <2>. QED BY <1>1, <2>2 DEF W!AskHistory
<1>2. ASSUME NEW q \in Client, W!AskSummary(q) PROVE WorkspaceType'
  <2>1. W!Job("summary", q) \in AnyJob BY DEF AnyJob, ClientJob, W!Job
  <2>2. jobs' \in Seq(AnyJob)
    <3>1. jobs \in Seq(AnyJob) /\ (jobs' = jobs \/ jobs' = Append(jobs, W!Job("summary", q)))
      BY <1>2 DEF W!AskSummary
    <3>. QED BY ONLY <2>1, <3>1, AppendKeeps
  <2>. QED BY <1>2, <2>2 DEF W!AskSummary
<1>3. ASSUME NEW q \in Client, W!Resume(q) \/ W!GiveUp(q) PROVE WorkspaceType'
  BY <1>3 DEF W!Resume, W!GiveUp, W!Left
<1>4. CASE W!SummarySettled \/ W!Revoke BY <1>4 DEF W!SummarySettled, W!Revoke
<1>5. ASSUME NEW g \in Graph, W!EnsureLayout(g) PROVE WorkspaceType'
  <2>1. W!Job("layout", <<g, layout[g].capture>>) \in AnyJob
    BY DEF AnyJob, LayoutJob, W!Job, Layouts
  <2>2. jobs' \in Seq(AnyJob) BY <1>5, <2>1, AppendKeeps DEF W!EnsureLayout
  <2>. QED BY <1>5, <2>2 DEF W!EnsureLayout, Layouts
<1>6. ASSUME NEW g \in Graph, W!Recapture(g) PROVE WorkspaceType'
  <2>1. layout[g].capture + 1 \in Nat /\ FALSE \in BOOLEAN BY DEF Layouts
  <2>2. layout' \in Layouts BY <1>6, <2>1 DEF W!Recapture, Layouts
  <2>. QED BY <1>6, <2>2 DEF W!Recapture
<1>7. CASE W!Take
  <2>1. Head(jobs) \in AnyJob /\ Tail(jobs) \in Seq(AnyJob)
    BY <1>7, TailKeeps DEF W!Take
  <2>2. W!End \in AnyJob BY DEF AnyJob
  <2>. QED BY <1>7, <2>1, <2>2 DEF W!Take
<1>8. CASE W!OperationEnds BY <1>8 DEF W!OperationEnds
<1>9. CASE W!FinishJob
  <2>1. layout' \in Layouts
    BY <1>9, LaidOutMarks DEF W!FinishJob
  <2>2. future' \in [Client -> {"NONE", "PENDING", "RESULT", "ERROR", "CANCELLED"}]
    BY <1>9 DEF W!FinishJob, W!Answered
  <2>3. worker' \in [at : {"IDLE", "RUNS", "JOINS", "DONE", "CANCELLED"}, job : AnyJob]
    BY <1>9 DEF W!FinishJob, W!Idle, AnyJob
  <2>. QED BY <1>9, <2>1, <2>2, <2>3 DEF W!FinishJob
<1>10. CASE W!CancelWorker BY <1>10 DEF W!CancelWorker, W!Answered
<1>11. CASE W!JoinOperation
  <2>1. layout' \in Layouts BY <1>11, LaidOutMarks DEF W!JoinOperation
  <2>. QED BY <1>11, <2>1 DEF W!JoinOperation, AnyJob
<1>12. CASE W!BeginWorkspaceClose BY <1>12 DEF W!BeginWorkspaceClose, W!Left
<1>13. CASE W!PutSentinel
  <2>1. W!End \in AnyJob BY DEF AnyJob
  <2>2. jobs' = Append(jobs, W!End) \/ jobs' = jobs BY <1>13 DEF W!PutSentinel
  <2>3. jobs' \in Seq(AnyJob) BY <2>1, <2>2, AppendKeeps
  <2>. QED BY <1>13, <2>3 DEF W!PutSentinel
<1>14. CASE W!FinishWorkspaceClose
  BY <1>14, EmptySeq DEF W!FinishWorkspaceClose, W!Abandoned, Layouts
<1>15. CASE UNCHANGED workspace BY <1>15 DEF workspace
<1>. QED
  BY <1>1, <1>2, <1>3, <1>4, <1>5, <1>6, <1>7, <1>8, <1>9, <1>10, <1>11, <1>12,
     <1>13, <1>14, <1>15 DEF W!Next


(* Only an accepted question makes a future pending, and its job is queued    *)
(* with it; a job leaves the queue into the worker's hands, and the worker    *)
(* lets it go only when the future is answered.                               *)
LEMMA AnswerableStep ==
    ASSUME WorkspaceInv, [W!Next]_workspace PROVE Answerable'
<1>0. WorkspaceType /\ Answerable /\ ClosedSettled BY DEF WorkspaceInv
<1>. USE DEF Answerable
<1>. DEFINE Queued(q) == \E i \in DOMAIN jobs : AnswersTo(jobs[i], q)
            Run(q) == worker.at = "RUNS" /\ AnswersTo(worker.job, q)
<1>1. ASSUME \A q \in Client : Queued(q) => Queued(q)',
             UNCHANGED worker, NEW p \in Client,
             \A q \in Client : q # p /\ future'[q] = "PENDING" => future[q] = "PENDING",
             future'[p] = "PENDING" => future[p] = "PENDING" \/ Queued(p)'
      PROVE  Answerable'
  BY <1>0, <1>1
<1>2. ASSUME UNCHANGED <<jobs, worker>>,
             \A q \in Client : future'[q] = "PENDING" => future[q] = "PENDING"
      PROVE  Answerable'
  BY <1>0, <1>2
<1>3. ASSUME NEW kind \in {"history", "summary"}, NEW q \in Client,
             jobs' = Append(jobs, W!Job(kind, q)),
             future' = [future EXCEPT ![q] = "PENDING"], UNCHANGED worker
      PROVE  Answerable'
  <2>1. W!Job(kind, q) \in AnyJob BY DEF AnyJob, ClientJob, W!Job
  <2>2. /\ \A i \in DOMAIN jobs : i \in DOMAIN jobs' /\ jobs'[i] = jobs[i]
        /\ \E i \in DOMAIN jobs' : jobs'[i] = W!Job(kind, q)
    BY <1>0, <1>3, <2>1, AppendKeeps DEF WorkspaceType
  <2>3. \A r \in Client : Queued(r) => Queued(r)' BY <2>2
  <2>4. AnswersTo(W!Job(kind, q), q) BY DEF AnswersTo, W!Job
  <2>5. Queued(q)' BY <2>2, <2>4
  <2>6. \A r \in Client : r # q /\ future'[r] = "PENDING" => future[r] = "PENDING"
    BY <1>0, <1>3 DEF WorkspaceType
  <2>. QED BY <1>1, <1>3, <2>3, <2>5, <2>6
<1>4. ASSUME NEW e \in AnyJob, jobs' = Append(jobs, e), UNCHANGED <<worker, future>>
      PROVE  Answerable'
  <2>1. \A i \in DOMAIN jobs : i \in DOMAIN jobs' /\ jobs'[i] = jobs[i]
    BY <1>0, <1>4, AppendKeeps DEF WorkspaceType
  <2>2. \A r \in Client : Queued(r) => Queued(r)' BY <2>1
  <2>. QED BY <1>0, <1>4, <2>2
<1>5. ASSUME NEW q \in Client, W!AskHistory(q) PROVE Answerable'
  BY <1>2, <1>3, <1>5 DEF W!AskHistory
<1>6. ASSUME NEW q \in Client, W!AskSummary(q) PROVE Answerable'
  BY <1>2, <1>3, <1>6 DEF W!AskSummary
<1>7. ASSUME NEW q \in Client, W!Resume(q) \/ W!GiveUp(q) PROVE Answerable'
  <2>1. \A r \in Client : future'[r] = "PENDING" => future[r] = "PENDING"
    BY <1>7 DEF W!Resume, W!GiveUp, W!Left
  <2>. QED BY <1>2, <1>7, <2>1 DEF W!Resume, W!GiveUp
<1>8. CASE W!SummarySettled \/ W!Revoke \/ W!OperationEnds
  BY <1>2, <1>8 DEF W!SummarySettled, W!Revoke, W!OperationEnds
<1>9. ASSUME NEW g \in Graph, W!EnsureLayout(g) PROVE Answerable'
  <2>1. W!Job("layout", <<g, layout[g].capture>>) \in AnyJob
    BY <1>0 DEF WorkspaceType, AnyJob, LayoutJob, W!Job, Layouts
  <2>. QED BY <1>4, <1>9, <2>1 DEF W!EnsureLayout
<1>10. ASSUME NEW g \in Graph, W!Recapture(g) PROVE Answerable'
  BY <1>2, <1>10 DEF W!Recapture
<1>11. CASE W!Take
  <2>1. /\ \A i \in DOMAIN jobs :
              jobs[i] = Head(jobs) \/ \E j \in DOMAIN jobs' : jobs'[j] = jobs[i]
    BY <1>0, <1>11, TailKeeps DEF W!Take, WorkspaceType
  <2>2. ASSUME NEW q \in Client, future'[q] = "PENDING"
        PROVE  Queued(q)' \/ Run(q)'
    <3>1. future[q] = "PENDING" /\ worker.at = "IDLE" BY <1>11, <2>2 DEF W!Take
    <3>2. PICK i \in DOMAIN jobs : AnswersTo(jobs[i], q) BY <1>0, <3>1
    <3>3. CASE jobs[i] = Head(jobs)
      <4>1. Head(jobs) # W!End BY <3>2, <3>3 DEF AnswersTo, W!End, W!Job
      <4>2. worker' = [at |-> "RUNS", job |-> Head(jobs)] BY <1>11, <4>1 DEF W!Take
      <4>. QED BY <3>2, <3>3, <4>2
    <3>4. CASE \E j \in DOMAIN jobs' : jobs'[j] = jobs[i] BY <3>2, <3>4
    <3>. QED BY <2>1, <3>3, <3>4
  <2>. QED BY <2>2
<1>12. ASSUME NEW outcome \in {"RESULT", "ERROR"}, worker.at = "RUNS",
              future' = W!Answered(worker.job, outcome), UNCHANGED jobs
       PROVE  Answerable'
  <2>1. ASSUME NEW q \in Client, future'[q] = "PENDING" PROVE Queued(q)'
    <3>1. future[q] = "PENDING" /\ ~ AnswersTo(worker.job, q)
      BY <1>0, <1>12, <2>1 DEF W!Answered, AnswersTo, WorkspaceType
    <3>. QED BY <1>0, <1>12, <3>1
  <2>. QED BY <2>1
<1>13. CASE W!FinishJob BY <1>12, <1>13 DEF W!FinishJob
<1>14. CASE W!CancelWorker
  <2>1. CASE worker.at = "RUNS" BY <1>12, <1>14, <2>1 DEF W!CancelWorker
  <2>2. CASE worker.at = "IDLE"
    <3>1. UNCHANGED <<jobs, future>> BY <1>14, <2>2 DEF W!CancelWorker
    <3>. QED BY <1>0, <2>2, <3>1
  <2>. QED BY <1>14, <2>1, <2>2 DEF W!CancelWorker
<1>15. CASE W!JoinOperation
  <2>1. UNCHANGED <<jobs, future>> /\ worker.at = "JOINS" BY <1>15 DEF W!JoinOperation
  <2>. QED BY <1>0, <2>1
<1>16. CASE W!BeginWorkspaceClose
  <2>1. \A r \in Client : future'[r] = "PENDING" => future[r] = "PENDING"
    BY <1>16 DEF W!BeginWorkspaceClose, W!Left
  <2>. QED BY <1>2, <1>16, <2>1 DEF W!BeginWorkspaceClose
<1>17. CASE W!PutSentinel
  <2>1. W!End \in AnyJob BY DEF AnyJob
  <2>2. jobs' = Append(jobs, W!End) \/ jobs' = jobs BY <1>17 DEF W!PutSentinel
  <2>. QED BY <1>2, <1>4, <1>17, <2>1, <2>2 DEF W!PutSentinel
<1>18. CASE W!FinishWorkspaceClose
  <2>1. ASSUME NEW q \in Client, future'[q] = "PENDING" PROVE FALSE
    <3>1. future[q] = "PENDING" /\ ~ \E i \in DOMAIN jobs : jobs[i].of = q
      BY <1>18, <2>1 DEF W!FinishWorkspaceClose, W!Abandoned
    <3>2. worker.at # "RUNS" BY <1>18 DEF W!FinishWorkspaceClose, W!WorkerEnded
    <3>. QED BY <1>0, <3>1, <3>2 DEF AnswersTo
  <2>. QED BY <2>1
<1>19. CASE UNCHANGED workspace BY <1>2, <1>19 DEF workspace
<1>. QED
  BY <1>5, <1>6, <1>7, <1>8, <1>9, <1>10, <1>11, <1>13, <1>14, <1>15, <1>16, <1>17,
     <1>18, <1>19 DEF W!Next


(* The same of the layouts: the mark is set with the job and goes with it, and *)
(* a worker that is cancelled keeps the job until the thread lets it go.       *)
LEMMA LaidOutLaterStep ==
    ASSUME WorkspaceInv, [W!Next]_workspace PROVE LaidOutLater'
<1>0. WorkspaceType /\ LaidOutLater BY DEF WorkspaceInv
<1>. DEFINE LJ(g) == W!Job("layout", <<g, layout[g].pending>>)
            Queued(j) == \E i \in DOMAIN jobs : jobs[i] = j
            Held(j) == worker.at \in {"RUNS", "JOINS"} /\ worker.job = j
<1>a. LaidOutLater <=> \A g \in Graph : layout[g].pending # 0 => Queued(LJ(g)) \/ Held(LJ(g))
  BY DEF LaidOutLater, LayoutJobOf
<1>b. LaidOutLater' <=>
        \A g \in Graph : layout'[g].pending # 0 =>
            \/ \E i \in DOMAIN jobs' : jobs'[i] = LJ(g)'
            \/ worker'.at \in {"RUNS", "JOINS"} /\ worker'.job = LJ(g)'
  BY DEF LaidOutLater, LayoutJobOf
<1>. HIDE DEF LJ
<1>1. ASSUME \A i \in DOMAIN jobs : i \in DOMAIN jobs' /\ jobs'[i] = jobs[i],
             UNCHANGED worker,
             \A g \in Graph : layout'[g].pending = layout[g].pending
      PROVE  LaidOutLater'
  <2>1. \A g \in Graph : LJ(g)' = LJ(g) BY <1>1 DEF LJ
  <2>. QED BY <1>0, <1>a, <1>b, <1>1, <2>1
<1>2. ASSUME UNCHANGED <<jobs, worker, layout>> PROVE LaidOutLater'
  BY <1>1, <1>2
<1>3. ASSUME NEW e \in AnyJob, jobs' = Append(jobs, e), UNCHANGED <<worker, layout>>
      PROVE  LaidOutLater'
  <2>1. \A i \in DOMAIN jobs : i \in DOMAIN jobs' /\ jobs'[i] = jobs[i]
    BY <1>0, <1>3, AppendKeeps DEF WorkspaceType
  <2>. QED BY <1>1, <1>3, <2>1
<1>4. ASSUME NEW q \in Client, W!AskHistory(q) \/ W!AskSummary(q) PROVE LaidOutLater'
  <2>1. W!Job("history", q) \in AnyJob /\ W!Job("summary", q) \in AnyJob
    BY DEF AnyJob, ClientJob, W!Job
  <2>. QED BY <1>2, <1>3, <1>4, <2>1 DEF W!AskHistory, W!AskSummary
<1>5. ASSUME NEW q \in Client, W!Resume(q) \/ W!GiveUp(q) PROVE LaidOutLater'
  BY <1>2, <1>5 DEF W!Resume, W!GiveUp
<1>6. CASE W!SummarySettled \/ W!Revoke \/ W!OperationEnds
  BY <1>2, <1>6 DEF W!SummarySettled, W!Revoke, W!OperationEnds
<1>7. ASSUME NEW g \in Graph, W!EnsureLayout(g) PROVE LaidOutLater'
  <2>. DEFINE e == W!Job("layout", <<g, layout[g].capture>>)
  <2>1. e \in AnyJob BY <1>0 DEF WorkspaceType, AnyJob, LayoutJob, W!Job, Layouts
  <2>2. jobs' = Append(jobs, e) /\ UNCHANGED worker BY <1>7 DEF W!EnsureLayout
  <2>. HIDE DEF e
  <2>3. /\ \A i \in DOMAIN jobs : i \in DOMAIN jobs' /\ jobs'[i] = jobs[i]
        /\ \E i \in DOMAIN jobs' : jobs'[i] = e
    BY <1>0, <2>1, <2>2, AppendKeeps DEF WorkspaceType
  <2>4. layout'[g].pending = layout[g].capture
    BY <1>0, <1>7 DEF W!EnsureLayout, WorkspaceType, Layouts
  <2>5. \A h \in Graph : h # g => layout'[h] = layout[h]
    BY <1>0, <1>7 DEF W!EnsureLayout, WorkspaceType, Layouts
  <2>6. LJ(g)' = e BY <2>4 DEF LJ, e
  <2>7. \A h \in Graph : h # g => LJ(h)' = LJ(h) BY <2>5 DEF LJ
  <2>8. ASSUME NEW h \in Graph, layout'[h].pending # 0
        PROVE  \/ \E i \in DOMAIN jobs' : jobs'[i] = LJ(h)'
               \/ worker'.at \in {"RUNS", "JOINS"} /\ worker'.job = LJ(h)'
    <3>1. CASE h = g BY <2>3, <2>6, <3>1
    <3>2. CASE h # g BY <1>0, <1>a, <2>2, <2>3, <2>5, <2>7, <2>8, <3>2
    <3>. QED BY <3>1, <3>2
  <2>. QED BY <1>b, <2>8
<1>8. ASSUME NEW g \in Graph, W!Recapture(g) PROVE LaidOutLater'
  <2>1. layout[g].capture + 1 \in Nat /\ FALSE \in BOOLEAN
    BY <1>0 DEF Layouts, WorkspaceType
  <2>2. layout \in Layouts BY <1>0 DEF WorkspaceType
  <2>. DEFINE e == layout'
  <2>3. e = [layout EXCEPT ![g].capture = layout[g].capture + 1, ![g].ready = FALSE]
    BY <1>8 DEF W!Recapture
  <2>. HIDE DEF e
  <2>4. e = [layout EXCEPT ![g] =
                [layout[g] EXCEPT !.capture = layout[g].capture + 1, !.ready = FALSE]]
    BY <2>2, <2>3 DEF Layouts
  <2>5. e[g].pending = layout[g].pending BY <2>1, <2>2, <2>4 DEF Layouts
  <2>6. \A h \in Graph : h # g => e[h] = layout[h] BY <2>2, <2>4 DEF Layouts
  <2>7. \A h \in Graph : e[h].pending = layout[h].pending BY <2>5, <2>6
  <2>. QED BY <1>1, <1>8, <2>7 DEF W!Recapture, e
<1>9. CASE W!Take
  <2>1. \A i \in DOMAIN jobs :
              jobs[i] = Head(jobs) \/ \E j \in DOMAIN jobs' : jobs'[j] = jobs[i]
    BY <1>0, <1>9, TailKeeps DEF W!Take, WorkspaceType
  <2>2. \A g \in Graph : LJ(g)' = LJ(g) /\ LJ(g) # W!End
    BY <1>9 DEF LJ, W!Take, W!End, W!Job
  <2>3. ASSUME NEW g \in Graph, layout'[g].pending # 0
        PROVE  \/ \E i \in DOMAIN jobs' : jobs'[i] = LJ(g)'
               \/ worker'.at \in {"RUNS", "JOINS"} /\ worker'.job = LJ(g)'
    <3>1. layout[g].pending # 0 /\ worker.at = "IDLE" BY <1>9, <2>3 DEF W!Take
    <3>2. PICK i \in DOMAIN jobs : jobs[i] = LJ(g) BY <1>0, <1>a, <3>1
    <3>3. CASE jobs[i] = Head(jobs)
      <4>1. Head(jobs) # W!End BY <2>2, <3>2, <3>3
      <4>2. worker' = [at |-> "RUNS", job |-> Head(jobs)] BY <1>9, <4>1 DEF W!Take
      <4>. QED BY <2>2, <3>2, <3>3, <4>2
    <3>4. CASE \E j \in DOMAIN jobs' : jobs'[j] = jobs[i] BY <2>2, <3>2, <3>4
    <3>. QED BY <2>1, <3>3, <3>4
  <2>. QED BY <1>b, <2>3
<1>10. ASSUME NEW ok \in BOOLEAN, layout' = W!LaidOut(worker.job, ok), UNCHANGED jobs,
              worker.at \in {"RUNS", "JOINS"}
       PROVE  LaidOutLater'
  <2>1. \A h \in Graph : layout'[h].pending =
            IF worker.job = LJ(h) THEN 0 ELSE layout[h].pending
    BY <1>0, <1>10, LaidOutMarks DEF LJ, WorkspaceType
  <2>2. ASSUME NEW g \in Graph, layout'[g].pending # 0
        PROVE  \E i \in DOMAIN jobs' : jobs'[i] = LJ(g)'
    <3>1. worker.job # LJ(g) /\ layout'[g].pending = layout[g].pending
      BY <2>1, <2>2
    <3>2. LJ(g)' = LJ(g) BY <3>1 DEF LJ
    <3>. QED BY <1>0, <1>a, <1>10, <2>2, <3>1, <3>2
  <2>. QED BY <1>b, <2>2
<1>11. CASE W!FinishJob
  <2>1. (operation = "OK" /\ (worker.job.kind = "layout" \/ granted)) \in BOOLEAN
    OBVIOUS
  <2>. QED BY <1>10, <1>11, <2>1 DEF W!FinishJob
<1>12. CASE W!CancelWorker
  <2>1. UNCHANGED <<jobs, layout>> /\ \A g \in Graph : LJ(g)' = LJ(g)
    BY <1>12 DEF W!CancelWorker, LJ
  <2>2. worker.at = "RUNS" => worker'.at = "JOINS" /\ worker'.job = worker.job
    BY <1>0, <1>12 DEF W!CancelWorker, WorkspaceType
  <2>3. worker.at \in {"IDLE", "RUNS"} BY <1>12 DEF W!CancelWorker
  <2>. QED BY <1>0, <1>a, <1>b, <2>1, <2>2, <2>3
<1>13. CASE W!JoinOperation
  <2>. QED BY <1>10, <1>13 DEF W!JoinOperation
<1>14. CASE W!BeginWorkspaceClose BY <1>2, <1>14 DEF W!BeginWorkspaceClose
<1>15. CASE W!PutSentinel
  <2>1. W!End \in AnyJob BY DEF AnyJob
  <2>2. jobs' = Append(jobs, W!End) \/ jobs' = jobs BY <1>15 DEF W!PutSentinel
  <2>. QED BY <1>2, <1>3, <1>15, <2>1, <2>2 DEF W!PutSentinel
<1>16. CASE W!FinishWorkspaceClose
  <2>1. \A g \in Graph : layout'[g].pending = 0 BY <1>16 DEF W!FinishWorkspaceClose
  <2>. QED BY <1>b, <2>1
<1>17. CASE UNCHANGED workspace BY <1>2, <1>17 DEF workspace
<1>. QED
  BY <1>4, <1>5, <1>6, <1>7, <1>8, <1>9, <1>11, <1>12, <1>13, <1>14, <1>15, <1>16,
     <1>17 DEF W!Next

(* A closing workspace takes nothing new, and its end answers what is left.   *)
LEMMA ClosedSettledStep ==
    ASSUME WorkspaceInv, [W!Next]_workspace PROVE ClosedSettled'
<1>0. WorkspaceType /\ Answerable /\ ClosedSettled BY DEF WorkspaceInv
<1>. USE DEF ClosedSettled
<1>1. CASE W!FinishWorkspaceClose
  <2>1. ASSUME NEW q \in Client, future'[q] = "PENDING" PROVE FALSE
    <3>1. future[q] = "PENDING" /\ ~ \E i \in DOMAIN jobs : jobs[i].of = q
      BY <1>1, <2>1 DEF W!FinishWorkspaceClose, W!Abandoned
    <3>2. worker.at # "RUNS" BY <1>1 DEF W!FinishWorkspaceClose, W!WorkerEnded
    <3>. QED BY <1>0, <3>1, <3>2 DEF AnswersTo, Answerable
  <2>. QED BY <2>1
<1>2. ASSUME closer' = "CLOSED" => closer = "CLOSED",
             \A q \in Client : W!closing /\ future'[q] = "PENDING" => future[q] = "PENDING"
      PROVE  ClosedSettled'
  BY <1>0, <1>2 DEF W!closing
<1>3. ASSUME NEW q \in Client, W!AskHistory(q) \/ W!AskSummary(q) PROVE ClosedSettled'
  BY <1>2, <1>3 DEF W!AskHistory, W!AskSummary, W!Room
<1>4. ASSUME NEW q \in Client, W!Resume(q) \/ W!GiveUp(q) PROVE ClosedSettled'
  BY <1>2, <1>4 DEF W!Resume, W!GiveUp, W!Left
<1>5. ASSUME NEW g \in Graph, W!EnsureLayout(g) \/ W!Recapture(g) PROVE ClosedSettled'
  BY <1>2, <1>5 DEF W!EnsureLayout, W!Recapture
<1>6. CASE W!SummarySettled \/ W!Revoke \/ W!Take \/ W!OperationEnds
  BY <1>2, <1>6 DEF W!SummarySettled, W!Revoke, W!Take, W!OperationEnds
<1>7. CASE W!FinishJob \/ W!CancelWorker
  <2>1. \A q \in Client : future'[q] = "PENDING" => future[q] = "PENDING"
    BY <1>0, <1>7 DEF W!FinishJob, W!CancelWorker, W!Answered, WorkspaceType
  <2>. QED BY <1>2, <1>7, <2>1 DEF W!FinishJob, W!CancelWorker
<1>8. CASE W!JoinOperation \/ W!PutSentinel
  BY <1>2, <1>8 DEF W!JoinOperation, W!PutSentinel
<1>9. CASE W!BeginWorkspaceClose
  BY <1>2, <1>9 DEF W!BeginWorkspaceClose
<1>10. CASE UNCHANGED workspace BY <1>2, <1>10 DEF workspace
<1>. QED
  BY <1>1, <1>3, <1>4, <1>5, <1>6, <1>7, <1>8, <1>9, <1>10 DEF W!Next

-----------------------------------------------------------------------------

LEMMA WorkspaceStep == ASSUME WorkspaceInv, [W!Next]_workspace PROVE WorkspaceInv'
BY WorkspaceTypeStep, AnswerableStep, LaidOutLaterStep, ClosedSettledStep DEF WorkspaceInv

LEMMA InvariantForgets == ASSUME WorkspaceInv PROVE W!NothingForgotten
<1>0. WorkspaceType /\ Answerable /\ LaidOutLater /\ ClosedSettled
  BY DEF WorkspaceInv
<1>1. ASSUME NEW q \in Client, future[q] = "PENDING"
      PROVE  \E job \in W!Underway : job.of = q
  BY <1>0, <1>1 DEF Answerable, AnswersTo, W!Underway
<1>2. ASSUME NEW g \in Graph, layout[g].pending # 0
      PROVE  W!Job("layout", <<g, layout[g].pending>>) \in W!Underway
  BY <1>0, <1>2 DEF LaidOutLater, LayoutJobOf, W!Underway
<1>. QED BY <1>0, <1>1, <1>2 DEF W!NothingForgotten, ClosedSettled

-----------------------------------------------------------------------------
(* The two queues of MCLanes at work side by side.                           *)

LEMMA LanesStep == LanesNext => [Next]_vars
BY DEF LanesNext, vars

(* The workspace forgets nothing it accepted (dashboard/_workspace.py), with  *)
(* the persistence lane beside it: what is pending belongs to a job that      *)
(* waits or is being done - for each graph the very capture that was asked    *)
(* for - and nothing is pending once the workspace has closed, whenever the   *)
(* worker was cancelled and however the sentinel and the end of the worker    *)
(* met.                                                                       *)
THEOREM LanesForgetNothing == LanesSpec => []NothingForgotten
<1>1. LanesInit => WorkspaceInv BY WorkspaceStarts DEF LanesInit
<1>2. WorkspaceInv /\ [LanesNext]_<<vars, workspace, moving>> => WorkspaceInv'
  <2>1. [LanesNext]_<<vars, workspace, moving>> => [W!Next]_workspace
    BY DEF LanesNext, workspace
  <2>. QED BY <2>1, WorkspaceStep
<1>3. WorkspaceInv => NothingForgotten BY InvariantForgets DEF NothingForgotten
<1>. QED BY <1>1, <1>2, <1>3, PTL DEF LanesSpec

(* With the workspace beside it, the persistence lane still stores in order,  *)
(* once, and answers truly (persistence/_database.py).                        *)
THEOREM LanesKeepPromise == LanesSpec => ImplementsPromise
<1>1. LanesInit => HistoryInv /\ Promise!Init BY Starts, PromiseStarts DEF LanesInit
<1>2. HistoryInv /\ [LanesNext]_<<vars, workspace, moving>> => HistoryInv' /\ Promise!Next
  <2>1. [LanesNext]_<<vars, workspace, moving>> => [Next]_vars BY LanesStep DEF vars
  <2>. QED BY <2>1, EveryStepKeeps, PromiseStep DEF StepKeeps
<1>. QED BY <1>1, <1>2, PTL DEF LanesSpec, ImplementsPromise, Promise!Spec

(* Nothing that the engine records is lost without being told: every          *)
(* reservation has an owner who gives it back or publishes it, no context is  *)
(* stored twice whatever the backend answered, and a lane that ends with no   *)
(* failure on record has stored every context that was handed over and        *)
(* acknowledged or counted as lost every timing contribution                  *)
(* (persistence/_database.py, engine/_history.py, engine/progress_history.py).*)
THEOREM LanesLoseNothing == LanesSpec => []NothingLostUntold
<1>1. LanesInit => HistoryInv /\ Accounted BY Starts, AccountStarts DEF LanesInit
<1>2. HistoryInv /\ Accounted /\ [LanesNext]_<<vars, workspace, moving>> =>
          HistoryInv' /\ Accounted'
  <2>1. [LanesNext]_<<vars, workspace, moving>> => [Next]_vars BY LanesStep DEF vars
  <2>. QED BY <2>1, EveryStepKeeps, AccountsKept DEF StepKeeps
<1>3. HistoryInv /\ Accounted => NothingLostUntold BY NothingUntold
<1>. QED BY <1>1, <1>2, <1>3, PTL DEF LanesSpec
=============================================================================
