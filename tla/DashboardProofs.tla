---------------------------- MODULE DashboardProofs ----------------------------
(***************************************************************************)
(* Recovery from the window of terminal summaries never skips a number in   *)
(* silence, for every window, page size and number of contexts: proved for  *)
(* a step of the history and its reader, then for every step of Dashboard.  *)
(***************************************************************************)
EXTENDS Dashboard, FiniteSetTheorems, SequenceTheorems, WellFoundedInduction, TLAPS

-----------------------------------------------------------------------------
(* Numbers.                                                                   *)

(* A set of naturals that is not empty has a least element: its initial parts *)
(* are finite, and strict inclusion is well-founded on finite sets.           *)
LEMMA LeastExists ==
    ASSUME NEW S, S \subseteq Nat, S # {}
    PROVE  \E m \in S : \A k \in S : m <= k
<1>. DEFINE Below(m) == {k \in S : k < m}
            Parts == {Below(m) : m \in S}
<1>1. Parts \subseteq FiniteSubsetsOf(S)
  <2>1. ASSUME NEW m \in S PROVE IsFiniteSet(Below(m))
    <3>1. IsFiniteSet(0..m) BY FS_Interval
    <3>2. ASSUME NEW k \in Below(m) PROVE k \in 0..m
      <4>1. k \in Nat /\ m \in Nat /\ k < m OBVIOUS
      <4>. QED BY <4>1
    <3>. QED BY <3>1, <3>2, FS_Subset
  <2>. QED BY <2>1 DEF FiniteSubsetsOf
<1>2. IsWellFoundedOn(StrictSubsetOrdering(S), FiniteSubsetsOf(S))
  BY FS_StrictSubsetOrderingWellFounded
<1>3. PICK part \in Parts : \A other \in Parts :
                ~ (<<other, part>> \in StrictSubsetOrdering(S))
  <2>1. Parts # {} OBVIOUS
  <2>. HIDE DEF Parts
  <2>. QED BY <1>1, <1>2, <2>1, WFMin
<1>4. PICK m \in S : part = Below(m) BY <1>3
<1>5. ASSUME NEW k \in S, ~ (m <= k) PROVE FALSE
  <2>0. k \in Nat /\ m \in Nat /\ k < m BY <1>5
  <2>1. Below(k) \subseteq Below(m) /\ Below(k) # Below(m)
    <3>1. ASSUME NEW j \in Below(k) PROVE j \in Below(m)
      <4>1. j \in S /\ j \in Nat /\ j < k OBVIOUS
      <4>2. j < m BY <2>0, <4>1
      <4>. QED BY <4>1, <4>2
    <3>2. k \in Below(m) /\ k \notin Below(k) BY <2>0
    <3>. QED BY <3>1, <3>2
  <2>2. <<Below(k), part>> \in StrictSubsetOrdering(S)
    BY <1>4, <2>1 DEF StrictSubsetOrdering
  <2>. QED BY <1>3, <2>2
<1>. QED BY <1>5

(* So a bounded one has a greatest.                                           *)
LEMMA GreatestExists ==
    ASSUME NEW S, S \subseteq Nat, S # {},
           NEW bound \in Nat, \A k \in S : k <= bound
    PROVE  \E m \in S : \A k \in S : k <= m
<1>. DEFINE Rest == {bound - k : k \in S}
<1>1. Rest \subseteq Nat /\ Rest # {} OBVIOUS
<1>2. PICK r \in Rest : \A other \in Rest : r <= other
  <2>. HIDE DEF Rest
  <2>. QED BY <1>1, LeastExists
<1>3. PICK m \in S : r = bound - m BY <1>2
<1>4. ASSUME NEW k \in S PROVE k <= m
  <2>1. bound - m <= bound - k BY <1>2, <1>3
  <2>. QED BY <2>1
<1>. QED BY <1>4

(* A set of numbers that holds the predecessor of each but its least element  *)
(* has no hole.                                                               *)
LEMMA NoHole ==
    ASSUME NEW S, S \subseteq Nat, NEW least \in S,
           \A k \in S : k >= least,
           \A k \in S : k # least => k - 1 \in S,
           NEW m \in S, NEW n \in least..m
    PROVE  n \in S
<1>. SUFFICES ASSUME n \notin S PROVE FALSE OBVIOUS
<1>. DEFINE Above == {k \in S : k > n}
<1>1. m \in Above OBVIOUS
<1>2. PICK k \in Above : \A other \in Above : k <= other
  <2>1. Above \subseteq Nat OBVIOUS
  <2>. HIDE DEF Above
  <2>. QED BY <1>1, <2>1, LeastExists
<1>3. k - 1 \in S BY <1>2
<1>4. k - 1 \in Above BY <1>2, <1>3
<1>. QED BY <1>2, <1>4

-----------------------------------------------------------------------------
(* The window and its reader.                                                 *)

(* The inductive invariant: RecoveryCovers, and what it rests on - entries    *)
(* are numbered up to the latest, and only published entries are kept.        *)
HistoryInv ==
    /\ latest \in Nat
    /\ cursor \in Nat
    /\ told \in BOOLEAN
    /\ \A entry \in published : entry.sequence \in 1..latest
    /\ window \subseteq published
    /\ RecoveryCovers

LEMMA HighestIsGreatest ==
    ASSUME NEW numbers, numbers \subseteq Nat, numbers # {},
           NEW bound \in Nat, \A k \in numbers : k <= bound
    PROVE  /\ Highest(numbers) \in numbers
           /\ \A k \in numbers : k <= Highest(numbers)
BY GreatestExists DEF Highest

(* What a page says of its entries, whatever the window still holds.          *)
LEMMA PageCovers ==
    ASSUME HistoryInv, NEW limit \in Nat
    PROVE  LET page == Page(cursor, limit)
           IN  /\ page.entries \subseteq published
               /\ page.next \in cursor..latest
               /\ page.gap \in BOOLEAN
               /\ \A entry \in page.entries : entry.sequence <= page.next
               /\ page.gap \/ \A n \in cursor + 1..page.next :
                                \E entry \in page.entries : entry.sequence = n
<1>. DEFINE selected == Selected(cursor, limit)
            reached  == {cursor} \union Sequences(selected)
            full     == Cardinality(selected) = limit
            page     == Page(cursor, limit)
<1>1. /\ selected \subseteq published
      /\ \A entry \in selected : entry.sequence \in cursor + 1..latest
  BY DEF HistoryInv, Selected
<1>2. cursor \in Nat /\ latest \in Nat /\ cursor <= latest
  BY DEF HistoryInv, RecoveryCovers
<1>. HIDE DEF selected
<1>3. \A k \in reached : k \in cursor..latest
  BY <1>1, <1>2 DEF Sequences
<1>4. reached \subseteq Nat /\ reached # {} /\ cursor \in reached
  <2>1. cursor \in reached OBVIOUS
  <2>2. \A k \in reached : k \in Nat BY <1>2, <1>3
  <2>. QED BY <2>1, <2>2
<1>5. /\ page.entries = selected
      /\ page.next = IF full THEN Highest(reached) ELSE latest
      /\ page.gap = (\/ \E entry \in selected : entry.sequence - 1 \notin reached
                     \/ ~full /\ Highest(reached) < latest)
  BY DEF Page, selected
<1>6. \A entry \in selected : entry.sequence \in reached
  BY DEF Sequences
<1>7. \A k \in reached : k # cursor =>
        \E entry \in selected : entry.sequence = k
  BY DEF Sequences
<1>. HIDE DEF reached, full, page
<1>8. /\ Highest(reached) \in reached
      /\ \A k \in reached : k <= Highest(reached)
  <2>1. \A k \in reached : k <= latest BY <1>2, <1>3
  <2>. QED BY <1>2, <1>4, <2>1, HighestIsGreatest
<1>9. Highest(reached) \in cursor..latest BY <1>3, <1>8
<1>10. /\ page.entries \subseteq published
       /\ page.next \in cursor..latest
       /\ page.gap \in BOOLEAN
       /\ \A entry \in page.entries : entry.sequence <= page.next
  <2>1. page.next \in cursor..latest BY <1>2, <1>5, <1>9
  <2>2. \A entry \in selected : entry.sequence <= Highest(reached)
    BY <1>6, <1>8
  <2>3. \A entry \in selected : entry.sequence <= page.next
    BY <1>1, <1>2, <1>5, <2>2
  <2>. QED BY <1>1, <1>5, <2>1, <2>3
<1>11. ASSUME ~ page.gap, NEW n \in cursor + 1..page.next
       PROVE  \E entry \in page.entries : entry.sequence = n
  <2>1. /\ \A entry \in selected : entry.sequence - 1 \in reached
        /\ full \/ ~ (Highest(reached) < latest)
    BY <1>5, <1>11
  <2>2. page.next = Highest(reached)
    BY <1>2, <1>5, <1>9, <2>1
  <2>3. \A k \in reached : k # cursor => k - 1 \in reached
    BY <1>7, <2>1
  <2>4. n \in cursor..Highest(reached) /\ n # cursor
    BY <1>2, <1>9, <1>11, <2>2
  <2>5. \A k \in reached : k >= cursor BY <1>2, <1>3
  <2>6. n \in reached
    BY <1>4, <1>8, <2>3, <2>4, <2>5, NoHole
  <2>. QED BY <1>5, <1>7, <2>4, <2>6
<1>. QED BY <1>10, <1>11 DEF page

(* A page read keeps the invariant.                                           *)
LEMMA ReadKeeps ==
    ASSUME HistoryInv, NEW limit \in Nat, ReadPage(limit), UNCHANGED windowVars
    PROVE  HistoryInv'
<1>. DEFINE page == Page(cursor, limit)
<1>1. /\ cursor' = page.next
      /\ told' = (told \/ page.gap)
      /\ read' = read \union page.entries
      /\ window' = window /\ latest' = latest /\ published' = published
  BY DEF ReadPage, windowVars
<1>2. /\ page.entries \subseteq published
      /\ page.next \in cursor..latest
      /\ page.gap \in BOOLEAN
      /\ \A entry \in page.entries : entry.sequence <= page.next
      /\ page.gap \/ \A n \in cursor + 1..page.next :
                       \E entry \in page.entries : entry.sequence = n
  BY PageCovers
<1>. HIDE DEF page
<1>3. /\ latest \in Nat /\ cursor \in Nat /\ told \in BOOLEAN
      /\ \A entry \in published : entry.sequence \in 1..latest
      /\ window \subseteq published
      /\ cursor <= latest
      /\ read \subseteq published
      /\ \A entry \in read : entry.sequence <= cursor
      /\ told \/ \A n \in 1..cursor : \E entry \in read : entry.sequence = n
  BY DEF HistoryInv, RecoveryCovers
<1>4. \A entry \in read' : entry.sequence <= cursor'
  <2>1. \A entry \in read : entry.sequence <= page.next
    <3>1. \A entry \in read : entry.sequence \in Nat BY <1>3
    <3>. QED BY <1>2, <1>3, <3>1
  <2>. QED BY <1>1, <1>2, <2>1
<1>5. told' \/ \A n \in 1..cursor' : \E entry \in read' : entry.sequence = n
  <2>. SUFFICES ASSUME ~told', NEW n \in 1..cursor'
                PROVE  \E entry \in read' : entry.sequence = n
    OBVIOUS
  <2>1. ~told /\ ~page.gap BY <1>1
  <2>2. CASE n \in 1..cursor BY <1>1, <1>3, <2>1, <2>2
  <2>3. CASE n \in cursor + 1..page.next BY <1>1, <1>2, <2>1, <2>3
  <2>. QED BY <1>1, <1>2, <1>3, <2>2, <2>3
<1>. QED BY <1>1, <1>2, <1>3, <1>4, <1>5 DEF HistoryInv, RecoveryCovers

(* So does a finalization, kept or not.                                       *)
LEMMA PublishKeeps ==
    ASSUME HistoryInv, NEW summary, NEW size, NEW eligible \in BOOLEAN,
           PublishTerminal(summary, size, eligible), UNCHANGED readerVars
    PROVE  HistoryInv'
<1>. DEFINE entry == [sequence |-> latest + 1, size |-> size, summary |-> summary]
<1>1. /\ latest' = latest + 1
      /\ published' = published \union {entry}
      /\ window' \subseteq window \union {entry}
      /\ cursor' = cursor /\ told' = told /\ read' = read
  BY DEF PublishTerminal, Newest, readerVars
<1>2. entry.sequence = latest + 1 OBVIOUS
<1>. HIDE DEF entry
<1>3. \A one \in published' : one.sequence \in 1..latest'
  BY <1>1, <1>2 DEF HistoryInv
<1>4. RecoveryCovers'
  BY <1>1 DEF HistoryInv, RecoveryCovers
<1>. QED BY <1>1, <1>3, <1>4 DEF HistoryInv

-----------------------------------------------------------------------------
(* Dashboard: only a retiring context moves the window and only the two       *)
(* recoveries - after a pass, and in _close() - read it.                      *)

LEMMA StepKeeps == HistoryInv /\ [Next]_vars => HistoryInv'
<1>. SUFFICES ASSUME HistoryInv, [Next]_vars PROVE HistoryInv'
  OBVIOUS
<1>1. ASSUME UNCHANGED historyVars PROVE HistoryInv'
  BY <1>1 DEF historyVars, windowVars, readerVars, HistoryInv, RecoveryCovers
<1>2. ASSUME NEW c \in Context, Retire(c) PROVE HistoryInv'
  <2>1. PICK size \in inst.sizes : PublishTerminal(Summary(c), size, TRUE)
    BY <1>2 DEF Retire
  <2>2. UNCHANGED readerVars BY <1>2 DEF Retire
  <2>. QED BY <2>1, <2>2, PublishKeeps
<1>3. ASSUME RecoverTerminals, UNCHANGED windowVars PROVE HistoryInv'
  <2>1. PageLimit \in Nat BY DashboardAssumption
  <2>2. ReadPage(PageLimit) BY <1>3 DEF RecoverTerminals
  <2>. QED BY <1>3, <2>1, <2>2, ReadKeeps
<1>4. CASE Engine
  <2>1. CASE \E c \in Context : Retire(c) BY <1>2, <2>1
  <2>2. CASE UNCHANGED historyVars BY <1>1, <2>2
  <2>. QED BY <1>4, <2>1, <2>2 DEF Engine
<1>5. CASE Hub BY <1>1, <1>5 DEF Hub
<1>6. CASE Application BY <1>1, <1>6 DEF Application
<1>7. CASE Loop
  <2>1. CASE EndPass BY <1>3, <2>1 DEF EndPass
  <2>2. CASE CloseRecover BY <1>3, <2>2 DEF CloseRecover
  <2>3. CASE ConsumeEvent BY <1>1, <2>3 DEF ConsumeEvent
  <2>4. CASE AwaitEvent BY <1>1, <2>4 DEF AwaitEvent
  <2>5. CASE BeginPass BY <1>1, <2>5 DEF BeginPass
  <2>6. CASE \E c \in Context : Sample(c) BY <1>1, <2>6 DEF Sample
  <2>7. CASE \E r \in Request, c \in Context,
                a \in {"pause", "resume", "stop", "abort"} : Control(r, c, a)
    BY <1>1, <2>7 DEF Control
  <2>8. CASE Payload BY <1>1, <2>8 DEF Payload
  <2>9. CASE BeginClose BY <1>1, <2>9 DEF BeginClose
  <2>10. CASE Drain BY <1>1, <2>10 DEF Drain
  <2>11. CASE FinishClose BY <1>1, <2>11 DEF FinishClose
  <2>. QED BY <1>7, <2>1, <2>2, <2>3, <2>4, <2>5, <2>6, <2>7, <2>8, <2>9,
              <2>10, <2>11 DEF Loop
<1>8. CASE \E c \in Context : Age(c) BY <1>1, <1>8 DEF Age
<1>9. CASE UNCHANGED vars BY <1>1, <1>9 DEF vars
<1>. QED BY <1>4, <1>5, <1>6, <1>7, <1>8, <1>9 DEF Next

(* No finalization escapes the dashboard without a word: whatever the window  *)
(* drops while a pass is under way, and however its pages are cut, every      *)
(* number the cursor has passed was read with the summary it was published    *)
(* with, or a page told of a gap.                                             *)
THEOREM RecoveryIsComplete == Spec => []RecoveryCovers
<1>1. Init => HistoryInv
  <2>. SUFFICES ASSUME HistoryInit PROVE HistoryInv BY DEF Init
  <2>1. /\ latest = 0 /\ cursor = 0 /\ told = FALSE
        /\ window = {} /\ published = {} /\ read = {}
    BY DEF HistoryInit
  <2>2. RecoveryCovers BY <2>1 DEF RecoveryCovers
  <2>. QED BY <2>1, <2>2 DEF HistoryInv
<1>2. HistoryInv => RecoveryCovers BY DEF HistoryInv
<1>. QED BY <1>1, <1>2, StepKeeps, PTL DEF Spec
-----------------------------------------------------------------------------
(* Observation: what an observer has heard of, what is in its queue and what  *)
(* is on its way are one sequence.                                            *)

(* What the engine's side, the hub and the observers can hold.                *)
States == {"NEW", "SUBMITTED", "QUEUED", "RUNNING", "PAUSED", "ABORTING",
           "FINISHED", "ABORTED"}
Life == [state : States, phase : {"LIVE", "FINAL", "RETIRED"}, revision : Nat,
         events : Nat, stop : BOOLEAN, stores : Nat, accepted : Nat,
         next : States \cup {None}]
Event == [context : Context, number : Nat, revision : Nat, state : States,
          final : BOOLEAN, stop : BOOLEAN]
Intent == [action : {"pause", "resume", "stop", "abort"}, revision : Nat \cup {None}]
Publication == [event : Event \cup {None}, locked : BOOLEAN,
                to : SUBSET Observer, refused : SUBSET Observer]
Inbox == [queue : Seq(Event), closed : BOOLEAN, overflowed : BOOLEAN]
Fresh == [queue |-> << >>, closed |-> FALSE, overflowed |-> FALSE]

TypesHold ==
    /\ inst \in Instances
    /\ context \in [Context -> Life]
    /\ sending \in [Context -> Publication]
    /\ intents \in [Context -> Seq(Intent)]
    /\ registered \in SUBSET Observer
    /\ observer \in [Observer -> Inbox]
    /\ consumer \in [Observer -> {"ABSENT", "IDLE", "WAITING", "WOKEN", "STOPPED", "FAILED"}]
    /\ heard \in [Observer -> [Context -> Nat]]

(* A publication is the last event of its context; an observer that refused   *)
(* it will take nothing any more.                                             *)
PublicationSound(c) ==
    /\ Sending(c) => /\ sending[c].event \in Event
                     /\ sending[c].event.context = c
                     /\ sending[c].event.number = context[c].events
    /\ \A o \in sending[c].to : Visible(o, c)
    /\ \A o \in sending[c].refused : consumer[o] # "ABSENT" /\ ~Open(o)

(* An observer is registered exactly as long as it takes events; one that was *)
(* not told of an overflow is where its queue continues.                      *)
AbsentIsFresh(o) ==
    consumer[o] = "ABSENT" =>
        /\ o \notin registered /\ observer[o] = Fresh
        /\ \A c \in Context : o \notin sending[c].to
RegisteredIsOpen(o) ==
    /\ o \in registered => ~observer[o].closed
    /\ consumer[o] # "ABSENT" /\ Open(o) => o \in registered
WaitingIsIdle(o) == consumer[o] = "WAITING" => Open(o) /\ observer[o].queue = << >>
HearsAll(o) ==
    ~observer[o].overflowed =>
        \A c \in inst.scope[o] \ {inst.owner[o]} : Continues(o, c)

DashboardClosed ==
    /\ phase \in {"ABSENT", "SERVING", "DRAINING", "RECOVERED", "CLOSED"}
    /\ phase \notin {"ABSENT", "SERVING"} => observer[Dash].closed

ObservedInv ==
    /\ TypesHold
    /\ \A c \in Context : PublicationSound(c)
    /\ \A o \in Observer : /\ AbsentIsFresh(o) /\ RegisteredIsOpen(o)
                           /\ WaitingIsIdle(o) /\ HearsAll(o)
    /\ DashboardClosed

(* The part of a queue that is about one context.                             *)
Places(q, c) == {i \in DOMAIN q : q[i].context = c}
Numbers(q, c) == {q[i].number : i \in Places(q, c)}
Ascending(q, c) == \A i, j \in Places(q, c) : i < j => q[i].number < q[j].number

LEMMA ContinuesIs ==
    ASSUME NEW o, NEW c
    PROVE  Continues(o, c) <=>
               /\ Ascending(observer[o].queue, c)
               /\ \E last \in heard[o][c]..context[c].events :
                    /\ Numbers(observer[o].queue, c) = heard[o][c] + 1..last
                    /\ o \in registered => last = Owed(o, c)
BY DEF Continues, Ascending, Numbers, Queued, From, Places

LEMMA AppendContinues ==
    ASSUME NEW q \in Seq(Event), NEW e \in Event, NEW c, NEW h \in Nat, NEW last \in Nat,
           Ascending(q, c), Numbers(q, c) = h + 1..last, h <= last
    PROVE  /\ e.context # c => /\ Ascending(Append(q, e), c)
                               /\ Numbers(Append(q, e), c) = h + 1..last
           /\ e.context = c /\ e.number = last + 1 =>
                /\ Ascending(Append(q, e), c)
                /\ Numbers(Append(q, e), c) = h + 1..last + 1
<1>. DEFINE r == Append(q, e)
<1>1. /\ Len(q) \in Nat /\ DOMAIN q = 1..Len(q) /\ DOMAIN r = 1..Len(q) + 1
      /\ \A i \in 1..Len(q) : r[i] = q[i]
      /\ r[Len(q) + 1] = e
  OBVIOUS
<1>. HIDE DEF r
<1>2. ASSUME e.context # c
      PROVE  Ascending(r, c) /\ Numbers(r, c) = h + 1..last
  <2>1. Places(r, c) = Places(q, c) BY <1>1, <1>2 DEF Places
  <2>2. \A i \in Places(q, c) : r[i] = q[i] BY <1>1 DEF Places
  <2>3. Numbers(r, c) = Numbers(q, c) BY <2>1, <2>2 DEF Numbers
  <2>4. Ascending(r, c) BY <2>1, <2>2 DEF Ascending
  <2>. QED BY <2>3, <2>4
<1>3. ASSUME e.context = c, e.number = last + 1
      PROVE  Ascending(r, c) /\ Numbers(r, c) = h + 1..last + 1
  <2>. DEFINE n == Len(q) + 1
  <2>1. Places(r, c) = Places(q, c) \cup {n} BY <1>1, <1>3 DEF Places
  <2>2. \A i \in Places(q, c) : r[i] = q[i] /\ i < n /\ i \in Nat BY <1>1 DEF Places
  <2>3. r[n].number = last + 1 /\ n \in Nat BY <1>1, <1>3
  <2>. HIDE DEF n
  <2>4. Numbers(r, c) = Numbers(q, c) \cup {last + 1}
    BY <2>1, <2>2, <2>3 DEF Numbers
  <2>5. \A i \in Places(q, c) : q[i].number \in h + 1..last BY DEF Numbers
  <2>6. ASSUME NEW i \in Places(r, c), NEW j \in Places(r, c), i < j
        PROVE  r[i].number < r[j].number
    <3>1. i \in Places(q, c) BY <2>1, <2>2, <2>3, <2>6
    <3>2. CASE j = n
      <4>1. r[i].number \in h + 1..last BY <2>2, <2>5, <3>1
      <4>2. r[j].number = last + 1 BY <2>3, <3>2
      <4>. QED BY <4>1, <4>2
    <3>3. CASE j \in Places(q, c) BY <2>2, <2>6, <3>1, <3>3 DEF Ascending
    <3>. QED BY <2>1, <3>2, <3>3
  <2>7. Numbers(r, c) = h + 1..last + 1
    <3>1. h + 1..last + 1 = (h + 1..last) \cup {last + 1} OBVIOUS
    <3>. QED BY <2>4, <3>1
  <2>. QED BY <2>6, <2>7 DEF Ascending
<1>. QED BY <1>2, <1>3 DEF r

(* A queue holds of c exactly the events after h up to last, in order; with    *)
(* the next event at its end it holds one more.                               *)
Runs(q, c, h, last) ==
    Ascending(q, c) /\ Numbers(q, c) = h + 1..last /\ h <= last

LEMMA AppendNext ==
    ASSUME NEW q \in Seq(Event), NEW e \in Event, NEW c, NEW h \in Nat, NEW last \in Nat,
           Runs(q, c, h, last), e.context = c, e.number = last + 1
    PROVE  Runs(Append(q, e), c, h, last + 1)
BY AppendContinues DEF Runs

LEMMA TailContinues ==
    ASSUME NEW q \in Seq(Event), q # << >>, NEW c, NEW h \in Nat, NEW last \in Nat,
           Ascending(q, c), Numbers(q, c) = h + 1..last, h <= last
    PROVE  /\ Ascending(Tail(q), c)
           /\ Head(q).context # c => Numbers(Tail(q), c) = h + 1..last
           /\ Head(q).context = c =>
                /\ Head(q).number = h + 1 /\ h + 1 <= last
                /\ Numbers(Tail(q), c) = h + 1 + 1..last
<1>. DEFINE r == Tail(q)
<1>1. /\ Len(q) \in Nat \ {0} /\ DOMAIN q = 1..Len(q) /\ DOMAIN r = 1..Len(q) - 1
      /\ \A i \in 1..Len(q) - 1 : r[i] = q[i + 1]
      /\ Head(q) = q[1]
  OBVIOUS
<1>. HIDE DEF r
<1>2. \A i \in Places(r, c) : i \in Nat /\ i + 1 \in Places(q, c) /\ r[i] = q[i + 1]
  BY <1>1 DEF Places
<1>3. Ascending(r, c) BY <1>2 DEF Ascending
<1>4. \A i \in Places(q, c) : i # 1 => i - 1 \in Places(r, c) /\ r[i - 1] = q[i]
  BY <1>1 DEF Places
<1>5. Numbers(r, c) = {q[i].number : i \in Places(q, c) \ {1}}
  <2>1. ASSUME NEW i \in Places(r, c)
        PROVE  \E j \in Places(q, c) \ {1} : r[i].number = q[j].number
    <3>1. i + 1 # 1 /\ i + 1 \in Places(q, c) /\ r[i].number = q[i + 1].number
      <4>1. i >= 1 BY <1>1 DEF Places
      <4>. QED BY <1>2, <4>1
    <3>. QED BY <3>1
  <2>2. ASSUME NEW j \in Places(q, c) \ {1}
        PROVE  \E i \in Places(r, c) : r[i].number = q[j].number
    BY <1>4
  <2>. QED BY <2>1, <2>2 DEF Numbers
<1>6. \A i \in Places(q, c) : q[i].number \in h + 1..last BY DEF Numbers
<1>7. \A n \in h + 1..last : \E i \in Places(q, c) : q[i].number = n BY DEF Numbers
<1>8. ASSUME Head(q).context # c PROVE Numbers(r, c) = h + 1..last
  <2>1. 1 \notin Places(q, c) BY <1>1, <1>8 DEF Places
  <2>. QED BY <1>5, <2>1 DEF Numbers
<1>9. ASSUME Head(q).context = c
      PROVE  /\ Head(q).number = h + 1 /\ h + 1 <= last
             /\ Numbers(r, c) = h + 1 + 1..last
  <2>1. 1 \in Places(q, c) BY <1>1, <1>9 DEF Places
  <2>2. \A i \in Places(q, c) : i # 1 => q[1].number < q[i].number
    <3>1. \A i \in Places(q, c) : i \in Nat /\ i >= 1 BY <1>1 DEF Places
    <3>. QED BY <2>1, <3>1 DEF Ascending
  <2>3. h + 1 \in h + 1..last BY <1>6, <2>1
  <2>4. q[1].number = h + 1
    <3>1. PICK i \in Places(q, c) : q[i].number = h + 1 BY <1>7, <2>3
    <3>2. q[1].number \in h + 1..last BY <1>6, <2>1
    <3>. QED BY <2>2, <3>1, <3>2
  <2>5. ASSUME NEW i \in Places(q, c) \ {1} PROVE q[i].number \in h + 1 + 1..last
    <3>1. q[i].number \in h + 1..last /\ h + 1 < q[i].number BY <1>6, <2>2, <2>4
    <3>. QED BY <3>1
  <2>6. ASSUME NEW n \in h + 1 + 1..last
        PROVE  \E i \in Places(q, c) \ {1} : q[i].number = n
    <3>1. n \in h + 1..last OBVIOUS
    <3>2. PICK i \in Places(q, c) : q[i].number = n BY <1>7, <3>1
    <3>. QED BY <2>4, <3>2
  <2>. QED BY <1>1, <1>5, <2>3, <2>4, <2>5, <2>6
<1>. QED BY <1>3, <1>8, <1>9 DEF r

LEMMA ObservedTypes ==
    ASSUME TypesHold
    PROVE  /\ \A c \in Context : /\ context[c] \in Life /\ context[c].events \in Nat
                                 /\ sending[c] \in Publication
                                 /\ sending[c].to \subseteq Observer
                                 /\ intents[c] \in Seq(Intent)
           /\ \A o \in Observer : /\ observer[o] \in Inbox /\ observer[o].queue \in Seq(Event)
                                  /\ heard[o] \in [Context -> Nat]
                                  /\ inst.scope[o] \subseteq Context
<1>1. inst \in Instances BY DEF TypesHold
<1>2. \A o \in Observer : inst.scope[o] \subseteq Context
  BY <1>1, ObservationAssumption
<1>3. \A c \in Context : context[c] \in Life /\ sending[c] \in Publication
                         /\ intents[c] \in Seq(Intent)
  BY DEF TypesHold
<1>4. \A c \in Context : context[c].events \in Nat BY <1>3 DEF Life
<1>5. \A c \in Context : sending[c].to \subseteq Observer BY <1>3 DEF Publication
<1>6. \A o \in Observer : observer[o] \in Inbox /\ heard[o] \in [Context -> Nat]
  BY DEF TypesHold
<1>7. \A o \in Observer : observer[o].queue \in Seq(Event) BY <1>6 DEF Inbox
<1>. QED BY <1>2, <1>3, <1>4, <1>5, <1>6, <1>7

(* An observer that nothing happens to stays where it is, as long as what it  *)
(* is owed stays what it was.                                                 *)
LEMMA StillContinues ==
    ASSUME TypesHold, NEW o \in Observer, NEW c \in Context, Continues(o, c),
           observer'[o].queue = observer[o].queue, heard'[o][c] = heard[o][c],
           context'[c].events \in Nat, context[c].events <= context'[c].events,
           o \in registered' => o \in registered /\ Owed(o, c)' = Owed(o, c)
    PROVE  Continues(o, c)'
<1>1. PICK last \in heard[o][c]..context[c].events :
            /\ Numbers(observer[o].queue, c) = heard[o][c] + 1..last
            /\ o \in registered => last = Owed(o, c)
  BY ContinuesIs
<1>2. Ascending(observer[o].queue, c) BY ContinuesIs
<1>3. heard[o][c] \in Nat /\ context[c].events \in Nat BY ObservedTypes
<1>4. last \in heard[o][c]..context'[c].events BY <1>3
<1>5. /\ Ascending(observer'[o].queue, c)
      /\ Numbers(observer'[o].queue, c) = heard'[o][c] + 1..last
      /\ o \in registered' => last = Owed(o, c)'
      /\ last \in heard'[o][c]..context'[c].events
  BY <1>1, <1>2, <1>4
<1>. QED BY <1>5 DEF Continues, Ascending, Numbers, Queued, From, Places

-----------------------------------------------------------------------------
(* The engine's side.                                                         *)

LEMMA TouchedIs ==
    ASSUME NEW record \in Life
    PROVE  Touched(record) \in Life /\ Touched(record).events = record.events
BY DEF Touched, Life

LEMMA CountedIs ==
    ASSUME NEW record \in Life
    PROVE  /\ [record EXCEPT !.events = @ + 1] \in Life
           /\ [record EXCEPT !.events = @ + 1].events = record.events + 1
BY DEF Life

(* What an announcement is: one event more, sent to who is registered now.    *)
LEMMA Announced ==
    ASSUME TypesHold, NEW c \in Context, NEW record \in Life, NEW locked \in BOOLEAN,
           Announce(c, record, locked)
    PROVE  \E now \in Life, event \in Event :
             /\ now.events = record.events + 1
             /\ event.context = c /\ event.number = now.events
             /\ context' = [context EXCEPT ![c] = now]
             /\ sending' = [sending EXCEPT ![c] =
                    [event |-> event, locked |-> locked,
                     to |-> {o \in registered : Visible(o, c)}, refused |-> {}]]
<1>. DEFINE counted == [record EXCEPT !.events = @ + 1]
            now == Touched(counted)
            event == [context  |-> c, number |-> now.events, revision |-> now.revision,
                      state |-> now.state, final |-> now.phase # "LIVE", stop |-> now.stop]
<1>1. counted \in Life /\ counted.events = record.events + 1 BY CountedIs
<1>2. now \in Life /\ now.events = record.events + 1
  <2>. HIDE DEF counted
  <2>. QED BY <1>1, TouchedIs
<1>3. /\ context' = [context EXCEPT ![c] = now]
      /\ sending' = [sending EXCEPT ![c] =
                    [event |-> event, locked |-> locked,
                     to |-> {o \in registered : Visible(o, c)}, refused |-> {}]]
  BY DEF Announce
<1>. HIDE DEF now
<1>4. event \in Event BY <1>2 DEF Event, Life
<1>5. event.context = c /\ event.number = now.events OBVIOUS
<1>. HIDE DEF event
<1>. QED BY <1>2, <1>3, <1>4, <1>5

(* A step of the engine changes contexts, what they publish and what is asked *)
(* of them, one context at a time.                                            *)
EngineMoves(c) ==
    /\ intents' \in [Context -> Seq(Intent)]
    /\ UNCHANGED <<inst, hubVars, consumer, heard, phase>>

LEMMA EngineKeeps ==
    ASSUME ObservedInv, NEW c \in Context, EngineMoves(c), ~Sending(c),
           NEW now \in Life, context' = [context EXCEPT ![c] = now],
           \/ now.events = context[c].events /\ sending' = sending
           \/ /\ now.events = context[c].events + 1
              /\ \E event \in Event, locked \in BOOLEAN :
                    /\ event.context = c /\ event.number = now.events
                    /\ sending' = [sending EXCEPT ![c] =
                            [event |-> event, locked |-> locked,
                             to |-> {o \in registered : Visible(o, c)}, refused |-> {}]]
    PROVE  ObservedInv'
<1>0. TypesHold /\ DashboardClosed BY DEF ObservedInv
<1>1. /\ inst' = inst /\ registered' = registered /\ observer' = observer
      /\ consumer' = consumer /\ heard' = heard /\ phase' = phase
  BY DEF EngineMoves, hubVars
<1>2. context' \in [Context -> Life] BY <1>0 DEF TypesHold
<1>3. /\ context'[c] = now /\ \A d \in Context \ {c} : context'[d] = context[d]
      /\ now.events \in Nat
  BY <1>0 DEF TypesHold, Life
<1>4. sending[c] = Quiet BY DEF Sending
<1>5. /\ sending' \in [Context -> Publication]
      /\ \A d \in Context \ {c} : sending'[d] = sending[d]
      /\ sending'[c].to \subseteq {o \in registered : Visible(o, c)}
      /\ sending'[c].refused = {}
  <2>1. CASE sending' = sending BY <1>0, <1>4, <2>1 DEF Quiet, TypesHold
  <2>2. ASSUME NEW event \in Event, NEW locked \in BOOLEAN,
               sending' = [sending EXCEPT ![c] =
                            [event |-> event, locked |-> locked,
                             to |-> {o \in registered : Visible(o, c)}, refused |-> {}]]
        PROVE  /\ sending' \in [Context -> Publication]
               /\ \A d \in Context \ {c} : sending'[d] = sending[d]
               /\ sending'[c].to \subseteq {o \in registered : Visible(o, c)}
               /\ sending'[c].refused = {}
    <3>1. [event |-> event, locked |-> locked,
           to |-> {o \in registered : Visible(o, c)}, refused |-> {}] \in Publication
      BY <1>0 DEF TypesHold, Publication
    <3>. QED BY <1>0, <2>2, <3>1 DEF TypesHold
  <2>. QED BY <2>1, <2>2
<1>6. TypesHold' BY <1>0, <1>1, <1>2, <1>5 DEF TypesHold, EngineMoves
<1>7. ASSUME NEW d \in Context PROVE PublicationSound(d)'
  <2>1. PublicationSound(d) BY DEF ObservedInv
  <2>2. \A o : Visible(o, d)' = Visible(o, d) BY <1>1 DEF Visible
  <2>3. \A o : Open(o)' = Open(o) BY <1>1 DEF Open
  <2>4. CASE d # c BY <1>1, <1>3, <1>5, <2>1, <2>2, <2>3, <2>4 DEF PublicationSound, Sending
  <2>5. CASE d = c
    <3>1. Sending(c)' => /\ sending'[c].event \in Event
                         /\ sending'[c].event.context = c
                         /\ sending'[c].event.number = context'[c].events
      <4>1. CASE sending' = sending BY <1>4, <4>1 DEF Sending, Quiet
      <4>2. ASSUME NEW event \in Event, NEW locked \in BOOLEAN, now.events = context[c].events + 1,
                   event.context = c, event.number = now.events,
                   sending' = [sending EXCEPT ![c] =
                            [event |-> event, locked |-> locked,
                             to |-> {o \in registered : Visible(o, c)}, refused |-> {}]]
            PROVE  /\ sending'[c].event \in Event
                   /\ sending'[c].event.context = c
                   /\ sending'[c].event.number = context'[c].events
        <5>1. sending'[c] = [event |-> event, locked |-> locked,
                             to |-> {o \in registered : Visible(o, c)}, refused |-> {}]
          BY <1>0, <4>2 DEF TypesHold
        <5>. QED BY <1>3, <4>2, <5>1
      <4>. QED BY <4>1, <4>2
    <3>. QED BY <1>1, <1>5, <2>2, <2>5, <3>1 DEF PublicationSound
  <2>. QED BY <2>4, <2>5
<1>8. ASSUME NEW o \in Observer PROVE AbsentIsFresh(o)'
  <2>1. AbsentIsFresh(o) BY DEF ObservedInv
  <2>. QED BY <1>1, <1>5, <2>1 DEF AbsentIsFresh
<1>9. ASSUME NEW o \in Observer PROVE RegisteredIsOpen(o)' /\ WaitingIsIdle(o)'
  <2>1. RegisteredIsOpen(o) /\ WaitingIsIdle(o) BY DEF ObservedInv
  <2>. QED BY <1>1, <2>1 DEF RegisteredIsOpen, WaitingIsIdle, Open
<1>10. ASSUME NEW o \in Observer PROVE HearsAll(o)'
  <2>. SUFFICES ASSUME ~observer[o].overflowed,
                       NEW d \in inst.scope[o] \ {inst.owner[o]}
                PROVE  Continues(o, d)'
    BY <1>1 DEF HearsAll
  <2>1. d \in Context BY <1>0, ObservedTypes
  <2>2. Continues(o, d) BY DEF ObservedInv, HearsAll
  <2>3. Visible(o, d) BY DEF Visible
  <2>4. context[d].events \in Nat /\ context'[d].events \in Nat
        /\ context[d].events <= context'[d].events
    BY <1>0, <1>3, <2>1, ObservedTypes
  <2>5. ASSUME o \in registered PROVE Owed(o, d)' = Owed(o, d)
    <3>1. CASE d # c BY <1>3, <1>5, <2>1, <3>1 DEF Owed
    <3>2. CASE d = c
      <4>1. o \notin sending[c].to BY <1>4 DEF Quiet
      <4>2. CASE now.events = context[c].events /\ sending' = sending
        BY <1>3, <3>2, <4>2 DEF Owed
      <4>3. CASE now.events = context[c].events + 1 /\ o \in sending'[c].to
        BY <1>3, <2>4, <3>2, <4>1, <4>3 DEF Owed
      <4>4. \/ now.events = context[c].events /\ sending' = sending
            \/ now.events = context[c].events + 1 /\ o \in sending'[c].to
        <5>1. ASSUME NEW event, NEW locked,
                     sending' = [sending EXCEPT ![c] =
                            [event |-> event, locked |-> locked,
                             to |-> {p \in registered : Visible(p, c)}, refused |-> {}]]
              PROVE  o \in sending'[c].to
          BY <1>0, <2>3, <2>5, <3>2, <5>1 DEF TypesHold
        <5>. QED BY <5>1
      <4>. QED BY <4>2, <4>3, <4>4
    <3>. QED BY <3>1, <3>2
  <2>. QED BY <1>0, <1>1, <2>1, <2>2, <2>4, <2>5, StillContinues
<1>11. DashboardClosed' BY <1>0, <1>1 DEF DashboardClosed
<1>. QED BY <1>6, <1>7, <1>8, <1>9, <1>10, <1>11 DEF ObservedInv

LEMMA AnnounceKeeps ==
    ASSUME ObservedInv, NEW c \in Context, EngineMoves(c), ~Sending(c),
           NEW record \in Life, record.events = context[c].events,
           NEW locked \in BOOLEAN, Announce(c, record, locked)
    PROVE  ObservedInv'
<1>1. TypesHold BY DEF ObservedInv
<1>2. PICK now \in Life, event \in Event :
             /\ now.events = record.events + 1
             /\ event.context = c /\ event.number = now.events
             /\ context' = [context EXCEPT ![c] = now]
             /\ sending' = [sending EXCEPT ![c] =
                    [event |-> event, locked |-> locked,
                     to |-> {o \in registered : Visible(o, c)}, refused |-> {}]]
  BY <1>1, Announced
<1>3. now.events = context[c].events + 1 BY <1>2
<1>. QED BY <1>2, <1>3, EngineKeeps

LEMMA ChangeKeeps ==
    ASSUME ObservedInv, NEW c \in Context, EngineMoves(c), ~Sending(c),
           NEW record \in Life, record.events = context[c].events, Change(c, record)
    PROVE  ObservedInv'
<1>1. Touched(record) \in Life /\ Touched(record).events = context[c].events
  BY TouchedIs
<1>2. context' = [context EXCEPT ![c] = Touched(record)] /\ sending' = sending
  BY DEF Change
<1>. QED BY <1>1, <1>2, EngineKeeps

LEMMA Updated ==
    ASSUME NEW record \in Life
    PROVE  /\ \A s \in States : /\ [record EXCEPT !.state = s] \in Life
                                /\ [record EXCEPT !.state = s].events = record.events
           /\ \A s \in States : /\ [record EXCEPT !.state = s, !.next = None] \in Life
                                /\ [record EXCEPT !.state = s, !.next = None].events
                                        = record.events
           /\ \A s \in States \cup {None} :
                /\ [record EXCEPT !.stop = TRUE, !.next = s] \in Life
                /\ [record EXCEPT !.stop = TRUE, !.next = s].events = record.events
           /\ \A n \in Nat : /\ [record EXCEPT !.stores = n] \in Life
                             /\ [record EXCEPT !.stores = n].events = record.events
           /\ \A n \in Nat : /\ [record EXCEPT !.accepted = n] \in Life
                             /\ [record EXCEPT !.accepted = n].events = record.events
           /\ \A p \in {"FINAL", "RETIRED"} :
                /\ [record EXCEPT !.phase = p] \in Life
                /\ [record EXCEPT !.phase = p].events = record.events
BY DEF Life

LEMMA ControlledKeeps ==
    ASSUME ObservedInv, NEW c \in Context, EngineMoves(c), ~Sending(c),
           NEW now \in Life, now.events = context[c].events, NEW action,
           Controlled(c, now, action)
    PROVE  ObservedInv'
<1>1. CASE action = "pause" /\ now.state = "RUNNING"
  <2>1. Announce(c, [now EXCEPT !.state = "PAUSED"], TRUE) BY <1>1 DEF Controlled
  <2>2. "PAUSED" \in States BY DEF States
  <2>. QED BY <2>1, <2>2, Updated, AnnounceKeeps
<1>2. CASE action = "resume" /\ now.state = "PAUSED"
  <2>1. Announce(c, [now EXCEPT !.state = "RUNNING"], TRUE) BY <1>2 DEF Controlled
  <2>2. "RUNNING" \in States BY DEF States
  <2>. QED BY <2>1, <2>2, Updated, AnnounceKeeps
<1>3. CASE action = "stop" /\ ~now.stop /\ now.state \in {"QUEUED", "RUNNING", "PAUSED"}
  <2>. DEFINE next == CASE now.state = "QUEUED" -> "FINISHED"
                        [] now.state = "PAUSED" -> "RUNNING"
                        [] OTHER -> None
  <2>1. Announce(c, [now EXCEPT !.stop = TRUE, !.next = next], TRUE)
    BY <1>3 DEF Controlled
  <2>2. next \in States \cup {None} BY DEF States
  <2>. HIDE DEF next
  <2>. QED BY <2>1, <2>2, Updated, AnnounceKeeps
<1>4. CASE action = "abort" /\ now.state \in {"RUNNING", "PAUSED"}
  <2>1. Announce(c, [now EXCEPT !.state = "ABORTING"], TRUE) BY <1>4 DEF Controlled
  <2>2. "ABORTING" \in States BY DEF States
  <2>. QED BY <2>1, <2>2, Updated, AnnounceKeeps
<1>5. CASE action = "abort" /\ now.state = "QUEUED"
  <2>1. Change(c, [now EXCEPT !.state = "ABORTED"]) BY <1>5 DEF Controlled
  <2>2. "ABORTED" \in States BY DEF States
  <2>. QED BY <2>1, <2>2, Updated, ChangeKeeps
<1>6. CASE ~ \/ action = "pause" /\ now.state = "RUNNING"
             \/ action = "resume" /\ now.state = "PAUSED"
             \/ action = "stop" /\ ~now.stop /\ now.state \in {"QUEUED", "RUNNING", "PAUSED"}
             \/ action = "abort" /\ now.state \in {"RUNNING", "PAUSED"}
             \/ action = "abort" /\ now.state = "QUEUED"
  <2>1. context' = [context EXCEPT ![c] = now] /\ sending' = sending
    BY <1>6 DEF Controlled
  <2>. QED BY <2>1, EngineKeeps
<1>. QED BY <1>1, <1>2, <1>3, <1>4, <1>5, <1>6

LEMMA EngineStepKeeps ==
    ASSUME ObservedInv, NEW c \in Context, EngineStep(c), phase' = phase
    PROVE  ObservedInv'
<1>0. TypesHold BY DEF ObservedInv
<1>1. context[c] \in Life /\ intents \in [Context -> Seq(Intent)] BY <1>0 DEF TypesHold
<1>2. UNCHANGED <<inst, hubVars, consumer, heard, phase>> BY DEF EngineStep
<1>3. ASSUME intents' = intents PROVE EngineMoves(c)
  BY <1>1, <1>2, <1>3 DEF EngineMoves
<1>4. ASSUME Free(c) PROVE ~Sending(c) BY <1>4 DEF Free
<1>5. ASSUME NEW from, NEW to \in States, Moved(c, from, to) PROVE ObservedInv'
  <2>1. Announce(c, [context[c] EXCEPT !.state = to], TRUE) /\ ~Sending(c) /\ EngineMoves(c)
    BY <1>3, <1>4, <1>5 DEF Moved, Settled
  <2>2. /\ [context[c] EXCEPT !.state = to] \in Life
        /\ [context[c] EXCEPT !.state = to].events = context[c].events
    BY <1>1, Updated
  <2>. QED BY <2>1, <2>2, AnnounceKeeps
<1>6. /\ "SUBMITTED" \in States /\ "QUEUED" \in States /\ "RUNNING" \in States
      /\ "FINISHED" \in States /\ "ABORTED" \in States
  BY DEF States
<1>7. CASE SubmitContext(c) BY <1>5, <1>6, <1>7 DEF SubmitContext
<1>8. CASE QueueContext(c) BY <1>5, <1>6, <1>8 DEF QueueContext
<1>9. CASE StartContext(c) BY <1>5, <1>6, <1>9 DEF StartContext
<1>10. CASE StoreValue(c)
  <2>. DEFINE n == context[c].stores + 1
  <2>1. Announce(c, [context[c] EXCEPT !.stores = n], FALSE) /\ ~Sending(c) /\ EngineMoves(c)
    BY <1>3, <1>4, <1>10 DEF StoreValue, Settled
  <2>2. n \in Nat BY <1>1 DEF Life
  <2>. HIDE DEF n
  <2>3. /\ [context[c] EXCEPT !.stores = n] \in Life
        /\ [context[c] EXCEPT !.stores = n].events = context[c].events
    BY <1>1, <2>2, Updated
  <2>. QED BY <2>1, <2>3, AnnounceKeeps
<1>11. CASE EndContext(c)
  <2>. DEFINE s == IF context[c].state = "RUNNING" THEN "FINISHED" ELSE "ABORTED"
  <2>1. Change(c, [context[c] EXCEPT !.state = s]) /\ ~Sending(c) /\ EngineMoves(c)
    BY <1>3, <1>4, <1>11 DEF EndContext, Settled
  <2>2. s \in States BY <1>6
  <2>. HIDE DEF s
  <2>3. /\ [context[c] EXCEPT !.state = s] \in Life
        /\ [context[c] EXCEPT !.state = s].events = context[c].events
    BY <1>1, <2>2, Updated
  <2>. QED BY <2>1, <2>3, ChangeKeeps
<1>12. CASE FinalizeContext(c)
  <2>1. Announce(c, [context[c] EXCEPT !.phase = "FINAL"], FALSE) /\ ~Sending(c)
        /\ EngineMoves(c)
    BY <1>3, <1>4, <1>12 DEF FinalizeContext, Settled
  <2>2. /\ [context[c] EXCEPT !.phase = "FINAL"] \in Life
        /\ [context[c] EXCEPT !.phase = "FINAL"].events = context[c].events
    BY <1>1, Updated
  <2>. QED BY <2>1, <2>2, AnnounceKeeps
<1>13. CASE HandleControl(c)
  <2>. DEFINE q == intents[c]
              intent == Head(q)
  <2>1. /\ ~Sending(c) /\ q # << >>
        /\ IF Stale(c, intent) THEN UNCHANGED <<context, sending>>
           ELSE Controlled(c, Accepted(c, intent), intent.action)
        /\ intents' = [intents EXCEPT ![c] = Tail(q)]
    BY <1>4, <1>13 DEF HandleControl, Settled
  <2>2. q \in Seq(Intent) BY <1>1
  <2>3. intent \in Intent /\ Tail(q) \in Seq(Intent)
    <3>. HIDE DEF q
    <3>. QED BY <2>1, <2>2
  <2>4. intents' \in [Context -> Seq(Intent)] BY <1>1, <2>1, <2>3
  <2>5. EngineMoves(c) BY <1>2, <2>4 DEF EngineMoves
  <2>. HIDE DEF intent
  <2>6. CASE Stale(c, intent)
    <3>1. context' = [context EXCEPT ![c] = context[c]] /\ sending' = sending
      BY <1>0, <2>1, <2>6 DEF TypesHold
    <3>. QED BY <1>1, <2>1, <2>5, <3>1, EngineKeeps
  <2>7. CASE ~Stale(c, intent)
    <3>1. /\ Accepted(c, intent) \in Life
          /\ Accepted(c, intent).events = context[c].events
      <4>1. CASE intent.revision = None BY <1>1, <4>1 DEF Accepted
      <4>2. CASE intent.revision # None
        <5>1. intent.revision \in Nat BY <2>3, <4>2 DEF Intent
        <5>2. /\ [context[c] EXCEPT !.accepted = intent.revision] \in Life
              /\ [context[c] EXCEPT !.accepted = intent.revision].events = context[c].events
          BY <1>1, <5>1, Updated
        <5>. QED BY <4>2, <5>2, TouchedIs DEF Accepted
      <4>. QED BY <4>1, <4>2
    <3>. QED BY <2>1, <2>5, <2>7, <3>1, ControlledKeeps
  <2>. QED BY <2>6, <2>7
<1>14. CASE FollowUp(c)
  <2>. DEFINE s == context[c].next
              now == [context[c] EXCEPT !.state = s, !.next = None]
  <2>1. /\ IF now.state \in Terminal THEN Change(c, now) ELSE Announce(c, now, TRUE)
        /\ ~Sending(c) /\ EngineMoves(c) /\ s # None
    BY <1>3, <1>4, <1>14 DEF FollowUp
  <2>2. s \in States BY <1>1, <2>1 DEF Life
  <2>. HIDE DEF s
  <2>3. now \in Life /\ now.events = context[c].events BY <1>1, <2>2, Updated
  <2>. HIDE DEF now
  <2>. QED BY <2>1, <2>3, ChangeKeeps, AnnounceKeeps
<1>. QED BY <1>7, <1>8, <1>9, <1>10, <1>11, <1>12, <1>13, <1>14 DEF EngineStep

-----------------------------------------------------------------------------
(* The hub.                                                                   *)

LEMMA InboxIs ==
    ASSUME NEW r \in Inbox
    PROVE  /\ \A q \in Seq(Event) :
                [r EXCEPT !.queue = q] \in Inbox /\ [r EXCEPT !.queue = q].queue = q
                /\ [r EXCEPT !.queue = q].closed = r.closed
                /\ [r EXCEPT !.queue = q].overflowed = r.overflowed
           /\ [r EXCEPT !.queue = <<>>, !.overflowed = TRUE] \in Inbox
           /\ [r EXCEPT !.queue = <<>>, !.overflowed = TRUE].closed = r.closed
           /\ [r EXCEPT !.queue = <<>>, !.overflowed = TRUE].overflowed
           /\ [r EXCEPT !.closed = TRUE] \in Inbox
           /\ [r EXCEPT !.closed = TRUE].queue = r.queue
           /\ [r EXCEPT !.closed = TRUE].closed
           /\ [r EXCEPT !.closed = TRUE].overflowed = r.overflowed
<1>1. << >> \in Seq(Event) OBVIOUS
<1>2. ASSUME NEW q \in Seq(Event)
      PROVE  /\ [r EXCEPT !.queue = q] \in Inbox /\ [r EXCEPT !.queue = q].queue = q
             /\ [r EXCEPT !.queue = q].closed = r.closed
             /\ [r EXCEPT !.queue = q].overflowed = r.overflowed
  BY DEF Inbox
<1>. DEFINE emptied == [r EXCEPT !.queue = << >>]
<1>3. [r EXCEPT !.queue = <<>>, !.overflowed = TRUE] = [emptied EXCEPT !.overflowed = TRUE]
  BY <1>1 DEF Inbox
<1>4. emptied \in Inbox /\ emptied.closed = r.closed BY <1>1, <1>2
<1>. HIDE DEF emptied
<1>5. /\ [emptied EXCEPT !.overflowed = TRUE] \in Inbox
      /\ [emptied EXCEPT !.overflowed = TRUE].closed = r.closed
      /\ [emptied EXCEPT !.overflowed = TRUE].overflowed
  BY <1>4 DEF Inbox
<1>6. /\ [r EXCEPT !.closed = TRUE] \in Inbox
      /\ [r EXCEPT !.closed = TRUE].queue = r.queue
      /\ [r EXCEPT !.closed = TRUE].closed
      /\ [r EXCEPT !.closed = TRUE].overflowed = r.overflowed
  BY DEF Inbox
<1>. QED BY <1>2, <1>3, <1>5, <1>6

(* Putting an event into the queue of one observer.                           *)
LEMMA DeliverKeeps ==
    ASSUME ObservedInv, NEW c \in Context, NEW o \in Observer, Deliver(c, o), phase' = phase
    PROVE  ObservedInv'
<1>0. TypesHold /\ DashboardClosed BY DEF ObservedInv
<1>. DEFINE next == IF Open(o) THEN Received(observer[o], o, sending[c].event)
                               ELSE observer[o]
            kept == Open(o) /\ ~next.overflowed
            sent == [sending[c] EXCEPT !.to = @ \ {o},
                                       !.refused = IF kept THEN @ ELSE @ \cup {o}]
<1>1. /\ o \in sending[c].to
      /\ observer' = [observer EXCEPT ![o] = next]
      /\ sending' = [sending EXCEPT ![c] = sent]
      /\ consumer' = Woken(IF Open(o) THEN {o} ELSE {})
      /\ UNCHANGED <<inst, context, intents, registered, heard>>
  BY <1>0 DEF Deliver, TypesHold
<1>2. /\ sending[c].event \in Event /\ sending[c].event.context = c
      /\ sending[c].event.number = context[c].events
      /\ consumer[o] # "ABSENT"
      /\ Visible(o, c)
  <2>1. Sending(c) BY <1>1 DEF Sending, Quiet
  <2>2. PublicationSound(c) /\ AbsentIsFresh(o) BY DEF ObservedInv
  <2>. QED BY <1>1, <2>1, <2>2 DEF PublicationSound, AbsentIsFresh
<1>3. observer[o] \in Inbox /\ observer[o].queue \in Seq(Event) BY <1>0, ObservedTypes
<1>. DEFINE full == Len(observer[o].queue) >= inst.capacity[o]
            longer == Append(observer[o].queue, sending[c].event)
<1>4. longer \in Seq(Event) BY <1>2, <1>3
<1>5. /\ next \in Inbox /\ next.closed = observer[o].closed
      /\ ~Open(o) => next = observer[o]
      /\ Open(o) /\ full => next.overflowed
      /\ Open(o) /\ ~full => next.queue = longer /\ next.overflowed = observer[o].overflowed
  <2>. HIDE DEF full
  <2>1. CASE ~Open(o) BY <1>3, <2>1
  <2>2. CASE Open(o) /\ full
    <3>1. next = [observer[o] EXCEPT !.queue = <<>>, !.overflowed = TRUE]
      BY <2>2 DEF Received, full
    <3>2. /\ [observer[o] EXCEPT !.queue = <<>>, !.overflowed = TRUE] \in Inbox
          /\ [observer[o] EXCEPT !.queue = <<>>, !.overflowed = TRUE].closed
                = observer[o].closed
          /\ [observer[o] EXCEPT !.queue = <<>>, !.overflowed = TRUE].overflowed
      BY <1>3, InboxIs
    <3>3. next \in Inbox /\ next.closed = observer[o].closed /\ next.overflowed
      BY ONLY <3>1, <3>2
    <3>. HIDE DEF next
    <3>. QED BY <2>2, <3>3
  <2>3. CASE Open(o) /\ ~full
    <3>1. next = [observer[o] EXCEPT !.queue = longer] BY <2>3 DEF Received, full
    <3>. HIDE DEF longer, next
    <3>. QED BY <1>3, <1>4, <2>3, <3>1, InboxIs
  <2>. QED BY <2>1, <2>2, <2>3
<1>6. /\ sent \in Publication /\ sent.event = sending[c].event
      /\ sent.to = sending[c].to \ {o}
      /\ sent.refused = IF kept THEN sending[c].refused ELSE sending[c].refused \cup {o}
  <2>1. sending[c] \in Publication BY <1>0 DEF TypesHold
  <2>. DEFINE s == sending[c]
              refused == IF kept THEN s.refused ELSE s.refused \cup {o}
  <2>2. sent = [event |-> s.event, locked |-> s.locked, to |-> s.to \ {o},
                refused |-> refused]
    <3>1. /\ s = [event |-> s.event, locked |-> s.locked, to |-> s.to,
                  refused |-> s.refused]
          /\ sent = [s EXCEPT !.to = s.to \ {o}, !.refused = refused]
      BY <2>1 DEF Publication
    <3>. HIDE DEF refused, sent
    <3>. DEFINE event == s.event
                locked == s.locked
                to == s.to
                lost == s.refused
    <3>2. s = [event |-> event, locked |-> locked, to |-> to, refused |-> lost]
      BY <3>1
    <3>. QED BY <3>1, <3>2
  <2>3. refused \subseteq Observer BY <2>1 DEF Publication
  <2>. HIDE DEF refused
  <2>. QED BY <2>1, <2>2, <2>3 DEF Publication, refused
<1>. HIDE DEF next, sent, full, longer
<1>7. /\ sending'[c] = sent /\ \A d \in Context \ {c} : sending'[d] = sending[d]
      /\ observer'[o] = next /\ \A p \in Observer \ {o} : observer'[p] = observer[p]
  BY <1>0, <1>1 DEF TypesHold
<1>8. /\ \A p \in Observer : consumer'[p] = IF p = o /\ Open(o) /\ consumer[p] = "WAITING"
                                            THEN "WOKEN" ELSE consumer[p]
      /\ consumer' \in [Observer -> {"ABSENT", "IDLE", "WAITING", "WOKEN",
                                     "STOPPED", "FAILED"}]
  BY <1>0, <1>1 DEF Woken, TypesHold
<1>9. TypesHold' BY <1>0, <1>1, <1>5, <1>6, <1>8 DEF TypesHold
<1>10. \A p \in Observer : ~Open(p) => ~Open(p)'
  BY <1>5, <1>7 DEF Open
<1>11. ~kept => ~Open(o)' BY <1>5, <1>7 DEF Open
<1>12. ASSUME NEW d \in Context PROVE PublicationSound(d)'
  <2>1. PublicationSound(d) BY DEF ObservedInv
  <2>2. \A p : Visible(p, d)' = Visible(p, d) BY <1>1 DEF Visible
  <2>3. \A p \in Observer : consumer[p] # "ABSENT" => consumer'[p] # "ABSENT" BY <1>8
  <2>4. sending[d].refused \subseteq Observer BY <1>0 DEF TypesHold, Publication
  <2>5. CASE d # c
    BY <1>1, <1>7, <1>10, <2>1, <2>2, <2>3, <2>4, <2>5 DEF PublicationSound, Sending
  <2>6. CASE d = c
    <3>1. \A p \in sent.refused : p \in sending[c].refused \/ (p = o /\ ~kept) BY <1>6
    <3>2. \A p \in sent.refused : consumer'[p] # "ABSENT" /\ ~Open(p)'
      BY <1>2, <1>10, <1>11, <2>1, <2>3, <2>4, <2>6, <3>1 DEF PublicationSound
    <3>3. \A p \in sent.to : Visible(p, d)'
      BY <1>6, <2>1, <2>2, <2>6 DEF PublicationSound
    <3>. QED BY <1>1, <1>2, <1>6, <1>7, <2>6, <3>2, <3>3 DEF PublicationSound
  <2>. QED BY <2>5, <2>6
<1>13. ASSUME NEW p \in Observer PROVE AbsentIsFresh(p)'
  <2>1. AbsentIsFresh(p) BY DEF ObservedInv
  <2>2. CASE p = o BY <1>2, <1>8, <2>2 DEF AbsentIsFresh
  <2>3. CASE p # o BY <1>1, <1>6, <1>7, <1>8, <2>1, <2>3 DEF AbsentIsFresh
  <2>. QED BY <2>2, <2>3
<1>14. ASSUME NEW p \in Observer PROVE RegisteredIsOpen(p)' /\ WaitingIsIdle(p)'
  <2>1. RegisteredIsOpen(p) /\ WaitingIsIdle(p) BY DEF ObservedInv
  <2>2. CASE p # o
    BY <1>1, <1>7, <1>8, <2>1, <2>2 DEF RegisteredIsOpen, WaitingIsIdle, Open
  <2>3. CASE p = o
    <3>1. RegisteredIsOpen(o)'
      BY <1>1, <1>2, <1>5, <1>7, <1>10, <2>1, <2>3 DEF RegisteredIsOpen, Open
    <3>2. WaitingIsIdle(o)' BY <1>8, <2>1, <2>3 DEF WaitingIsIdle
    <3>. QED BY <2>3, <3>1, <3>2
  <2>. QED BY <2>2, <2>3
<1>15. ASSUME NEW p \in Observer PROVE HearsAll(p)'
  <2>. SUFFICES ASSUME ~observer'[p].overflowed,
                       NEW d \in inst.scope[p] \ {inst.owner[p]}
                PROVE  Continues(p, d)'
    BY <1>1 DEF HearsAll
  <2>1. d \in Context BY <1>0, ObservedTypes
  <2>2. ~observer[p].overflowed BY <1>5, <1>7 DEF Open
  <2>3. Continues(p, d) BY <2>2 DEF ObservedInv, HearsAll
  <2>4. context'[d].events \in Nat /\ context[d].events <= context'[d].events
    BY <1>0, <1>1, <2>1, ObservedTypes
  <2>5. CASE p # o
    <3>1. Owed(p, d)' = Owed(p, d) BY <1>1, <1>6, <1>7, <2>1, <2>5 DEF Owed
    <3>. QED BY <1>0, <1>1, <1>7, <2>1, <2>3, <2>4, <2>5, <3>1, StillContinues
  <2>6. CASE p = o /\ ~Open(o)
    <3>1. o \notin registered' BY <1>1, <2>2, <2>6 DEF ObservedInv, RegisteredIsOpen, Open
    <3>. QED BY <1>0, <1>1, <1>5, <1>7, <2>1, <2>3, <2>4, <2>6, <3>1, StillContinues
  <2>7. CASE p = o /\ Open(o)
    <3>1. ~full /\ observer'[o].queue = longer BY <1>5, <1>7, <2>2, <2>7
    <3>2. o \in registered BY <1>2, <2>7 DEF ObservedInv, RegisteredIsOpen
    <3>3. heard[o][d] \in Nat /\ context[d].events \in Nat BY <1>0, <2>1, <2>7, ObservedTypes
    <3>4. /\ Ascending(observer[o].queue, d)
          /\ Owed(o, d) \in heard[o][d]..context[d].events
          /\ Numbers(observer[o].queue, d) = heard[o][d] + 1..Owed(o, d)
      BY <2>3, <2>7, <3>2, ContinuesIs
    <3>. DEFINE last == Owed(o, d)
                until == IF d = c THEN last + 1 ELSE last
    <3>5. last \in Nat /\ heard[o][d] <= last /\ last <= context[d].events BY <3>3, <3>4
    <3>6. d = c => last + 1 = context[d].events BY <1>1, <3>3 DEF Owed
    <3>. HIDE DEF last
    <3>7. /\ Ascending(longer, d)
          /\ Numbers(longer, d) = heard[o][d] + 1..until
      <4>1. /\ Ascending(observer[o].queue, d)
            /\ Numbers(observer[o].queue, d) = heard[o][d] + 1..last
        BY <3>4 DEF last
      <4>2. CASE d = c
        <5>1. sending[c].event.number = last + 1 BY <1>2, <3>6, <4>2
        <5>2. sending[c].event.context = d BY <1>2, <4>2
        <5>3. /\ Ascending(longer, d)
              /\ Numbers(longer, d) = heard[o][d] + 1..last + 1
          <6>. DEFINE q == observer[o].queue
                      e == sending[c].event
                      h == heard[o][d]
          <6>1. /\ q \in Seq(Event) /\ e \in Event /\ h \in Nat /\ last \in Nat
                /\ Runs(q, d, h, last)
                /\ e.context = d /\ e.number = last + 1
            BY <1>2, <1>3, <3>3, <3>5, <4>1, <5>1, <5>2 DEF Runs
          <6>2. longer = Append(q, e) BY DEF longer
          <6>. HIDE DEF q, e, h, until
          <6>3. Runs(Append(q, e), d, h, last + 1) BY ONLY <6>1, AppendNext
          <6>. QED BY <6>2, <6>3 DEF h, Runs
        <5>. QED BY <4>2, <5>3
      <4>3. CASE d # c
        BY <1>2, <1>3, <3>3, <3>5, <4>1, <4>3, AppendContinues DEF longer
      <4>. QED BY <4>2, <4>3
    <3>8. until = Owed(o, d)'
      <4>1. CASE d = c
        <5>1. o \notin sending'[c].to BY <1>6, <1>7
        <5>. QED BY <1>1, <3>3, <3>6, <4>1, <5>1 DEF Owed
      <4>2. CASE d # c BY <1>1, <1>7, <2>1, <4>2 DEF Owed, last
      <4>. QED BY <4>1, <4>2
    <3>9. until \in heard'[o][d]..context'[d].events BY <1>1, <3>3, <3>5, <3>6
    <3>. HIDE DEF until
    <3>. QED BY <1>1, <2>7, <3>1, <3>7, <3>8, <3>9
            DEF Continues, Ascending, Numbers, Queued, From, Places
  <2>. QED BY <2>5, <2>6, <2>7
<1>16. DashboardClosed'
  <2>1. Dash \in Observer BY DashboardAssumption
  <2>2. observer'[Dash].closed = observer[Dash].closed BY <1>5, <1>7, <2>1
  <2>. QED BY <1>0, <2>2 DEF DashboardClosed
<1>. QED BY <1>9, <1>12, <1>13, <1>14, <1>15, <1>16 DEF ObservedInv

(* The end of a publication: who refused it is no longer registered.          *)
LEMMA SentKeeps ==
    ASSUME ObservedInv, NEW c \in Context, Sent(c), phase' = phase
    PROVE  ObservedInv'
<1>0. TypesHold /\ DashboardClosed BY DEF ObservedInv
<1>1. /\ sending[c].to = {}
      /\ sending' = [sending EXCEPT ![c] = Quiet]
      /\ registered' = registered \ sending[c].refused
      /\ UNCHANGED <<inst, context, intents, observer, consumer, heard, phase>>
  BY DEF Sent
<1>2. Quiet \in Publication BY DEF Quiet, Publication
<1>3. /\ sending'[c] = Quiet /\ \A d \in Context \ {c} : sending'[d] = sending[d]
      /\ sending' \in [Context -> Publication]
      /\ Quiet.to = {} /\ Quiet.refused = {}
  BY <1>0, <1>1, <1>2 DEF TypesHold, Quiet
<1>4. TypesHold' BY <1>0, <1>1, <1>3 DEF TypesHold
<1>5. \A o : Open(o)' = Open(o) BY <1>1 DEF Open
<1>6. ASSUME NEW d \in Context PROVE PublicationSound(d)'
  <2>1. PublicationSound(d) BY DEF ObservedInv
  <2>2. \A p : Visible(p, d)' = Visible(p, d) BY <1>1 DEF Visible
  <2>3. CASE d = c BY <1>3, <2>3 DEF PublicationSound, Sending, Quiet
  <2>4. CASE d # c
    BY <1>1, <1>3, <1>5, <2>1, <2>2, <2>4 DEF PublicationSound, Sending, Quiet
  <2>. QED BY <2>3, <2>4
<1>7. ASSUME NEW o \in Observer
      PROVE  AbsentIsFresh(o)' /\ RegisteredIsOpen(o)' /\ WaitingIsIdle(o)'
  <2>1. AbsentIsFresh(o) /\ RegisteredIsOpen(o) /\ WaitingIsIdle(o) BY DEF ObservedInv
  <2>2. AbsentIsFresh(o)' BY <1>1, <1>3, <2>1 DEF AbsentIsFresh
  <2>3. o \in sending[c].refused => ~Open(o) BY DEF ObservedInv, PublicationSound
  <2>4. RegisteredIsOpen(o)' BY <1>1, <1>5, <2>1, <2>3 DEF RegisteredIsOpen
  <2>5. WaitingIsIdle(o)' BY <1>1, <1>5, <2>1 DEF WaitingIsIdle
  <2>. QED BY <2>2, <2>4, <2>5
<1>8. ASSUME NEW o \in Observer PROVE HearsAll(o)'
  <2>. SUFFICES ASSUME ~observer[o].overflowed, NEW d \in inst.scope[o] \ {inst.owner[o]}
                PROVE  Continues(o, d)'
    BY <1>1 DEF HearsAll
  <2>1. d \in Context BY <1>0, ObservedTypes
  <2>2. Continues(o, d) BY DEF ObservedInv, HearsAll
  <2>3. context[d].events \in Nat BY <1>0, <2>1, ObservedTypes
  <2>4. Owed(o, d)' = Owed(o, d) BY <1>1, <1>3, <2>1 DEF Owed
  <2>. QED BY <1>0, <1>1, <2>1, <2>2, <2>3, <2>4, StillContinues
<1>9. DashboardClosed' BY <1>0, <1>1 DEF DashboardClosed
<1>. QED BY <1>4, <1>6, <1>7, <1>8, <1>9 DEF ObservedInv

(* A new observer has heard, by definition, of everything so far.             *)
LEMMA ObserveKeeps ==
    ASSUME ObservedInv, NEW o \in Observer, Observe(o), phase' = phase
    PROVE  ObservedInv'
<1>0. TypesHold /\ DashboardClosed BY DEF ObservedInv
<1>1. /\ consumer[o] = "ABSENT"
      /\ registered' = registered \cup {o}
      /\ consumer' = [consumer EXCEPT ![o] = "IDLE"]
      /\ heard' = [heard EXCEPT ![o] = [c \in Context |-> context[c].events]]
      /\ UNCHANGED <<inst, context, sending, intents, observer, phase>>
  BY DEF Observe, engineVars
<1>2. [c \in Context |-> context[c].events] \in [Context -> Nat] BY <1>0, ObservedTypes
<1>3. /\ consumer'[o] = "IDLE" /\ \A p \in Observer \ {o} : consumer'[p] = consumer[p]
      /\ heard'[o] = [c \in Context |-> context[c].events]
      /\ \A p \in Observer \ {o} : heard'[p] = heard[p]
  BY <1>0, <1>1 DEF TypesHold
<1>4. TypesHold' BY <1>0, <1>1, <1>2 DEF TypesHold
<1>5. \A p : Open(p)' = Open(p) BY <1>1 DEF Open
<1>6. /\ observer[o] = Fresh /\ \A c \in Context : o \notin sending[c].to
      /\ observer[o].queue = << >> /\ ~observer[o].closed
  BY <1>1 DEF ObservedInv, AbsentIsFresh, Fresh
<1>7. ASSUME NEW d \in Context PROVE PublicationSound(d)'
  <2>1. PublicationSound(d) BY DEF ObservedInv
  <2>2. \A p : Visible(p, d)' = Visible(p, d) BY <1>1 DEF Visible
  <2>3. sending[d].refused \subseteq Observer BY <1>0 DEF TypesHold, Publication
  <2>4. \A p \in sending[d].refused : consumer'[p] # "ABSENT" /\ ~Open(p)'
    BY <1>1, <1>3, <1>5, <2>1, <2>3 DEF PublicationSound
  <2>. QED BY <1>1, <2>1, <2>2, <2>4 DEF PublicationSound, Sending
<1>8. ASSUME NEW p \in Observer
      PROVE  AbsentIsFresh(p)' /\ RegisteredIsOpen(p)' /\ WaitingIsIdle(p)'
  <2>1. AbsentIsFresh(p) /\ RegisteredIsOpen(p) /\ WaitingIsIdle(p) BY DEF ObservedInv
  <2>2. CASE p = o
    BY <1>1, <1>3, <1>5, <1>6, <2>2 DEF AbsentIsFresh, RegisteredIsOpen, WaitingIsIdle
  <2>3. CASE p # o
    BY <1>1, <1>3, <1>5, <2>1, <2>3 DEF AbsentIsFresh, RegisteredIsOpen, WaitingIsIdle
  <2>. QED BY <2>2, <2>3
<1>9. ASSUME NEW p \in Observer PROVE HearsAll(p)'
  <2>. SUFFICES ASSUME ~observer[p].overflowed, NEW d \in inst.scope[p] \ {inst.owner[p]}
                PROVE  Continues(p, d)'
    BY <1>1 DEF HearsAll
  <2>1. d \in Context BY <1>0, ObservedTypes
  <2>2. Continues(p, d) BY DEF ObservedInv, HearsAll
  <2>3. context[d].events \in Nat BY <1>0, <2>1, ObservedTypes
  <2>4. Owed(p, d)' = Owed(p, d) BY <1>1 DEF Owed
  <2>5. CASE p # o BY <1>0, <1>1, <1>3, <2>1, <2>2, <2>3, <2>4, <2>5, StillContinues
  <2>6. CASE p = o
    <3>. DEFINE n == context[d].events
    <3>1. Places(<< >>, d) = {} /\ Numbers(<< >>, d) = {} /\ Ascending(<< >>, d)
      BY EmptySeq DEF Places, Numbers, Ascending
    <3>2. heard'[o][d] = n /\ context'[d].events = n BY <1>1, <1>3, <2>1
    <3>3. Owed(o, d)' = n BY <1>1, <1>6, <2>1, <2>3 DEF Owed
    <3>4. n \in n..n /\ n + 1..n = {} BY <2>3
    <3>5. Ascending(observer'[o].queue, d) /\ Numbers(observer'[o].queue, d) = n + 1..n
      BY <1>1, <1>6, <3>1, <3>4
    <3>. HIDE DEF n
    <3>. QED BY <2>6, <3>2, <3>3, <3>4, <3>5
            DEF Continues, Ascending, Numbers, Queued, From, Places
  <2>. QED BY <2>5, <2>6
<1>10. DashboardClosed' BY <1>0, <1>1 DEF DashboardClosed
<1>. QED BY <1>4, <1>7, <1>8, <1>9, <1>10 DEF ObservedInv

(* Observers are closed: by whoever reads them, with their owner, or with the *)
(* hub.                                                                       *)
LEMMA DetachKeeps ==
    ASSUME ObservedInv, NEW O, O \subseteq Observer, \A o \in O : consumer[o] # "ABSENT",
           Detach(O), UNCHANGED <<inst, sending, intents, heard>>,
           context' \in [Context -> Life],
           \A c \in Context : context'[c].events = context[c].events,
           DashboardClosed'
    PROVE  ObservedInv'
<1>0. TypesHold BY DEF ObservedInv
<1>1. /\ observer' = Closed(O) /\ registered' = registered \ O /\ consumer' = Woken(O)
      /\ UNCHANGED <<inst, sending, intents, heard>>
  BY DEF Detach
<1>2. \A p \in Observer :
        /\ observer[p] \in Inbox /\ [observer[p] EXCEPT !.closed = TRUE] \in Inbox
        /\ [observer[p] EXCEPT !.closed = TRUE].queue = observer[p].queue
        /\ [observer[p] EXCEPT !.closed = TRUE].closed
        /\ [observer[p] EXCEPT !.closed = TRUE].overflowed = observer[p].overflowed
  BY <1>0, InboxIs DEF TypesHold
<1>3. \A p \in Observer :
        /\ observer'[p] \in Inbox /\ observer'[p].queue = observer[p].queue
        /\ observer'[p].overflowed = observer[p].overflowed
        /\ p \in O => observer'[p].closed
        /\ p \notin O => observer'[p] = observer[p]
  <2>. SUFFICES ASSUME NEW p \in Observer
                PROVE  /\ observer'[p] \in Inbox /\ observer'[p].queue = observer[p].queue
                       /\ observer'[p].overflowed = observer[p].overflowed
                       /\ p \in O => observer'[p].closed
                       /\ p \notin O => observer'[p] = observer[p]
    OBVIOUS
  <2>1. observer'[p] = IF p \in O THEN [observer[p] EXCEPT !.closed = TRUE] ELSE observer[p]
    BY <1>1 DEF Closed
  <2>2. CASE p \in O
    <3>1. observer'[p] = [observer[p] EXCEPT !.closed = TRUE] BY <2>1, <2>2
    <3>. DEFINE r == [observer[p] EXCEPT !.closed = TRUE]
    <3>2. /\ r \in Inbox /\ r.queue = observer[p].queue /\ r.closed
          /\ r.overflowed = observer[p].overflowed
      BY <1>2
    <3>3. observer'[p] = r BY <3>1
    <3>. HIDE DEF r
    <3>. QED BY <2>2, <3>2, <3>3
  <2>3. CASE p \notin O BY <1>2, <2>1, <2>3
  <2>. QED BY <2>2, <2>3
<1>4. \A p \in Observer : consumer'[p] = IF p \in O /\ consumer[p] = "WAITING"
                                         THEN "WOKEN" ELSE consumer[p]
  BY <1>1 DEF Woken
<1>5. /\ consumer' \in [Observer -> {"ABSENT", "IDLE", "WAITING", "WOKEN",
                                     "STOPPED", "FAILED"}]
      /\ observer' \in [Observer -> Inbox]
  <2>1. DOMAIN observer' = Observer /\ observer' = [p \in Observer |-> observer'[p]]
    BY <1>1 DEF Closed
  <2>. QED BY <1>0, <1>1, <1>3, <2>1 DEF Woken, TypesHold
<1>6. TypesHold' BY <1>0, <1>1, <1>5 DEF TypesHold
<1>7. \A p \in Observer : Open(p)' => Open(p) /\ p \notin O BY <1>3 DEF Open
<1>8. ASSUME NEW d \in Context PROVE PublicationSound(d)'
  <2>1. PublicationSound(d) BY DEF ObservedInv
  <2>2. \A p : Visible(p, d)' = Visible(p, d) BY <1>1 DEF Visible
  <2>3. sending[d].refused \subseteq Observer BY <1>0 DEF TypesHold, Publication
  <2>4. \A p \in sending[d].refused : consumer'[p] # "ABSENT" /\ ~Open(p)'
    BY <1>4, <1>7, <2>1, <2>3 DEF PublicationSound
  <2>. QED BY <1>1, <2>1, <2>2, <2>4 DEF PublicationSound, Sending
<1>9. ASSUME NEW p \in Observer
      PROVE  AbsentIsFresh(p)' /\ RegisteredIsOpen(p)' /\ WaitingIsIdle(p)'
  <2>1. AbsentIsFresh(p) /\ RegisteredIsOpen(p) /\ WaitingIsIdle(p) BY DEF ObservedInv
  <2>2. AbsentIsFresh(p)' BY <1>1, <1>3, <1>4, <2>1 DEF AbsentIsFresh
  <2>3. RegisteredIsOpen(p)'
    <3>1. p \in registered' => ~observer'[p].closed
      BY <1>1, <1>3, <2>1 DEF RegisteredIsOpen
    <3>2. consumer'[p] # "ABSENT" /\ Open(p)' => p \in registered'
      BY <1>1, <1>4, <1>7, <2>1 DEF RegisteredIsOpen
    <3>. QED BY <3>1, <3>2 DEF RegisteredIsOpen
  <2>4. WaitingIsIdle(p)' BY <1>3, <1>4, <2>1 DEF WaitingIsIdle, Open
  <2>. QED BY <2>2, <2>3, <2>4
<1>10. ASSUME NEW p \in Observer PROVE HearsAll(p)'
  <2>. SUFFICES ASSUME ~observer[p].overflowed, NEW d \in inst.scope[p] \ {inst.owner[p]}
                PROVE  Continues(p, d)'
    BY <1>1, <1>3 DEF HearsAll
  <2>1. d \in Context BY <1>0, ObservedTypes
  <2>2. Continues(p, d) BY DEF ObservedInv, HearsAll
  <2>3. context[d].events \in Nat BY <1>0, <2>1, ObservedTypes
  <2>4. Owed(p, d)' = Owed(p, d) BY <1>1, <2>1 DEF Owed
  <2>. QED BY <1>0, <1>1, <1>3, <2>1, <2>2, <2>3, <2>4, StillContinues
<1>. QED BY <1>6, <1>8, <1>9, <1>10 DEF ObservedInv

-----------------------------------------------------------------------------
(* The consumers.                                                             *)

(* The first event of a queue is the next of its context.                     *)
LEMMA TakeKeeps ==
    ASSUME ObservedInv, NEW o \in Observer, observer[o].queue # << >>,
           heard' = [heard EXCEPT ![o][Head(observer[o].queue).context]
                                    = Head(observer[o].queue).number],
           observer' = [observer EXCEPT ![o].queue = Tail(@)],
           \/ consumer' = consumer
           \/ consumer' = [consumer EXCEPT ![o] = "IDLE"],
           UNCHANGED <<inst, context, sending, intents, registered, phase>>
    PROVE  ObservedInv'
<1>0. TypesHold /\ DashboardClosed BY DEF ObservedInv
<1>. DEFINE q == observer[o].queue
            e == Head(q)
            rest == [observer[o] EXCEPT !.queue = Tail(q)]
<1>1. /\ q \in Seq(Event) /\ observer[o] \in Inbox /\ heard[o] \in [Context -> Nat]
      /\ e \in Event /\ Tail(q) \in Seq(Event)
  <2>1. q \in Seq(Event) /\ observer[o] \in Inbox /\ heard[o] \in [Context -> Nat]
    BY <1>0, ObservedTypes
  <2>2. q # << >> OBVIOUS
  <2>. HIDE DEF q
  <2>. QED BY <2>1, <2>2
<1>2. consumer[o] \notin {"ABSENT", "WAITING"}
  BY DEF ObservedInv, AbsentIsFresh, WaitingIsIdle, Fresh
<1>3. /\ rest \in Inbox /\ rest.queue = Tail(q) /\ rest.closed = observer[o].closed
      /\ rest.overflowed = observer[o].overflowed
  BY <1>1, InboxIs
<1>4. /\ observer' = [observer EXCEPT ![o] = rest]
      /\ observer'[o] = rest /\ \A p \in Observer \ {o} : observer'[p] = observer[p]
  BY <1>0 DEF TypesHold
<1>5. /\ heard'[o] = [heard[o] EXCEPT ![e.context] = e.number]
      /\ \A p \in Observer \ {o} : heard'[p] = heard[p]
      /\ heard' = [heard EXCEPT ![o] = [heard[o] EXCEPT ![e.context] = e.number]]
  BY <1>0 DEF TypesHold
<1>6. e.context \in Context /\ e.number \in Nat BY <1>1 DEF Event
<1>7. \A p \in Observer : \/ consumer'[p] = consumer[p]
                          \/ p = o /\ consumer'[p] = "IDLE"
  BY <1>0 DEF TypesHold
<1>. HIDE DEF q, e, rest
<1>8. TypesHold'
  <2>1. [heard[o] EXCEPT ![e.context] = e.number] \in [Context -> Nat] BY <1>1, <1>6
  <2>2. heard' \in [Observer -> [Context -> Nat]] BY <1>0, <1>5, <2>1 DEF TypesHold
  <2>3. consumer' \in [Observer -> {"ABSENT", "IDLE", "WAITING", "WOKEN",
                                    "STOPPED", "FAILED"}]
    BY <1>0 DEF TypesHold
  <2>. QED BY <1>0, <1>3, <1>4, <2>2, <2>3 DEF TypesHold
<1>9. \A p \in Observer : Open(p)' = Open(p) BY <1>3, <1>4 DEF Open
<1>10. ASSUME NEW d \in Context PROVE PublicationSound(d)'
  <2>1. PublicationSound(d) BY DEF ObservedInv
  <2>2. \A p : Visible(p, d)' = Visible(p, d) BY DEF Visible
  <2>3. sending[d].refused \subseteq Observer BY <1>0 DEF TypesHold, Publication
  <2>4. \A p \in sending[d].refused : consumer'[p] # "ABSENT" /\ ~Open(p)'
    BY <1>7, <1>9, <2>1, <2>3 DEF PublicationSound
  <2>. QED BY <2>1, <2>2, <2>4 DEF PublicationSound, Sending
<1>11. ASSUME NEW p \in Observer
       PROVE  AbsentIsFresh(p)' /\ RegisteredIsOpen(p)' /\ WaitingIsIdle(p)'
  <2>1. AbsentIsFresh(p) /\ RegisteredIsOpen(p) /\ WaitingIsIdle(p) BY DEF ObservedInv
  <2>2. CASE p = o
    <3>1. consumer'[o] \notin {"ABSENT", "WAITING"} BY <1>2, <1>7
    <3>2. RegisteredIsOpen(o)'
      BY <1>2, <1>3, <1>4, <1>9, <2>1, <2>2 DEF RegisteredIsOpen
    <3>. QED BY <2>2, <3>1, <3>2 DEF AbsentIsFresh, WaitingIsIdle
  <2>3. CASE p # o
    BY <1>4, <1>7, <1>9, <2>1, <2>3 DEF AbsentIsFresh, RegisteredIsOpen, WaitingIsIdle
  <2>. QED BY <2>2, <2>3
<1>12. ASSUME NEW p \in Observer PROVE HearsAll(p)'
  <2>. SUFFICES ASSUME ~observer[p].overflowed, NEW d \in inst.scope[p] \ {inst.owner[p]}
                PROVE  Continues(p, d)'
    BY <1>3, <1>4 DEF HearsAll
  <2>1. d \in Context BY <1>0, ObservedTypes
  <2>2. Continues(p, d) BY DEF ObservedInv, HearsAll
  <2>3. context[d].events \in Nat BY <1>0, <2>1, ObservedTypes
  <2>4. Owed(p, d)' = Owed(p, d) BY DEF Owed
  <2>5. CASE p # o BY <1>0, <1>4, <1>5, <2>1, <2>2, <2>3, <2>4, <2>5, StillContinues
  <2>6. CASE p = o
    <3>. DEFINE h == heard[o][d]
                n == context[d].events
    <3>1. PICK last \in h..n : /\ Numbers(q, d) = h + 1..last
                               /\ o \in registered => last = Owed(o, d)
      BY <2>2, <2>6, ContinuesIs DEF q
    <3>2. Ascending(q, d) BY <2>2, <2>6, ContinuesIs DEF q
    <3>3. h \in Nat /\ n \in Nat /\ last \in Nat /\ h <= last /\ last <= n
      <4>1. h \in Nat /\ n \in Nat BY <1>1, <2>1, <2>3
      <4>. HIDE DEF h, n
      <4>. QED BY <3>1, <4>1
    <3>. DEFINE then == IF e.context = d THEN e.number ELSE h
    <3>4. heard'[o][d] = then BY <1>1, <1>5, <2>1
    <3>5. q # << >> BY DEF q
    <3>. HIDE DEF h, n
    <3>6. /\ Ascending(Tail(q), d)
          /\ e.context # d => Numbers(Tail(q), d) = h + 1..last
          /\ e.context = d => /\ e.number = h + 1 /\ h + 1 <= last
                              /\ Numbers(Tail(q), d) = h + 1 + 1..last
      BY <1>1, <3>1, <3>2, <3>3, <3>5, TailContinues DEF e
    <3>7. Numbers(Tail(q), d) = then + 1..last /\ last \in then..n
      <4>1. CASE e.context = d BY <3>3, <3>6, <4>1
      <4>2. CASE e.context # d BY <3>3, <3>6, <4>2
      <4>. QED BY <4>1, <4>2
    <3>8. observer'[o].queue = Tail(q) BY <1>3, <1>4
    <3>9. context'[d].events = n BY DEF n
    <3>10. /\ Ascending(observer'[o].queue, d)
           /\ Numbers(observer'[o].queue, d) = heard'[o][d] + 1..last
           /\ last \in heard'[o][d]..context'[d].events
           /\ o \in registered' => last = Owed(o, d)'
      BY <2>4, <2>6, <3>1, <3>4, <3>6, <3>7, <3>8, <3>9
    <3>. HIDE DEF then
    <3>. QED BY <2>6, <3>10 DEF Continues, Ascending, Numbers, Queued, From, Places
  <2>. QED BY <2>5, <2>6
<1>13. DashboardClosed'
  <2>1. Dash \in Observer BY DashboardAssumption
  <2>2. observer'[Dash].closed = observer[Dash].closed BY <1>3, <1>4, <2>1
  <2>. QED BY <1>0, <2>2 DEF DashboardClosed
<1>. QED BY <1>8, <1>10, <1>11, <1>12, <1>13 DEF ObservedInv

(* A consumer waits, ends or is cancelled.                                    *)
LEMMA ConsumerKeeps ==
    ASSUME ObservedInv, NEW o \in Observer,
           NEW now \in {"WAITING", "STOPPED", "FAILED"},
           consumer' = [consumer EXCEPT ![o] = now],
           consumer[o] # "ABSENT" \/ ~Open(o),
           now = "WAITING" => Open(o) /\ observer[o].queue = << >>,
           UNCHANGED <<inst, context, sending, intents, registered, observer, heard>>,
           DashboardClosed'
    PROVE  ObservedInv'
<1>0. TypesHold BY DEF ObservedInv
<1>1. consumer'[o] = now /\ \A p \in Observer \ {o} : consumer'[p] = consumer[p]
  BY <1>0 DEF TypesHold
<1>2. TypesHold' BY <1>0 DEF TypesHold
<1>3. \A p : Open(p)' = Open(p) BY DEF Open
<1>4. ASSUME NEW d \in Context PROVE PublicationSound(d)'
  <2>1. PublicationSound(d) BY DEF ObservedInv
  <2>2. \A p : Visible(p, d)' = Visible(p, d) BY DEF Visible
  <2>3. sending[d].refused \subseteq Observer BY <1>0 DEF TypesHold, Publication
  <2>4. \A p \in sending[d].refused : consumer'[p] # "ABSENT" /\ ~Open(p)'
    BY <1>1, <1>3, <2>1, <2>3 DEF PublicationSound
  <2>. QED BY <2>1, <2>2, <2>4 DEF PublicationSound, Sending
<1>5. ASSUME NEW p \in Observer
      PROVE  AbsentIsFresh(p)' /\ RegisteredIsOpen(p)' /\ WaitingIsIdle(p)'
  <2>1. AbsentIsFresh(p) /\ RegisteredIsOpen(p) /\ WaitingIsIdle(p) BY DEF ObservedInv
  <2>2. CASE p = o
    BY <1>1, <1>3, <2>1, <2>2 DEF AbsentIsFresh, RegisteredIsOpen, WaitingIsIdle
  <2>3. CASE p # o
    BY <1>1, <1>3, <2>1, <2>3 DEF AbsentIsFresh, RegisteredIsOpen, WaitingIsIdle
  <2>. QED BY <2>2, <2>3
<1>6. ASSUME NEW p \in Observer PROVE HearsAll(p)'
  <2>. SUFFICES ASSUME ~observer[p].overflowed, NEW d \in inst.scope[p] \ {inst.owner[p]}
                PROVE  Continues(p, d)'
    BY DEF HearsAll
  <2>1. d \in Context BY <1>0, ObservedTypes
  <2>2. Continues(p, d) BY DEF ObservedInv, HearsAll
  <2>3. context[d].events \in Nat BY <1>0, <2>1, ObservedTypes
  <2>4. Owed(p, d)' = Owed(p, d) BY DEF Owed
  <2>. QED BY <1>0, <2>1, <2>2, <2>3, <2>4, StillContinues
<1>. QED BY <1>2, <1>4, <1>5, <1>6 DEF ObservedInv

-----------------------------------------------------------------------------
(* Every step.                                                                *)

LEMMA ObservedInitially == Init => ObservedInv
<1>. SUFFICES ASSUME Init PROVE ObservedInv OBVIOUS
<1>1. /\ inst \in Instances
      /\ context = [c \in Context |->
            [state |-> inst.starts[c], phase |-> "LIVE", revision |-> 1, events |-> 0,
             stop |-> FALSE, stores |-> 0, accepted |-> 0, next |-> None]]
      /\ sending = [c \in Context |-> Quiet]
      /\ intents = [c \in Context |-> <<>>]
      /\ registered = (IF inst.serves THEN {Dash} ELSE {})
      /\ observer = [o \in Observer |-> Fresh]
      /\ consumer = [o \in Observer |->
            IF o = Dash /\ inst.serves THEN "IDLE" ELSE "ABSENT"]
      /\ heard = [o \in Observer |-> [c \in Context |-> 0]]
      /\ phase = (IF inst.serves THEN "SERVING" ELSE "ABSENT")
  BY DEF Init, Fresh
<1>2. Dash \in Observer /\ inst.starts \in [Context -> {"NEW", "QUEUED", "RUNNING"}]
  BY <1>1, DashboardAssumption
<1>3. Fresh \in Inbox
  <2>1. << >> \in Seq(Event) OBVIOUS
  <2>. QED BY <2>1 DEF Fresh, Inbox
<1>4. \A c \in Context : context[c] \in Life /\ context[c].events = 0
  <2>. SUFFICES ASSUME NEW c \in Context
                PROVE  context[c] \in Life /\ context[c].events = 0
    OBVIOUS
  <2>1. inst.starts[c] \in States BY <1>2 DEF States
  <2>. DEFINE s == inst.starts[c]
  <2>2. context[c] = [state |-> s, phase |-> "LIVE", revision |-> 1, events |-> 0,
                      stop |-> FALSE, stores |-> 0, accepted |-> 0, next |-> None]
    BY <1>1
  <2>. HIDE DEF s
  <2>3. s \in States BY <2>1 DEF s
  <2>. QED BY <2>2, <2>3 DEF Life
<1>5. TypesHold
  <2>1. context \in [Context -> Life] BY <1>1, <1>4
  <2>2. sending \in [Context -> Publication]
    <3>1. Quiet \in Publication BY DEF Quiet, Publication
    <3>. QED BY <1>1, <3>1
  <2>3. intents \in [Context -> Seq(Intent)] BY <1>1
  <2>4. registered \in SUBSET Observer BY <1>1, <1>2
  <2>5. observer \in [Observer -> Inbox] BY <1>1, <1>3
  <2>6. heard \in [Observer -> [Context -> Nat]] BY <1>1
  <2>7. consumer \in [Observer -> {"ABSENT", "IDLE", "WAITING", "WOKEN",
                                   "STOPPED", "FAILED"}]
    BY <1>1
  <2>. QED BY <1>1, <2>1, <2>2, <2>3, <2>4, <2>5, <2>6, <2>7 DEF TypesHold
<1>6. \A c \in Context : /\ sending[c] = Quiet /\ sending[c].to = {}
                         /\ sending[c].refused = {}
  BY <1>1 DEF Quiet
<1>7. \A c \in Context : PublicationSound(c) BY <1>6 DEF PublicationSound, Sending
<1>8. ASSUME NEW o \in Observer
      PROVE  AbsentIsFresh(o) /\ RegisteredIsOpen(o) /\ WaitingIsIdle(o) /\ HearsAll(o)
  <2>1. /\ observer[o] = Fresh /\ observer[o].queue = << >> /\ ~observer[o].closed
        /\ ~observer[o].overflowed
    BY <1>1 DEF Fresh
  <2>2. consumer[o] = IF o = Dash /\ inst.serves THEN "IDLE" ELSE "ABSENT" BY <1>1
  <2>3. AbsentIsFresh(o) BY <1>1, <1>6, <2>1, <2>2 DEF AbsentIsFresh
  <2>4. RegisteredIsOpen(o) BY <1>1, <2>1, <2>2 DEF RegisteredIsOpen
  <2>5. WaitingIsIdle(o) BY <2>2 DEF WaitingIsIdle
  <2>6. ASSUME NEW d \in inst.scope[o] \ {inst.owner[o]} PROVE Continues(o, d)
    <3>1. d \in Context BY <1>5, ObservedTypes
    <3>2. Numbers(<< >>, d) = {} /\ Ascending(<< >>, d)
      BY EmptySeq DEF Places, Numbers, Ascending
    <3>3. heard[o][d] = 0 /\ context[d].events = 0 /\ Owed(o, d) = 0
      BY <1>1, <1>4, <1>6, <3>1 DEF Owed
    <3>4. 0 \in 0..0 /\ 0 + 1..0 = {} OBVIOUS
    <3>. QED BY <2>1, <3>2, <3>3, <3>4, ContinuesIs
  <2>. QED BY <2>3, <2>4, <2>5, <2>6 DEF HearsAll
<1>9. DashboardClosed BY <1>1 DEF DashboardClosed
<1>. QED BY <1>5, <1>7, <1>8, <1>9 DEF ObservedInv

(* Nothing has happened yet to what was only asked for.                       *)
LEMMA ObservedIsStill ==
    ASSUME ObservedInv, DashboardClosed', intents' \in [Context -> Seq(Intent)],
           UNCHANGED <<inst, context, sending, registered, observer, consumer, heard>>
    PROVE  ObservedInv'
<1>1. TypesHold' BY DEF ObservedInv, TypesHold
<1>2. \A c \in Context : PublicationSound(c)'
  BY DEF ObservedInv, PublicationSound, Sending, Visible, Open
<1>3. ASSUME NEW o \in Observer
      PROVE  AbsentIsFresh(o)' /\ RegisteredIsOpen(o)' /\ WaitingIsIdle(o)' /\ HearsAll(o)'
  <2>1. AbsentIsFresh(o)' BY DEF ObservedInv, AbsentIsFresh
  <2>2. RegisteredIsOpen(o)' BY DEF ObservedInv, RegisteredIsOpen, Open
  <2>3. WaitingIsIdle(o)' BY DEF ObservedInv, WaitingIsIdle, Open
  <2>4. ASSUME ~observer[o].overflowed, NEW d \in inst.scope[o] \ {inst.owner[o]}
        PROVE  Continues(o, d)'
    <3>1. TypesHold /\ Continues(o, d) BY <2>4 DEF ObservedInv, HearsAll
    <3>2. d \in Context /\ context[d].events \in Nat BY <3>1, ObservedTypes
    <3>3. Owed(o, d)' = Owed(o, d) BY DEF Owed
    <3>. QED BY <3>1, <3>2, <3>3, StillContinues
  <2>5. HearsAll(o)' BY <2>4 DEF HearsAll
  <2>. QED BY <2>1, <2>2, <2>3, <2>5
<1>. QED BY <1>1, <1>2, <1>3 DEF ObservedInv

LEMMA CloseObserverKeeps ==
    ASSUME ObservedInv, NEW o \in Observer, CloseObserver(o), DashboardClosed'
    PROVE  ObservedInv'
<1>1. context' \in [Context -> Life] /\ \A c \in Context : context'[c].events = context[c].events
  BY DEF CloseObserver, engineVars, ObservedInv, TypesHold
<1>2. /\ {o} \subseteq Observer /\ \A p \in {o} : consumer[p] # "ABSENT"
      /\ Detach({o}) /\ UNCHANGED <<inst, sending, intents, heard>>
  BY DEF CloseObserver, engineVars
<1>. QED BY <1>1, <1>2, DetachKeeps

(* Registered observers are there.                                            *)
LEMMA RegisteredArePresent ==
    ASSUME ObservedInv, NEW O, O \subseteq registered
    PROVE  O \subseteq Observer /\ \A o \in O : consumer[o] # "ABSENT"
BY DEF ObservedInv, TypesHold, AbsentIsFresh

LEMMA HubKeeps == ASSUME ObservedInv, Hub PROVE ObservedInv'
<1>0. phase' = phase /\ TypesHold /\ DashboardClosed
  BY DEF Hub, dashboardVars, ObservedInv
<1>1. ASSUME NEW O, O \subseteq registered, Detach(O)
      PROVE  DashboardClosed'
  <2>1. Dash \in Observer BY DashboardAssumption
  <2>2. observer[Dash].closed => observer'[Dash].closed
    <3>1. observer[Dash] \in Inbox BY <1>0, <2>1, ObservedTypes
    <3>2. observer'[Dash] = observer[Dash]
          \/ observer'[Dash] = [observer[Dash] EXCEPT !.closed = TRUE]
      BY <1>1, <2>1 DEF Detach, Closed
    <3>. QED BY <3>1, <3>2, InboxIs
  <2>. QED BY <1>0, <2>2 DEF DashboardClosed
<1>2. CASE \E c \in Context, o \in Observer : Deliver(c, o)
  BY <1>0, <1>2, DeliverKeeps
<1>3. CASE \E c \in Context : Sent(c) BY <1>0, <1>3, SentKeeps
<1>4. ASSUME NEW O, O \subseteq registered, Detach(O), UNCHANGED engineVars, UNCHANGED heard
      PROVE  ObservedInv'
  <2>1. context' \in [Context -> Life]
        /\ \A c \in Context : context'[c].events = context[c].events
    BY <1>0, <1>4 DEF engineVars, TypesHold
  <2>2. UNCHANGED <<inst, sending, intents, heard>> BY <1>4 DEF engineVars
  <2>3. DashboardClosed' BY <1>1, <1>4
  <2>4. O \subseteq Observer /\ \A o \in O : consumer[o] # "ABSENT"
    BY <1>4, RegisteredArePresent
  <2>. QED BY <1>4, <2>1, <2>2, <2>3, <2>4, DetachKeeps
<1>5. CASE \E c \in Context : CloseOwner(c)
  <2>1. PICK c \in Context : CloseOwner(c) BY <1>5
  <2>2. Owned(c) \subseteq registered BY DEF Owned
  <2>. QED BY <1>4, <2>1, <2>2 DEF CloseOwner
<1>6. CASE CloseHub BY <1>4, <1>6 DEF CloseHub
<1>. QED BY <1>2, <1>3, <1>5, <1>6 DEF Hub

LEMMA ConsumeKeeps ==
    ASSUME ObservedInv, NEW o \in Observer, Consume(o), phase' = phase
    PROVE  ObservedInv'
<1>1. /\ observer[o].queue # << >>
      /\ heard' = [heard EXCEPT ![o][Head(observer[o].queue).context]
                                    = Head(observer[o].queue).number]
      /\ observer' = [observer EXCEPT ![o].queue = Tail(@)]
      /\ consumer' = [consumer EXCEPT ![o] = "IDLE"]
      /\ UNCHANGED <<inst, context, sending, intents, registered, phase>>
  BY DEF Consume, engineVars
<1>. QED BY <1>1, TakeKeeps

LEMMA AwaitKeeps ==
    ASSUME ObservedInv, NEW o \in Observer, Await(o), phase' = phase
    PROVE  ObservedInv'
<1>. DEFINE now == IF observer[o].overflowed THEN "FAILED"
                   ELSE IF observer[o].closed THEN "STOPPED" ELSE "WAITING"
<1>1. /\ consumer' = [consumer EXCEPT ![o] = now]
      /\ consumer[o] # "ABSENT" /\ observer[o].queue = << >>
      /\ UNCHANGED <<inst, context, sending, intents, registered, observer, heard>>
  BY DEF Await, engineVars, hubVars
<1>2. now \in {"WAITING", "STOPPED", "FAILED"} OBVIOUS
<1>3. now = "WAITING" => Open(o) BY DEF Open
<1>4. DashboardClosed' BY <1>1 DEF ObservedInv, DashboardClosed
<1>. HIDE DEF now
<1>. QED BY <1>1, <1>2, <1>3, <1>4, ConsumerKeeps

LEMMA ObservedStep == ObservedInv /\ [Next]_vars => ObservedInv'
<1>. SUFFICES ASSUME ObservedInv, [Next]_vars PROVE ObservedInv' OBVIOUS
<1>0. Dash \in Observer BY DashboardAssumption
<1>1. ASSUME UNCHANGED observationVars, DashboardClosed' PROVE ObservedInv'
  <2>1. UNCHANGED <<inst, context, sending, intents, registered, observer, consumer, heard>>
    BY <1>1 DEF observationVars, engineVars, hubVars
  <2>2. intents' \in [Context -> Seq(Intent)] BY <2>1 DEF ObservedInv, TypesHold
  <2>. QED BY <1>1, <2>1, <2>2, ObservedIsStill
<1>2. ASSUME UNCHANGED observationVars, phase' = phase PROVE ObservedInv'
  <2>1. DashboardClosed'
    BY <1>2 DEF ObservedInv, DashboardClosed, observationVars, hubVars
  <2>. QED BY <1>1, <1>2, <2>1
<1>3. CASE Engine
  <2>1. ASSUME NEW c \in Context, EngineStep(c), UNCHANGED dashboardVars PROVE ObservedInv'
    BY <2>1, EngineStepKeeps DEF dashboardVars
  <2>2. ASSUME NEW c \in Context, Retire(c) PROVE ObservedInv'
    <3>1. /\ context' = [context EXCEPT ![c].phase = "RETIRED"]
          /\ Detach(Owned(c)) /\ UNCHANGED <<inst, sending, intents, heard>>
          /\ phase' = phase
      BY <2>2 DEF Retire, RetireContext, dashboardVars
    <3>2. context \in [Context -> Life] BY DEF ObservedInv, TypesHold
    <3>3. /\ [context[c] EXCEPT !.phase = "RETIRED"] \in Life
          /\ [context[c] EXCEPT !.phase = "RETIRED"].events = context[c].events
      BY <3>2, Updated
    <3>4. context' = [context EXCEPT ![c] = [context[c] EXCEPT !.phase = "RETIRED"]]
      BY <3>1, <3>2
    <3>5. /\ context' \in [Context -> Life]
          /\ \A d \in Context : context'[d].events = context[d].events
      BY <3>2, <3>3, <3>4
    <3>6. Owned(c) \subseteq registered BY DEF Owned
    <3>7. Owned(c) \subseteq Observer /\ \A o \in Owned(c) : consumer[o] # "ABSENT"
      BY <3>6, RegisteredArePresent
    <3>8. DashboardClosed'
      <4>1. observer[Dash] \in Inbox BY <1>0 DEF ObservedInv, TypesHold
      <4>2. observer'[Dash] = observer[Dash]
            \/ observer'[Dash] = [observer[Dash] EXCEPT !.closed = TRUE]
        BY <1>0, <3>1 DEF Detach, Closed
      <4>3. observer[Dash].closed => observer'[Dash].closed BY <4>1, <4>2, InboxIs
      <4>. QED BY <3>1, <4>3 DEF ObservedInv, DashboardClosed
    <3>. QED BY <3>1, <3>5, <3>7, <3>8, DetachKeeps
  <2>3. ASSUME NEW c \in inst.contexts, NEW action \in {"pause", "resume"},
               Command(c, action), UNCHANGED dashboardVars
        PROVE  ObservedInv'
    <3>1. /\ intents' = [intents EXCEPT ![c] =
                            Append(@, [action |-> action, revision |-> None])]
          /\ UNCHANGED <<inst, context, sending, hubVars, consumer, heard>>
          /\ phase' = phase
      BY <2>3 DEF Command, dashboardVars
    <3>2. c \in Context
      <4>1. inst \in Instances BY DEF ObservedInv, TypesHold
      <4>. QED BY <4>1, ObservationAssumption
    <3>3. intents \in [Context -> Seq(Intent)] BY DEF ObservedInv, TypesHold
    <3>4. [action |-> action, revision |-> None] \in Intent BY DEF Intent
    <3>5. intents' \in [Context -> Seq(Intent)] BY <3>1, <3>2, <3>3, <3>4
    <3>6. DashboardClosed' BY <3>1 DEF ObservedInv, DashboardClosed, hubVars
    <3>. QED BY <3>1, <3>5, <3>6, ObservedIsStill DEF hubVars
  <2>. QED BY <1>3, <2>1, <2>2, <2>3 DEF Engine
<1>4. CASE Hub BY <1>4, HubKeeps
<1>5. CASE Application
  <2>1. phase' = phase BY <1>5 DEF Application, dashboardVars
  <2>2. PICK o \in Observer \ {Dash} :
            Observe(o) \/ Consume(o) \/ Await(o) \/ CloseObserver(o)
    BY <1>5 DEF Application
  <2>3. ASSUME CloseObserver(o) PROVE DashboardClosed'
    <3>1. observer'[Dash] = observer[Dash]
      BY <1>0, <2>2, <2>3 DEF CloseObserver, Detach, Closed
    <3>. QED BY <2>1, <3>1 DEF ObservedInv, DashboardClosed
  <2>. QED BY <2>1, <2>2, <2>3, ObserveKeeps, ConsumeKeeps, AwaitKeeps, CloseObserverKeeps
<1>6. CASE Loop
  <2>1. CASE ConsumeEvent BY <1>0, <2>1, ConsumeKeeps DEF ConsumeEvent
  <2>2. CASE AwaitEvent BY <1>0, <2>2, AwaitKeeps DEF AwaitEvent, dashboardVars
  <2>3. CASE BeginPass BY <1>2, <2>3 DEF BeginPass
  <2>4. CASE \E c \in Context : Sample(c) BY <1>2, <2>4 DEF Sample
  <2>5. CASE EndPass BY <1>2, <2>5 DEF EndPass
  <2>6. ASSUME NEW r \in Request, NEW c \in Context,
               NEW a \in {"pause", "resume", "stop", "abort"}, Control(r, c, a)
        PROVE  ObservedInv'
    <3>. DEFINE n == context[c].revision + 1
    <3>1. /\ intents' = [intents EXCEPT ![c] = Append(@, [action |-> a, revision |-> n])]
          /\ UNCHANGED <<inst, context, sending, hubVars, consumer, heard, phase>>
      BY <2>6 DEF Control
    <3>2. intents \in [Context -> Seq(Intent)] /\ context[c] \in Life
      BY DEF ObservedInv, TypesHold
    <3>3. n \in Nat BY <3>2 DEF Life
    <3>. HIDE DEF n
    <3>4. [action |-> a, revision |-> n] \in Intent BY <3>3 DEF Intent
    <3>5. intents' \in [Context -> Seq(Intent)] BY <3>1, <3>2, <3>4
    <3>6. DashboardClosed' BY <3>1 DEF ObservedInv, DashboardClosed, hubVars
    <3>. QED BY <3>1, <3>5, <3>6, ObservedIsStill DEF hubVars
  <2>7. CASE Payload BY <1>2, <2>7 DEF Payload
  <2>8. CASE BeginClose
    <3>1. phase' = "DRAINING" BY <2>8 DEF BeginClose
    <3>2. CASE observer[Dash].closed /\ UNCHANGED observationVars
      <4>1. DashboardClosed' BY <3>1, <3>2 DEF DashboardClosed, observationVars, hubVars
      <4>. QED BY <1>1, <3>2, <4>1
    <3>3. CASE CloseObserver(Dash)
      <4>1. observer'[Dash] = [observer[Dash] EXCEPT !.closed = TRUE]
        BY <1>0, <3>3 DEF CloseObserver, Detach, Closed
      <4>2. observer[Dash] \in Inbox BY <1>0 DEF ObservedInv, TypesHold
      <4>3. observer'[Dash].closed
        <5>. DEFINE r == [observer[Dash] EXCEPT !.closed = TRUE]
        <5>1. r.closed BY <4>2, InboxIs
        <5>2. observer'[Dash] = r BY <4>1
        <5>. HIDE DEF r
        <5>. QED BY <5>1, <5>2
      <4>4. DashboardClosed' BY <3>1, <4>3 DEF DashboardClosed
      <4>. QED BY <1>0, <3>3, <4>4, CloseObserverKeeps
    <3>. QED BY <2>8, <3>2, <3>3 DEF BeginClose
  <2>9. CASE Drain
    <3>1. /\ observer[Dash].queue # << >>
          /\ heard' = [heard EXCEPT ![Dash][Head(observer[Dash].queue).context]
                                        = Head(observer[Dash].queue).number]
          /\ observer' = [observer EXCEPT ![Dash].queue = Tail(@)]
          /\ consumer' = consumer
          /\ UNCHANGED <<inst, context, sending, intents, registered, phase>>
      BY <2>9 DEF Drain, engineVars
    <3>. QED BY <1>0, <3>1, TakeKeeps
  <2>10. CASE CloseRecover
    <3>1. UNCHANGED observationVars /\ phase = "DRAINING" /\ phase' = "RECOVERED"
      BY <2>10 DEF CloseRecover
    <3>2. DashboardClosed'
      BY <3>1 DEF ObservedInv, DashboardClosed, observationVars, hubVars
    <3>. QED BY <1>1, <3>1, <3>2
  <2>11. CASE FinishClose
    <3>1. /\ phase = "RECOVERED" /\ phase' = "CLOSED"
          /\ consumer' = [consumer EXCEPT ![Dash] = "STOPPED"]
          /\ UNCHANGED <<inst, context, sending, intents, registered, observer, heard>>
      BY <2>11 DEF FinishClose, engineVars, hubVars
    <3>2. observer[Dash].closed BY <3>1 DEF ObservedInv, DashboardClosed
    <3>3. DashboardClosed' BY <3>1, <3>2 DEF DashboardClosed
    <3>4. ~Open(Dash) BY <3>2 DEF Open
    <3>. QED BY <1>0, <3>1, <3>3, <3>4, ConsumerKeeps
  <2>. QED BY <1>6, <2>1, <2>2, <2>3, <2>4, <2>5, <2>6, <2>7, <2>8, <2>9,
              <2>10, <2>11 DEF Loop
<1>7. CASE \E c \in Context : Age(c) BY <1>2, <1>7 DEF Age
<1>8. CASE UNCHANGED vars BY <1>2, <1>8 DEF vars, dashboardVars
<1>. QED BY <1>3, <1>4, <1>5, <1>6, <1>7, <1>8 DEF Next

(* Every observer that was not told of an overflow hears of each context it   *)
(* sees every event since it registered, once and in order, and none waits    *)
(* beside what it should hear: for every number of observers and contexts,    *)
(* every capacity and every scope.                                            *)
THEOREM EventsAreHeardInOrder == Spec => []ObservedInOrder
<1>1. ObservedInv => ObservedInOrder
  BY DEF ObservedInv, HearsAll, WaitingIsIdle, ObservedInOrder
<1>. QED BY <1>1, ObservedInitially, ObservedStep, PTL DEF Spec
=============================================================================
