--------------------------- MODULE HistoryPromise ---------------------------
(***************************************************************************)
(* What the persistence lane promises: a log that publications enter in    *)
(* the order of their numbers, none twice; the least number from which on  *)
(* something is missing; and answers to those who wait that agree with     *)
(* both.  HistoryLane implements it.                                       *)
(***************************************************************************)
EXTENDS Integers, Sequences, FiniteSets

CONSTANTS
    Confirmed,      \* who waits for what has been accepted, and for its success
    Passing,    \* who waits until what has been accepted is out of the way
    NoFailure   \* not a number of a publication

VARIABLES
    accepted,   \* how many publications and losses have been numbered
    log,        \* the numbers of the publications that are stored
    first,      \* the first number that failed, or NoFailure
    wait        \* by waiter: its status, and the last number it waits for

vars == <<accepted, log, first, wait>>

Stored == {log[i] : i \in 1..Len(log)}
FailedBy(n) == first # NoFailure /\ first <= n

Init ==
    /\ accepted = 0 /\ log = << >> /\ first = NoFailure
    /\ wait = [w \in Confirmed \cup Passing |-> [status |-> "NONE", target |-> 0]]

\* Numbers are given out and never taken back.
Accept == accepted' >= accepted

\* What enters the log enters at its end, in the order of the numbers.
Keep ==
    /\ Len(log') >= Len(log) /\ SubSeq(log', 1, Len(log)) = log
    /\ \A i \in 1..Len(log') : log'[i] \in 1..accepted'
    /\ \A i \in (Len(log) + 1)..Len(log') : i > 1 => log'[i] > log'[i - 1]

\* A failure is never forgotten, and never told to be later than it was.
Fail ==
    \/ first' = first
    \/ first' \in 0..accepted' /\ (first # NoFailure => first' < first)

\* A flush succeeds only if everything it covers is stored; whoever only waits
\* for its turn goes on when everything before it is stored or has failed.
Answer(w) ==
    \/ wait'[w] = wait[w]
    \/ /\ wait[w].status = "NONE"
       /\ wait'[w].target \in accepted..accepted'
       /\ wait'[w].status \in {"WAITING", "OK", "FAILED"}
    \/ /\ wait[w].status = "WAITING"
       /\ wait'[w].status \in {"OK", "FAILED"} /\ wait'[w].target = wait[w].target

Truthful(w) ==
    wait'[w].status = "OK" /\ wait[w].status # "OK" =>
        \A n \in 1..wait'[w].target :
            \/ n \in Stored'
            \/ w \in Passing /\ FailedBy(n)'

Next ==
    /\ Accept /\ Keep /\ Fail
    /\ \A w \in Confirmed \cup Passing : Answer(w) /\ Truthful(w)
    /\ DOMAIN wait' = DOMAIN wait

Spec == Init /\ [][Next]_vars
=============================================================================
