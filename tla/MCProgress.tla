----------------------------- MODULE MCProgress -----------------------------
(***************************************************************************)
(* One context for Progress that comes back from another engine and finds  *)
(* its first step done already.                                            *)
(***************************************************************************)
EXTENDS Progress, TLC

CONSTANTS c1, k1

TwoInARow == k1 :> (1 :> {} @@ 2 :> {1})

ReturnsWarm ==
    {[contexts |-> {c1}, key |-> c1 :> k1, iterations |-> c1 :> 2, iterationBound |-> 2,
      transfers |-> 1, tries |-> 0, faults |-> FALSE, warm |-> TRUE]}
=============================================================================
