-------------------------------- MODULE Queues --------------------------------
(***************************************************************************)
(* Queues from which members leave out of turn: the dicts and deques of the *)
(* engine keep the order of what stays.                                     *)
(***************************************************************************)
EXTENDS Naturals, Sequences

(* The queue q without the members that are in C.                            *)
Without(q, C) ==
    LET rest[n \in 0..Len(q)] ==
            IF n = 0 THEN << >>
            ELSE IF q[n] \in C THEN rest[n - 1] ELSE Append(rest[n - 1], q[n])
    IN  rest[Len(q)]
=============================================================================
