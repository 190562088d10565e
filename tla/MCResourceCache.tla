-------------------------- MODULE MCResourceCache --------------------------
(***************************************************************************)
(* A small instance of ResourceCache.  "db" is an exclusive resource and    *)
(* "gpu" one that is parallel safe; the operator of c1 uses db through two   *)
(* fields, that of c2 uses both.                                            *)
(***************************************************************************)
EXTENDS ResourceCache, TLC

CONSTANTS c1, c2, fieldA, fieldB, fieldC, fieldD, opA, opB, db, gpu

OperatorOfField == fieldA :> opA @@ fieldB :> opA @@ fieldC :> opB @@ fieldD :> opB
KeyOfField == fieldA :> db @@ fieldB :> db @@ fieldC :> db @@ fieldD :> gpu
GraphOfContext == c1 :> {opA} @@ c2 :> {opB}
=============================================================================
