------------------------- MODULE ResourceLifecycle -------------------------
(***************************************************************************)
(* What the resource cache promises, without counts, sessions or phases:   *)
(* one setup at a time per key, a resource used only by contexts that keep *)
(* it, one user at a time unless it is parallel safe, and a teardown only  *)
(* of a resource that nobody keeps.  ResourceCache is shown to implement   *)
(* it (Lifecycle there).                                                   *)
(***************************************************************************)
CONSTANTS Context, User, Key, ParallelSafe,
          OwnerOf       \* the context a user works for

VARIABLES
    stage,      \* by key
    keepers,    \* the contexts that keep the loaded resource, by key
    users       \* the users at work on it, by key

vars == <<stage, keepers, users>>

Init ==
    /\ stage = [k \in Key |-> "ABSENT"]
    /\ keepers = [k \in Key |-> {}]
    /\ users = [k \in Key |-> {}]

\* One key's part of a step.
Becomes(k, s, kept, used) ==
    stage'[k] = s /\ keepers'[k] = kept /\ users'[k] = used

Setup(k) ==
    stage[k] = "ABSENT" /\ Becomes(k, "LOADING", {}, {})

SetupFails(k) ==
    stage[k] = "LOADING" /\ Becomes(k, "ABSENT", {}, {})

SetupEnds(k) ==
    /\ stage[k] = "LOADING"
    /\ \E c \in Context : Becomes(k, "LOADED", {c}, {})

Keep(k) ==
    /\ stage[k] = "LOADED"
    /\ \E c \in Context : Becomes(k, "LOADED", keepers[k] \cup {c}, users[k])

Use(k) ==
    /\ stage[k] = "LOADED"
    /\ k \in ParallelSafe \/ users[k] = {}
    /\ \E u \in User \ users[k] :
           /\ OwnerOf[u] \in keepers[k]
           /\ Becomes(k, "LOADED", keepers[k], users[k] \cup {u})

\* A user leaves; its context may stop keeping the resource with it, unless
\* it has another user there.
Return(k) ==
    /\ stage[k] = "LOADED"
    /\ \E u \in users[k] :
           \/ Becomes(k, "LOADED", keepers[k], users[k] \ {u})
           \/ /\ \A v \in users[k] \ {u} : OwnerOf[v] # OwnerOf[u]
              /\ Becomes(k, "LOADED", keepers[k] \ {OwnerOf[u]}, users[k] \ {u})

Forget(k) ==
    /\ stage[k] = "LOADED"
    /\ \E c \in keepers[k] :
           /\ \A u \in users[k] : OwnerOf[u] # c
           /\ Becomes(k, "LOADED", keepers[k] \ {c}, users[k])

Teardown(k) ==
    stage[k] = "LOADED" /\ keepers[k] = {} /\ Becomes(k, "UNLOADING", {}, {})

TeardownEnds(k) ==
    stage[k] = "UNLOADING" /\ Becomes(k, "ABSENT", {}, {})

TeardownFails(k) ==
    stage[k] = "UNLOADING" /\ Becomes(k, "LOADED", {}, {})

KeyNext(k) ==
    \/ Setup(k) \/ SetupFails(k) \/ SetupEnds(k)
    \/ Keep(k) \/ Use(k) \/ Return(k) \/ Forget(k)
    \/ Teardown(k) \/ TeardownEnds(k) \/ TeardownFails(k)

\* An operator acquires and returns several resources in one step.
Next ==
    /\ \A k \in Key : KeyNext(k) \/ Becomes(k, stage[k], keepers[k], users[k])

Spec == Init /\ [][Next]_vars
=============================================================================
