------------------------------ MODULE Authority ------------------------------
(***************************************************************************)
(* Who may do what in a running engine (engine/messages/runtime_messenger): *)
(* the messenger issues one capability to the engine, one to its modules    *)
(* and one to each registered context, and looks at the grant behind it     *)
(* whenever a message is submitted or a run is asked for.                   *)
(* The grants are a record that the lock of the messenger protects.         *)
(***************************************************************************)
EXTENDS FiniteSets, Functions

CONSTANTS
    Context,   \* the contexts that may be registered
    Graph      \* the graphs they run; all of them is unrestricted supervision

NoContext == "NONE"
Engine == "ENGINE"     \* the capability of the engine's owner
Modules == "MODULES"   \* those of the runtime's own modules
Capability == Context \cup {Engine, Modules}

ControlMessages == {"Abort", "Stop"}
ContextMessages == ControlMessages \cup {"Record"}
EngineMessages == ControlMessages \cup {"Shutdown"}
ControllerMessages == ContextMessages \cup {"Shutdown"}
ModuleMessages == {"Registered", "Terminated", "Idle"}
AcceptedDuringShutdown == {"Registered", "Terminated", "Idle", "Shutdown", "Record"}

Message(type, of) == [type |-> type, of |-> of]

-----------------------------------------------------------------------------
(* Grants                                                                    *)

Grant(kind, of, messages, graphs, controller) ==
    [kind |-> kind, of |-> of, messages |-> messages, graphs |-> graphs, controller |-> controller]

EngineGrant == Grant("ENGINE", NoContext, EngineMessages, {}, FALSE)
ModuleGrant == Grant("MODULE", NoContext, ModuleMessages, {}, FALSE)
ContextGrant(c, about) ==
    Grant("CONTEXT", c, IF about.controller THEN ControllerMessages ELSE ContextMessages,
          about.graphs, about.controller)

Unissued == [closed |-> FALSE, grants |-> << >>, scopes |-> << >>]
ClosedMessenger == [closed |-> TRUE, grants |-> << >>, scopes |-> << >>]

\* The engine's capability comes first, those of the modules with it.
Bootstrapped ==
    [Unissued EXCEPT !.grants = [k \in {Engine, Modules} |-> IF k = Engine THEN EngineGrant ELSE ModuleGrant]]

With(f, k, v) == [i \in DOMAIN f \cup {k} |-> IF i = k THEN v ELSE f[i]]

RegisterContext(auth, c, about) ==
    [auth EXCEPT !.grants = With(@, c, ContextGrant(c, about)), !.scopes = With(@, c, about.graph)]

UnregisterContexts(auth, C) ==
    [auth EXCEPT !.grants = Restrict(@, DOMAIN @ \ C), !.scopes = Restrict(@, DOMAIN @ \ C)]

-----------------------------------------------------------------------------
(* What a grant allows                                                       *)

Active(auth, k) == k \in DOMAIN auth.grants

Supervises(auth, g, c) == c \in DOMAIN auth.scopes /\ auth.scopes[c] \in g.graphs

\* The contexts an authority sees: all for the owner, never itself for a context.
Visible(auth, k, contexts) ==
    LET g == auth.grants[k]
    IN IF g.kind = "ENGINE" THEN contexts ELSE {c \in contexts \ {g.of} : Supervises(auth, g, c)}

MayAccess(auth, k, c) ==
    LET g == auth.grants[k]
    IN g.kind = "ENGINE" \/ (g.kind = "CONTEXT" /\ (c = g.of \/ Supervises(auth, g, c)))

IsController(auth, k) == Active(auth, k) /\ auth.grants[k].kind = "CONTEXT" /\ auth.grants[k].controller

\* A context stores values of its own, and controls itself and what it supervises.
MayTarget(auth, k, m) ==
    LET g == auth.grants[k]
    IN g.kind = "CONTEXT" /\ m.of \in Context =>
           m.of = g.of \/ (m.type # "Record" /\ Supervises(auth, g, m.of))

Permitted(auth, k, m) == Active(auth, k) /\ m.type \in auth.grants[k].messages /\ MayTarget(auth, k, m)

\* A message that nobody would handle any more is refused.
Received(auth, m, coordinator) ==
    /\ ~auth.closed
    /\ coordinator = "RUNNING" \/ (coordinator = "STOPPING" /\ m.type \in AcceptedDuringShutdown)
=============================================================================
