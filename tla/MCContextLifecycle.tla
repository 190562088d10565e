------------------------- MODULE MCContextLifecycle -------------------------
(***************************************************************************)
(* Instances of ContextLifecycle: two ordinary contexts and an authority   *)
(* context.  Ordinary contexts are interchangeable: no definition orders   *)
(* them, so the runs without liveness properties use the symmetry.         *)
(***************************************************************************)
EXTENDS ContextLifecycle, TLC

CONSTANTS c1, c2, guard

Symmetry == Permutations({c1, c2})

\* Two contexts over two iterations under control commands and pressure.
Controls == [contexts |-> {c1, c2}, controlled |-> FALSE, commands |-> {"Abort", "Pause", "Resume", "Stop"},
             shutdowns |-> {"GRACEFUL"}, pressures |-> BOOLEAN, maxIteration |-> 2, maxCommands |-> 3,
             maxQueue |-> 1]
\* Contexts that are routed and transferred, an authority, and a shutdown.
Routing == [contexts |-> {c1, c2, guard}, controlled |-> TRUE, commands |-> {"TransferOut", "TransferIn"},
            shutdowns |-> {"GRACEFUL"}, pressures |-> {FALSE}, maxIteration |-> 1, maxCommands |-> 2,
            maxQueue |-> 1]
\* A shutdown that is escalated, or forced at once, also without the coordinator.
Forced == [Routing EXCEPT !.contexts = {c1, guard}, !.shutdowns = {"GRACEFUL", "FORCED"}]
ForcedPair == [Routing EXCEPT !.shutdowns = {"FORCED"}, !.commands = {"TransferIn"}, !.maxCommands = 1]
\* A context that is given away and taken back while it waits for its start.
Returning == [Routing EXCEPT !.contexts = {c1}, !.controlled = FALSE, !.commands = ControlCommand,
                          !.maxCommands = 3, !.maxQueue = 3]
\* A context that is taken back while another waits under memory pressure.
Pressed == [Routing EXCEPT !.contexts = {c1, c2}, !.controlled = FALSE, !.pressures = BOOLEAN,
                          !.shutdowns = {"FORCED"}]
\* An authority that is paused while its request is granted, as it is told to stop.
Guarded == [Forced EXCEPT !.controlled = FALSE, !.commands = {"Pause"}, !.maxCommands = 1]
\* One command and a shutdown, for what must happen.
Simple == [contexts |-> {c1, c2}, controlled |-> FALSE, commands |-> {"Abort", "Pause", "Stop"},
           shutdowns |-> {"GRACEFUL"}, pressures |-> {FALSE}, maxIteration |-> 1, maxCommands |-> 1,
           maxQueue |-> 1]
Pauses == [Simple EXCEPT !.contexts = {c1}, !.commands = {"Pause"}, !.maxQueue = 2]

SafetyInstances == {Controls, Routing, Forced, ForcedPair, Returning, Pressed, Guarded}
LiveInstances == {Simple}
PauseInstances == {Pauses}
=============================================================================
