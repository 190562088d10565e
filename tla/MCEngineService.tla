-------------------------- MODULE MCEngineService --------------------------
(***************************************************************************)
(* Instances of EngineService: two threads outside the engine and the step  *)
(* of the context "lead", which supervises or controls the graph "jobs".    *)
(***************************************************************************)
EXTENDS EngineService

Contexts == {"lead", "job", "nested"}
Graphs == {"leads", "jobs"}
Callers == {"main", "other", "step"}

-----------------------------------------------------------------------------
(* Calls                                                                     *)

Call(op) == [op |-> op, of |-> NoContext, for |-> "NONE", bounded |-> FALSE, forced |-> FALSE,
             type |-> "NONE"]
OpenEngine == Call("START")
Enter(c) == [Call("SUBMIT") EXCEPT !.of = c]
Inside(c) == [Call("SUBMIT_INSIDE") EXCEPT !.of = c]
Await(c) == [Call("WAIT") EXCEPT !.of = c]
AwaitRunning(c) == [Await(c) EXCEPT !.for = "RUNNING", !.bounded = TRUE]
Look == Call("LIST")
Order(type, c) == [Call("CONTROL") EXCEPT !.type = type, !.of = c]
AskToStop(forced) == [Call("REQUEST") EXCEPT !.forced = forced]
ServeOn == Call("SERVE")
CloseDown(forced, bounded) == [Call("SHUTDOWN") EXCEPT !.forced = forced, !.bounded = bounded]

Threads(main, other, step) ==
    [u \in Callers |->
        [capability |-> IF u = "step" THEN "lead" ELSE Engine,
         calls |-> CASE u = "main" -> main [] u = "other" -> other [] OTHER -> step]]

-----------------------------------------------------------------------------
(* Contexts                                                                  *)

Job == [controller |-> FALSE, graphs |-> {}, graph |-> "jobs", fails |-> "NEVER"]
Supervisor == [Job EXCEPT !.graphs = {"jobs"}, !.graph = "leads"]
Controller == [Supervisor EXCEPT !.controller = TRUE]
Lead(about) == [c \in Contexts |-> IF c = "lead" THEN about ELSE Job]

Instance(contexts, failFast, wrong, threads) ==
    [contexts |-> contexts, failFast |-> failFast, faults |-> wrong, slow |-> FALSE, callers |-> threads]

\* Two threads shut down, one forced; the start, the coordinator or the loop fails.
Owners == {Instance(Lead(Job), FALSE, 1,
                    Threads(<<OpenEngine, Enter("job"), Await("job"), CloseDown(FALSE, bounded)>>,
                            <<CloseDown(TRUE, FALSE)>>, << >>)) : bounded \in BOOLEAN}

\* Two threads submit what fails, one step and one validation; the first failure ends the engine.
Failing == {Instance([Lead(Job) EXCEPT !["job"].fails = "STEP", !["nested"].fails = "VALIDATION"], failFast, 1,
                     Threads(<<OpenEngine, Enter("job"), Await("job"), CloseDown(FALSE, FALSE)>>,
                             <<OpenEngine, Enter("nested"), Look>>, << >>)) : failFast \in BOOLEAN}

\* A controller submits, watches its job and serves until it is stopped.
Controlling == {Instance([Lead(Controller) EXCEPT !["nested"].fails = "VALIDATION"], FALSE, 1,
                         Threads(<<OpenEngine, Enter("lead"), CloseDown(forced, TRUE)>>, <<Look>>,
                                 <<Inside("nested"), Inside("job"), AwaitRunning("job"), ServeOn>>))
                  : forced \in BOOLEAN}

\* A controller asks for the shutdown of the engine while threads submit and wait.
Asking == {Instance(Lead(Controller), FALSE, 0,
                    Threads(<<OpenEngine, Enter("lead"), Enter("job"), Await("job"), CloseDown(FALSE, FALSE)>>,
                            << >>, <<Order("Record", "lead"), AskToStop(forced), ServeOn>>)) : forced \in BOOLEAN}

\* A supervisor lists what it sees, aborts a job and stops itself.
Overseeing == {Instance(Lead(Supervisor), FALSE, 0,
                          Threads(<<OpenEngine, Enter("lead"), Enter("job"), Await("job"), Await("lead"),
                                    CloseDown(FALSE, FALSE)>>,
                                  <<Look>>, <<Look, Order(type, "job"), Inside("nested"), Order("Stop", "lead")>>))
                   : type \in {"Abort", "Stop", "Record"}}

\* Sessions that do not end within the time the cleanup has.
Slow == {[Instance(Lead(Job), FALSE, 1,
                   Threads(<<OpenEngine, Enter("job"), CloseDown(forced, TRUE)>>, << >>, << >>))
          EXCEPT !.slow = TRUE] : forced \in BOOLEAN}

ServiceInstances == Slow \cup Owners \cup Failing \cup Controlling \cup Asking \cup Overseeing

\* A controller submits while a thread does.
SubmittingInstances ==
    {Instance(Lead(Controller), FALSE, 0,
              Threads(<<OpenEngine, Enter("lead"), Enter("job"), CloseDown(FALSE, FALSE)>>, << >>,
                      <<Inside("nested")>>))}
=============================================================================
