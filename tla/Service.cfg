CONSTANTS
    Context <- Contexts
    Graph <- Graphs
    Caller <- Callers
    Nobody = Nobody
    Instances <- ServiceInstances
SPECIFICATION Spec
INVARIANTS
    EngineAgrees
    WaitsTrue
PROPERTIES
    CallsReturn
CHECK_DEADLOCK FALSE
