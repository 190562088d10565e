CONSTANTS
    Context <- Contexts
    Graph <- Graphs
    Caller <- Callers
    Nobody = Nobody
    Instances <- SubmittingInstances
SPECIFICATION Spec
INVARIANT SubmissionReturns
CHECK_DEADLOCK FALSE
