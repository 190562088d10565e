SPECIFICATION LanesSpec
CONSTANTS
    c1 = c1
    c2 = c2
    f1 = f1
    q1 = q1
    q2 = q2
    g1 = g1
    Client = {q1, q2}
    Graph = {g1}
    Nothing = Nothing
    QueueSize = 2
    MaxCaptures = 2
    Context = {c1, c2}
    Timed = {c1}
    Flusher = {f1}
    Reader = {}
    PendingItems = 3
    BatchItems = 2
    MaxAttempts = 2
    MaxFaults = 1
INVARIANTS
    NothingLostUntold
    NothingForgotten
PROPERTIES
    ImplementsPromise
    LanesSettle
