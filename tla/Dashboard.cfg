CONSTANTS
    c1 = c1
    c2 = c2
    owner = owner
    dash = dash
    app = app
    r1 = r1
    None = None
    Context <- MCContext
    Observer <- MCObserver
    Request <- MCRequest
    Dash <- dash
    Instances <- MCInstances
    MaxObservers = 64
    MaxRecent = 1
    MaxActive = 1
    PageLimit = 1
    WindowEntries = 2
    WindowBytes = 2
    EntryBytes = 2
SPECIFICATION Spec
INVARIANT ObservedInOrder
INVARIANT RecoveryCovers
INVARIANT EndsAccounted
INVARIANT RowsTrue
PROPERTY EvidenceAdvances
CHECK_DEADLOCK FALSE
