SPECIFICATION Spec
CONSTANTS
    n1 = n1
    n2 = n2
    n3 = n3
    Producer = {p1, p2}
    Notification = {n1, n2, n3}
    Severity <- MCSeverity
    MinSeverity = "warning"
    QueueSize = 2
    MaxRetries = 1
INVARIANTS
    FIFO
    ShutdownSafe
PROPERTIES
    EverythingEnds
CHECK_DEADLOCK FALSE
