SPECIFICATION Spec
CONSTANTS
    a1 = a1
    a2 = a2
    l1 = l1
    l2 = l2
    l3 = l3
    Appender = {a1, a2}
    Label = {l1, l2}
    Time = {1, 2}
    Value = {0}
    MaxSeries = 1
    MinT = {2}
    SegMax = 2
    MaxBatch = 1
    MaxLog = 3
    MaxRef = 3
    MaxCrash = 2
    MaxFail = 0
SYMMETRY Sym
INVARIANTS
    TypeOK
    HeadFromLog
    OnlyCommittedVisible
PROPERTY
    ImplementsStore
