SPECIFICATION Spec
CONSTANTS
    a1 = a1
    a2 = a2
    l1 = l1
    l2 = l2
    l3 = l3
    Appender = {a1, a2}
    Label = {l1, l2}
    Time = {1, 2}
    Value = {0}
    MaxSeries = 0
    MinT = {}
    SegMax = 2
    MaxBatch = 1
    MaxLog = 3
    MaxRef = 3
    MaxCrash = 1
    MaxFail = 0
SYMMETRY Sym
INVARIANT CommittedSurvives
