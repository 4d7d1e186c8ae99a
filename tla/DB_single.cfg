SPECIFICATION Spec
CONSTANTS
    a1 = a1
    a2 = a2
    l1 = l1
    l2 = l2
    l3 = l3
    Appender = {a1}
    Label = {l1, l2, l3}
    Time = {1}
    Value = {0, 1}
    MaxSeries = 2
    MinT = {}
    SegMax = 2
    MaxBatch = 2
    MaxLog = 3
    MaxRef = 3
    MaxCrash = 2
    MaxFail = 1
CONSTRAINT FewFaults
SYMMETRY Sym
INVARIANTS
    AppliedIsDurable
    SlotsSound
    CommittedSurvives
PROPERTIES
    RecoverySound
    FirstValueKept
