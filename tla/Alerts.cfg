SPECIFICATION Spec
CONSTANTS
    Rule = {r1}
    Fp = {1, 2}
    For = {1}
    Eval = {timer, api}
    Handler = {h1}
    MaxInstances = 1
    MaxTime = 1
    MaxFlips = 2
    MaxDisruptions = 1
INVARIANTS
    SoundWhenCalm
    NotifierAgrees
    Repairs
PROPERTIES
    NoFalseAllClear
CHECK_DEADLOCK FALSE
