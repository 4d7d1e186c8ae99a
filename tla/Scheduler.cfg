SPECIFICATION Spec
CONSTANTS
    Handler = {h1, h2}
    Rule = {r1}
    Interval = {1, 2}
    MaxEdits = 2
INVARIANTS
    OneTimer
    NewestListWins
    QuietStore
PROPERTIES
    StopReturns
CHECK_DEADLOCK FALSE
