SPECIFICATION Spec
CONSTANTS
    Numeral <- MCNumeral
    Patterns <- MCPatterns
    UnitMs <- MCUnitMs
    MaxInt = 1000000000
    Ticks <- MCTicks
    Alphabets <- MCAlphabets
    Leaves <- MCLeaves
    Leaf <- MCLeaf
    Clauses <- MCClauses
    Growth = 2
INVARIANTS
    ReadAsWritten
    EveryTreeIsRead
CHECK_DEADLOCK FALSE
