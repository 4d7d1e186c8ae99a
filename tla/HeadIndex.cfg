SPECIFICATION Spec
CONSTANTS
    Name <- MCName
    Val <- MCVal
    Label <- MCLabel
    Hash <- MCHash
    Time = {1, 2, 3}
    Value = {0, 1}
    MaxSeries = 2
    Matcher <- MCMatcher
    MaxRef = 2
INVARIANTS
    IndexSound
    QueriesAgree
PROPERTIES
    ImplementsHead
