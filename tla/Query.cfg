SPECIFICATION Spec
CONSTANTS
    Numeral <- MCNumeral
    Math <- MCMath
    Second = 1
    BadInt <- MCBadInt
    Language <- MCLanguage
    Expand <- MCExpand
    Join <- MCJoin
    Calendar <- MCCalendar
    Lookback = 2
    DefaultStep = 1
    MaxResolution = 8
    MaxInt = 999
    UnitMs <- MCUnitMs
    Parts <- MCParts
    Catalog <- MCCatalog
    None = None
INVARIANTS
    RangeIsInstants
    WindowLaws
    CounterLaws
    AggregationLaws
    MatchingLaws
    HistogramLaws
    KindIsStatic
    ListingsAgree
PROPERTY
    AnswersAreLocal
CHECK_DEADLOCK FALSE
