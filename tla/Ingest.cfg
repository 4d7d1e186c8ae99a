SPECIFICATION IngestSpec
CONSTANTS
    t1 = t1
    p1 = p1
    p2 = p2
    Target = {t1}
    Request = {p1, p2}
    Appender = {t1, p1, p2}
    Label = {"x", "y", "up", "duration", "scraped", "m", "n"}
    Exposed <- MCExposed
    Synthetic <- MCSynthetic
    Batches <- MCBatches
    ValueOf <- MCValueOf
    ScrapeLimit = 0
    PushLimit = 2
    MaxTime = 2
    Time = {0, 1, 2}
    Value = {0, 1, 2, 3}
    MaxSeries = 4
    MinT = {2}
INVARIANTS
    AllOrNothing
    UpIsRecorded
CONSTRAINT TwoAtATime
CHECK_DEADLOCK FALSE
