\* Two handlers and the reporting thread, a window of three samples, and a signal at any moment.
\* The process ends.
SPECIFICATION FairSpec
CHECK_DEADLOCK FALSE
CONSTANTS
    Reporter = Reporter
    Thread = {th1, th2}
    Latency = {1, 2}
    window_size = 3
    Recent = 0
    MaxTime = 1
    MaxRecords = 4
INVARIANTS TypeOK WindowIsLatest ThroughputExact PercentilesRight
PROPERTIES ShutdownCompletes
