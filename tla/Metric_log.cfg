\* A day of two seconds, files of two lines, two of them kept; the process
\* is killed once and one file cannot be created or removed.
CONSTANTS
    QueueSize = 1
    MaxSingleSize = 2
    MaxFileAmount = 2
    DayLength = 2
    TimezoneOffset = 1
    MaxItemAmount = 4
    MaxLastFetchInterval = 3
    FetchInterval = 1
    Queries <- MCQueries
    StartTime = 4
    MaxTime = 6
    MaxRuns = 2
    MaxFailures = 1
    MaxSearches = 1
SPECIFICATION Spec
INVARIANTS SearchExact
CHECK_DEADLOCK FALSE
