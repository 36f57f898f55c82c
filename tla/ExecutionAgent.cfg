SPECIFICATION FairSpec
CONSTANTS
    Sessions = {s1, s2}
    MaxAttempts = 3
    MaxPollFailures = 3
    MaxSleeps = 4
    MaxRuns = 2
    MaxTests = 1
    MaxTasks = 3
CHECK_DEADLOCK FALSE
INVARIANT OneShot CoreIsThere ReportsAreThere
PROPERTY TasksEnd
