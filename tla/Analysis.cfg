SPECIFICATION AnalysisSpec
CONSTANTS
    Warmup = 1
    Sustained = 2
    PersistencePct = 60
    Reach = 1
    LatencyPct = 25
    PlateauPct = 5
    ErrorAbs = 5
    CpuHigh = 80
    NoFinding = NoFinding
    Cases <- BottleneckCases
CHECK_DEADLOCK FALSE
INVARIANT OnsetsAreEarliest ReportsAgree
