SPECIFICATION MetricsSpec
CONSTANTS
    Containers = {web, db}
    Kinds <- MCKinds
    Tabs <- MCTabs
    Hours = {3}
    Bucket = 2
    Retention = 3
    MaxWindow = 3
    LiveWindow = 1
    LiveStep = 2
    Ticks = {t1, t2}
    MaxTime = 2
    MaxCharts = 1
    None = None
SYMMETRY Alike
INVARIANTS
    ChartIsTrue
PROPERTY
    WindowKept
