SPECIFICATION NodeSpec
CONSTANTS
    box = box
    client = client
    Subjects = {client}
    MACs = {}
    NoMac = NoMac
    Events <- MCEvents
    NoEvent = NoEvent
    NoTime = NoTime
    Reports = {}
    MaxReportSeconds = 50
    Spends = {}
    IdleTTLs = {0}
    MaxTime = 0
    MaxBought = 50
    MaxPulses = 50
    Nodes = {box}
    ClientOf <- MCClientOf
    MaxPending = 100
    MaxBatch = 2
    FlashMayFail = FALSE
    MaxInserted = 3
    MaxFailures = 0
    MaxCuts = 1
INVARIANT EventIdNeverReused
CHECK_DEADLOCK FALSE
