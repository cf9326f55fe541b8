SPECIFICATION ConnectSpec
CONSTANTS
    ip1 = ip1
    m1 = m1
    Subjects = {ip1, m1}
    MACs = {m1}
    NoMac = NoMac
    Events = {}
    NoEvent = NoEvent
    NoTime = NoTime
    Reports <- MCReports
    MaxReportSeconds = 3
    Spends = {}
    IdleTTLs = {1}
    MaxTime = 2
    MaxBought = 6
    MaxPulses = 2
    Taps = {t1, t2}
    Clients <- MCClients
    Minute = 2
    MaxSessionSeconds = 4
    NoSubject = NoSubject
    FailingQueries = {"mac", "carries"}
    MaxMinted = 4
SYMMETRY TapSymmetry
INVARIANTS ConnectTypeOK DeductedOnlyWhatWasGranted SerialTapsNeverOverspend
