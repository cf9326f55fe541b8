SPECIFICATION StoresSpec
CONSTANTS
    Subjects = {s1}
    MACs = {m1}
    NoMac = NoMac
    Events = {e1, e2}
    NoEvent = NoEvent
    NoTime = NoTime
    Reports <- MCReports
    MaxReportSeconds = 2
    Spends = {1, 2}
    IdleTTLs = {0, 1}
    MaxTime = 3
    MaxBought = 4
    MaxPulses = 3
    TierIds = {1, 2, 3}
    CoinPulseSeconds = 900
    CoinPulseCents = 500
    FormPulses = {0, 1, 3, 4, 70}
    FormTerms <- MCTerms
    PulseReports = {1, 2, 3, 4, 5, 7, 8, 70, 75}
    Phones = {p1, p2}
    Users = {u1}
    Ids = {i1}
    NoId = NoId
    NoUser = NoUser
    Readers = {y1, y2}
    Logins = {r1}
INVARIANTS
    TypeOK Conservation StatusMatchesBalance
    EveryPulsePricedOnce AdvertisedIsGranted
    HistoryTypeOK LiveSessionShown
PROPERTIES
    NeverReleasedEarly AbandonedBalanceReleased
    TableConverges
