SPECIFICATION GuestSpec
CONSTANTS
    Callers = {c1}
    RunAttempts = 2
    Services <- MCServices
    Modes = {"auto", "rest"}
    HealJobs = {h1, h2}
    ButtonJobs = {b}
    HealWindow = 1
    JobTimeout = 0
    MaxIncidents = 1
INVARIANT OneHealAtATime
PROPERTIES ImplementsDelivery VerifiedWasFetched BrokenPageHeals
