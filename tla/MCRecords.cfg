SPECIFICATION RecordsSpec
CONSTANTS
    key = key
    batch = batch
    Codes = {key}
    Batches = {batch}
    BatchOf <- MCBatchOf
    Offers <- MCOffers
    NoTime = NoTime
    MaxNow = 4
    Requests = {r1, r2, r3}
    NoTx = NoTx
    RouterIds = {1, 2}
    Operators = {o1, o2}
    Guests = {g}
    Hosts = {"h1", "h2"}
    Tags = {"t"}
    NoTag = "none"
    NoHost = "none"
    Browsers = {b1, b2}
    Consoles = {k}
    MaxAttempts = 2
    MaxDelay = 2
    MaxChanges = 2
    MaxSessions = 2
    DeviceIds = {1, 2}
    Clients = {"a", "b"}
    Spellings = {"colons", "bare", "torn"}
    Malformed = {"torn"}
    Addresses = {"10.0.0.2"}
    SessionIds = {"s1"}
    NoOne = "none"
CONSTRAINT InventoryBound
INVARIANTS LedgerTypeOK SnapshotsAreCurrent NeverOverRedeemed UsedWithinWindow OneDefaultAtRest MovingTheMarkTurnsNobodyAway CookiesDieWithThePassword LateFailuresBounded ClientsListedOnce
PROPERTIES KeysSpec
