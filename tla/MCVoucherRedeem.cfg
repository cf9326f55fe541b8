SPECIFICATION RedeemSpec
CONSTANTS
    key = key
    batch = batch
    Codes = {key}
    Batches = {batch}
    BatchOf <- MCBatchOf
    Offers <- MCOffers
    NoTime = NoTime
    MaxNow = 1
    Requests = {r1, r2}
    NoTx = NoTx
    NoCode = NoCode
    Clicks = {c1, c2}
CONSTRAINT ClicksBound
SYMMETRY Symmetry
INVARIANTS RedeemTypeOK NobodyOnlineForFree PushedKeysWorkOffline
PROPERTIES DeviceFailureNeverBurns
