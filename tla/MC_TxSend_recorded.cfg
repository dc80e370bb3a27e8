CONSTANTS
    r1 = r1  r2 = r2  r3 = r3  k1 = k1  k2 = k2  a1 = a1
    transfer = transfer  bid = bid
    Requests <- MCRequests
    Keys <- MCKeys
    Actions = {transfer, bid}
    BidAction = bid
    Addresses = {a1}
    NoAddress = NoAddress
    Inputs <- MCInputs
    Conflict <- MCConflict
    MaxCrashes = 1
    NoKey = NoKey  NoReq = NoReq  NoEntry = NoEntry
SPECIFICATION MCSpec
\* Every handler ends and the sign cache empties; the server then idles.
CHECK_DEADLOCK FALSE
INVARIANT BroadcastRecorded
