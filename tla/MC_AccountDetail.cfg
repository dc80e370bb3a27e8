CONSTANTS
    NoRow = NoRow
    GracePeriod = 3
    AuctionPeriod = 2
    DeliverPeriod = 2
    RowStatuses = {"Normal", "OnSale"}
    Inputs <- MCInputs
SPECIFICATION Spec
CHECK_DEADLOCK FALSE
INVARIANT ReRegisterTimeAhead
