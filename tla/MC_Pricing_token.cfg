CONSTANTS
    UsdRateBase = 100
    PercentRateBase = 100
    OneCkb = 10
    DivisionPrecision = 3
    SnapUnit = 1000
    TokenCoupon = "coupon"
    TokenCkb = "ckb"
    SnapTokens = {"eth"}
    Inputs <- MCInputsToken
SPECIFICATION Spec
\* getOrderAmount returns once; the request then goes on in OrderRegister.
CHECK_DEADLOCK FALSE
INVARIANT PayTokenNeverUnderpaid
