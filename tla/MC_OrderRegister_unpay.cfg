CONSTANTS
    r1 = r1
    r2 = r2
    r3 = r3
    a1 = a1
    n4 = n4
    n6 = n6
    c4 = c4
    vOk = vOk
    vExp = vExp
    vCross = vCross
    vNone = vNone
    vZero = vZero
    NoRef = NoRef
    NoCoupon = NoCoupon
    NoOrder = NoOrder
    Requests <- MCRequests2
    Addresses = {a1}
    Accounts = {n4, n6}
    Coupons = {c4}
    AccLen <- MCAccLen
    CouponTypeOf <- MCCouponTypeOf
    CouponsInWindow = {c4}
    PayTokens <- MCPayTokens
    TokenCoupon = "coupon"
    TokenIdDas = "das"
    SupportedTokens = {"das", "eth"}
    PayAddressTokens = {"das", "eth"}
    MaxUnPayCount = 0
    RedisErrors = FALSE
    Referrers = {vOk, vExp, vCross, vNone, vZero}
    RefRow <- MCRefRow
    InviterWhitelist = {vExp}
    Inputs <- MCInputsUnPay
    CheckInputs = {}
SPECIFICATION MCSpecDistinct
CHECK_DEADLOCK FALSE
INVARIANT UnPayCountCap
