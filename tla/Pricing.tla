------------------------------ MODULE Pricing ------------------------------
(***************************************************************************)
(* The price of a registration: HttpHandle.getOrderAmount                  *)
(* (src/http_server/handle/order_register.go) and getAccountPrice          *)
(* (src/http_server/handle/account_detail.go), as called by doRegisterOrder *)
(* (isRenew = false).  Values of shopspring decimal.Decimal are exact      *)
(* rationals [num, den]; Div rounds half away from zero to                 *)
(* DivisionPrecision fractional digits, as decimal.Div does, and every     *)
(* DivRound and Ceil of the code is kept.  The handler computes the amount *)
(* once per request: the state is the request's pricing inputs and the     *)
(* three totals it returns.                                                *)
(***************************************************************************)
EXTENDS Naturals

CONSTANTS
    UsdRateBase,        \* common.UsdRateBase: scale of quotes and prices
    PercentRateBase,    \* common.PercentRateBase: scale of the invited discount
    OneCkb,             \* common.OneCkb: shannons per CKB
    DivisionPrecision,  \* decimal.DivisionPrecision used by Div
    SnapUnit,           \* decCeil: volatile-token totals snap up to this unit
    TokenCoupon,        \* tables.TokenCoupon
    TokenCkb,           \* tables.TokenIdCkb
    SnapTokens,         \* TokenIdMatic, TokenIdBnb, TokenIdEth
    Inputs              \* pricing inputs a request can meet

VARIABLES
    inp,     \* configuration, quote, token info and request fields
    amount   \* (amountTotalUSD, amountTotalCKB, amountTotalPayToken)

vars == <<inp, amount>>

NoAmount == [usd |-> "none"]

------------------------------------------------------------------------------
(* Decimal arithmetic on non-negative values.                              *)

RECURSIVE Gcd(_, _)
Gcd(a, b) == IF b = 0 THEN a ELSE Gcd(b, a % b)

Dec(n, d) == LET g == Gcd(n, d) IN [num |-> n \div g, den |-> d \div g]
Int(n) == Dec(n, 1)
Zero == Int(0)
AddDec(x, y) == Dec(x.num * y.den + y.num * x.den, x.den * y.den)
SubDec(x, y) == Dec(x.num * y.den - y.num * x.den, x.den * y.den)
MulDec(x, y) == Dec(x.num * y.num, x.den * y.den)
LeDec(x, y) == x.num * y.den <= y.num * x.den
IsPos(x) == x.num > 0

\* Decimal.Ceil.
CeilDec(x) == Int((x.num + x.den - 1) \div x.den)

\* Decimal.DivRound(y, p): x / y rounded half away from zero to p digits
\* (the integer part and the remainder rounded apart, to keep TLC's
\* integers small; a quotient with at most p digits is exact).
DivRound(x, y, p) ==
    LET e == Dec(x.num * y.den, x.den * y.num)
        r == e.num % e.den
    IN  IF 10^p % e.den = 0 THEN e
        ELSE AddDec(Int(e.num \div e.den),
                    Dec((2 * r * 10^p + e.den) \div (2 * e.den), 10^p))

\* Decimal.Div: DivRound to DivisionPrecision digits.
DivDec(x, y) == DivRound(x, y, DivisionPrecision)

------------------------------------------------------------------------------
(* getAccountPrice (isRenew = false).                                      *)

\* basicCapacity/OneCkb + len(account) + preparedFeeCapacity/OneCkb: whole
\* CKB, each capacity truncated by the uint64 division.
BasicCkb(in) == in.basicCapacity \div OneCkb + in.accountBytes
                + in.preparedFeeCapacity \div OneCkb

\* The base amount in CKB times the quote, over UsdRateBase to 6 digits.
BaseAmount(in) == DivRound(MulDec(Int(BasicCkb(in)), Int(in.quote)), Int(UsdRateBase), 6)

\* The per-length new-registration price from the price config cell.
AccountPrice(in) == DivRound(Int(in.newPrice), Int(UsdRateBase), 2)

(* getOrderAmount.                                                         *)

\* accountPrice times years, less the invited discount when an inviter is given.
InvitedPrice(in) ==
    LET p == MulDec(AccountPrice(in), Int(in.years))
    IN  IF in.inviter
        THEN MulDec(p, SubDec(Int(1), DivDec(Int(in.invitedDiscount), Int(PercentRateBase))))
        ELSE p

\* Premium and Discount of the config applied to the price, then the base added.
UsdBeforeRounding(in) ==
    LET u1 == IF IsPos(in.premium) THEN MulDec(InvitedPrice(in), AddDec(in.premium, Int(1)))
              ELSE InvitedPrice(in)
        u2 == IF IsPos(in.discount) THEN MulDec(u1, in.discount) ELSE u1
    IN  AddDec(u2, BaseAmount(in))

\* Mul(100).Ceil().DivRound(100, 2): the USD total rounded up to cents.
UsdCents(x) == DivRound(CeilDec(MulDec(x, Int(100))), Int(100), 2)

DecQuote(in) == DivDec(Int(in.quote), Int(UsdRateBase))

\* Mutant: the CKB total without the final Ceil.
CkbTotalFloor(usd, decQuote) ==
    Int((MulDec(DivDec(usd, decQuote), Int(OneCkb))).num
        \div (MulDec(DivDec(usd, decQuote), Int(OneCkb))).den)

\* usd / decQuote in shannons, rounded up.
CkbTotal(usd, decQuote) == CeilDec(MulDec(DivDec(usd, decQuote), Int(OneCkb)))

\* Mutant: the pay-token total without the final Ceil.
PayTokenTotalNoCeil(usd, in) == MulDec(DivDec(usd, in.price), Int(10^in.decimals))

\* usd / token price in the token's smallest unit, rounded up.
PayTokenTotal(usd, in) == CeilDec(MulDec(DivDec(usd, in.price), Int(10^in.decimals)))

\* DivRound(decCeil, 6).Ceil().Mul(decCeil).
Snap(t) == MulDec(CeilDec(DivRound(t, Int(SnapUnit), 6)), Int(SnapUnit))

GetOrderAmount(in) ==
    IF in.token = TokenCoupon
    THEN [usd |-> Zero, ckb |-> Zero, token |-> Zero]
    ELSE LET usd == UsdCents(UsdBeforeRounding(in))
             ckb == CkbTotal(usd, DecQuote(in))
             tok == PayTokenTotal(usd, in)
         IN  [usd |-> usd, ckb |-> ckb,
              token |-> CASE in.token = TokenCkb    -> ckb
                          [] in.token \in SnapTokens -> Snap(tok)
                          [] OTHER                   -> tok]

------------------------------------------------------------------------------
Init == /\ inp \in Inputs
        /\ amount = NoAmount

\* doRegisterOrder calls getOrderAmount once per request.
Price == /\ amount = NoAmount
         /\ amount' = GetOrderAmount(inp)
         /\ UNCHANGED inp

Next == Price

Spec == Init /\ [][Next]_vars

------------------------------------------------------------------------------
DecVal == [num : Nat, den : Nat \ {0}]

TypeOK ==
    /\ inp \in Inputs
    /\ \/ amount = NoAmount
       \/ /\ amount \in [usd : DecVal, ckb : DecVal, token : DecVal]
          /\ amount.ckb.den = 1 /\ amount.token.den = 1

Priced == amount # NoAmount /\ inp.token # TokenCoupon

(* The CKB total is the least whole number of shannons worth at least the  *)
(* USD total at the quote: the service is never underpaid in CKB, and      *)
(* never charged a shannon more, although usd / quote passes through a     *)
(* Div rounded to DivisionPrecision digits.                                *)
CkbExact ==
    Priced =>
        LET worth(n) == MulDec(Int(n), Dec(inp.quote, UsdRateBase * OneCkb))
        IN  /\ LeDec(amount.usd, worth(amount.ckb.num))
            /\ amount.ckb.num > 0 => ~LeDec(amount.usd, worth(amount.ckb.num - 1))

(* The pay-token total is worth at least the USD total at the token price  *)
(* (spec 4.1: all roundings are upward so the service is never            *)
(* underpaid), whatever the token's decimals.                              *)
PayTokenNeverUnderpaid ==
    Priced /\ inp.token # TokenCkb =>
        LeDec(amount.usd, MulDec(MulDec(amount.token, inp.price), Dec(1, 10^inp.decimals)))

============================================================================
