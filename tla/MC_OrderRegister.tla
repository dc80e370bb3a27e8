------------------------- MODULE MC_OrderRegister -------------------------
(* Model-checking instance of OrderRegister: one address, a length-4 and a *)
(* length-6 account, one 4bit gift card, two or three concurrent requests. *)
EXTENDS OrderRegister, TLC

CONSTANTS r1, r2, r3, a1, n4, n6, c4, vOk, vExp, vCross, vNone, vZero

MCRequests == {r1, r2, r3}

\* Two handlers: every race of the module is between two requests.
MCRequests2 == {r1, r2}
MCAccLen == (n4 :> 4) @@ (n6 :> 6)
MCCouponTypeOf == c4 :> "4bit"
MCPayTokens == {"coupon", "das", "eth", "bnb"}

\* Referrers, one per row GetAccountInfoByAccountId may return; vExp is
\* on the inviter whitelist.
MCRefRow == (vOk :> "normal") @@ (vExp :> "expired") @@ (vCross :> "onCross")
            @@ (vNone :> "none") @@ (vZero :> "zeroOwner")

InRef(acc, y, g, t, i, ch) ==
    [addr |-> a1, account |-> acc, years |-> y, gift |-> g, token |-> t,
     inviter |-> i, channel |-> ch]

In(acc, y, g, t) == InRef(acc, y, g, t, NoRef, NoRef)

\* Every branch of the handler is reachable from one of these bodies.
MCInputs ==
    { InRef(n4, 1, c4, "coupon", vOk, vOk),    \* valid gift-card order
      In(n6, 1, c4, "coupon"),     \* gift card of the wrong tier
      In(n4, 2, c4, "coupon"),     \* gift card with a multi-year duration
      In(n4, 1, c4, "eth"),        \* gift card with a priced token
      InRef(n6, 1, NoCoupon, "eth", vOk, vCross), \* ordinary order
      InRef(n4, 1, NoCoupon, "eth", vExp, vZero), \* whitelisted inviter
      InRef(n4, 1, NoCoupon, "eth", NoRef, vZero), \* channel owned by 0x0
      InRef(n6, 1, NoCoupon, "das", NoRef, vExp), \* DAS-balance order
      InRef(n6, 1, NoCoupon, "eth", vNone, NoRef), \* inviter not found
      InRef(n6, 1, NoCoupon, "eth", vCross, NoRef), \* inviter on cross
      InRef(n6, 1, NoCoupon, "eth", vZero, vNone),  \* inviter owned by 0x0
      In(n4, 1, NoCoupon, "coupon"), \* coupon token without a gift card
      In(n6, 1, NoCoupon, "bnb") } \* token without quote or receipt address

\* Concurrent redemptions of one gift card.
MCInputsCoupon == { In(n4, 1, c4, "coupon") }

\* Ordinary orders of one address for two different accounts.
MCInputsUnPay == { In(n4, 1, NoCoupon, "eth"), In(n6, 1, NoCoupon, "eth") }

\* Repeated submissions of one ordinary order.
MCInputsGuard == { In(n6, 1, NoCoupon, "eth") }

\* A check of the gift card, racing its redemption.
MCCheckInputs == { [coupon |-> c4] }

Symm == Permutations(MCRequests)

\* Requests for pairwise different accounts: no two share a register-limit
\* key, so the guard neither serialises nor fails open between them.
MCDistinctAccounts ==
    \A x, y \in Requests : x # y => req[x].account # req[y].account

MCSpecDistinct == Init /\ MCDistinctAccounts /\ [][Next]_vars
=============================================================================
