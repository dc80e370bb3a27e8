--------------------------- MODULE OrderRegister ---------------------------
(***************************************************************************)
(* Order creation: HttpHandle.doOrderRegister and doRegisterOrder          *)
(* (src/http_server/handle/order_register.go) run by concurrent HTTP       *)
(* handlers.  Each request is a process whose program counter advances one *)
(* action per stretch of code between two accesses to shared state: the   *)
(* Redis register-limit lock, the order table, the coupon table and the    *)
(* Redis coupon lock.  Checks that read nothing shared (address format,   *)
(* chain type, system upgrade, block sync, account char set) are folded   *)
(* into nondeterministic failure branches of the action they belong to.   *)
(* Prices are abstracted to the sign that doRegisterOrder compares with    *)
(* decimal.Zero; the arithmetic itself is the subject of module Pricing.   *)
(* The same handlers serve /account/coupon/check (CheckCoupon and          *)
(* doCheckCoupon), behind the Redis response cache of the router           *)
(* (cacheHandleShort, src/http_server/router.go): a hit is served by        *)
(* respHandle without running the handler, a miss runs it and stores the  *)
(* response under the request body for shortDataTime.                      *)
(***************************************************************************)
EXTENDS Naturals, FiniteSets

CONSTANTS
    Requests,         \* concurrent invocations of doOrderRegister
    Addresses,        \* (chain type, hex address) pairs of requesters
    Accounts,         \* account names requested
    Coupons,          \* provisioned gift cards
    AccLen,           \* [Accounts -> Nat]: accLen after stripping ".bit"
    CouponTypeOf,     \* [Coupons -> {"4bit", "5bit"}]: tables.CouponType
    CouponsInWindow,  \* coupons with start_at <= now <= expired_at
    PayTokens,        \* pay token ids a request may carry
    TokenCoupon,      \* tables.TokenCoupon
    TokenIdDas,       \* tables.TokenIdDas (pay with DAS balance)
    SupportedTokens,  \* tokens timer.GetTokenInfo has a quote for
    PayAddressTokens, \* tokens with an entry in config PayAddressMap
    MaxUnPayCount,    \* maxUnPayCount
    RedisErrors,      \* whether a Redis call may fail with an error of its own
    Referrers,        \* account names a request may give as inviter or channel
    RefRow,           \* [Referrers -> RefRows]: their t_account_info row
    InviterWhitelist, \* config InviterWhitelist
    NoRef,            \* InviterAccount / ChannelAccount == ""
    Inputs,           \* request bodies the handlers may be called with
    CheckInputs,      \* bodies of /account/coupon/check: [coupon]
    NoCoupon,         \* GiftCard == ""
    NoOrder           \* empty order_id / lock value

ASSUME /\ CouponTypeOf \in [Coupons -> {"4bit", "5bit"}]
       /\ AccLen \in [Accounts -> Nat]
       /\ CouponsInWindow \subseteq Coupons
       /\ {TokenCoupon, TokenIdDas} \subseteq PayTokens
       /\ MaxUnPayCount \in Nat
       /\ RedisErrors \in BOOLEAN
       /\ InviterWhitelist \subseteq Referrers
       /\ CheckInputs \subseteq [coupon : Coupons \cup {NoCoupon}]

(* ReqOrderRegister, as checkOrderInfo and doRegisterOrder rewrite it.   *)
Body == [addr : Addresses, account : Accounts, years : Nat \ {0},
         gift : Coupons \cup {NoCoupon}, token : PayTokens,
         inviter : Referrers \cup {NoRef}, channel : Referrers \cup {NoRef}]

ASSUME Inputs \subseteq Body

VARIABLES
    req,         \* [Requests -> Inputs]: the body each handler received
    pc,          \* handler program counter
    resp,        \* ApiResp code the handler returned
    limitLock,   \* RegisterLimitLockWithRedis keys held: <<addr, account>>
    couponLock,  \* [Coupons -> Requests \cup {NoOrder}]: GetCouponLockWithRedis holder
    orders,      \* [Requests -> Order \cup {NoOrder}]: t_das_order_info row created
    couponOrder, \* [Coupons -> Requests \cup {NoOrder}]: t_coupon.order_id
    checkCache   \* [CheckInputs -> Resps]: cached response, "none" if no key

vars == <<req, pc, resp, limitLock, couponLock, orders, couponOrder, checkCache>>

Pcs == {"start", "unpay", "order", "couponLock", "price", "persist",
        "cacheStore", "done"}
Resps == {"none", "ok", "invalid", "frequent", "dbError", "couponInvalid",
          "error500", "balance", "inviterNotExist", "onCross"}

(* What GetAccountInfoByAccountId returns for a referrer: no row (Id 0),  *)
(* or a row on cross, owned by 0x0, expired, or in normal use.            *)
RefRows == {"none", "onCross", "zeroOwner", "expired", "normal"}

(* A persisted order: pay amount abstracted to its sign (Cmp with zero).   *)
Order == [addr : Addresses, account : Accounts, coupon : Coupons \cup {NoCoupon},
          payAmount : {0, 1}, payStatus : {"Default", "Sending"},
          inviter : Referrers \cup {NoRef}, channel : Referrers \cup {NoRef}]

TypeOK ==
    /\ req \in [Requests -> Body \cup CheckInputs]
    /\ pc \in [Requests -> Pcs]
    /\ resp \in [Requests -> Resps]
    /\ limitLock \subseteq Addresses \X Accounts
    /\ couponLock \in [Coupons -> Requests \cup {NoOrder}]
    /\ orders \in [Requests -> Order \cup {NoOrder}]
    /\ couponOrder \in [Coupons -> Requests \cup {NoOrder}]
    /\ checkCache \in [CheckInputs -> Resps]

Init ==
    /\ req \in [Requests -> Inputs \cup CheckInputs]
    /\ pc = [r \in Requests |-> "start"]
    /\ resp = [r \in Requests |-> "none"]
    /\ limitLock = {}
    /\ couponLock = [c \in Coupons |-> NoOrder]
    /\ orders = [r \in Requests |-> NoOrder]
    /\ couponOrder = [c \in Coupons |-> NoOrder]
    /\ checkCache = [k \in CheckInputs |-> "none"]

Created == {r \in Requests : orders[r] # NoOrder}

\* Return from the handler with code e; nothing shared changes.
Reply(r, e) ==
    /\ pc' = [pc EXCEPT ![r] = "done"]
    /\ resp' = [resp EXCEPT ![r] = e]

Goto(r, l) == pc' = [pc EXCEPT ![r] = l]

LimitKey(r) == <<req[r].addr, req[r].account>>

-----------------------------------------------------------------------------
(* Helpers translated from the code.                                       *)

\* GetUnPayOrderCount(chainType, address): orders still waiting for payment.
UnPayCount(a) == Cardinality({o \in Created : /\ orders[o].addr = a
                                             /\ orders[o].payStatus = "Default"})

\* unPayCount > maxUnPayCount rejects the request.
UnPayExceeded(n) == n > MaxUnPayCount

\* Mutant: checkCoupon without the order_id test.
CheckCouponWindowOnly(c) == c \in CouponsInWindow

\* checkCoupon: found, not bound to an order, inside its validity window.
CheckCoupon(c) == /\ couponOrder[c] = NoOrder
                  /\ c \in CouponsInWindow

CheckCouponType(len, c) == \/ CouponTypeOf[c] = "4bit" /\ len = 4
                           \/ CouponTypeOf[c] = "5bit" /\ len >= 5

\* getOrderAmount: the coupon token bypasses pricing with three zero totals.
AmountSign(token) == IF token = TokenCoupon THEN 0 ELSE 1

\* amountTag: 0 for a gift-card order, 1 otherwise.
AmountTag(r) == IF req[r].gift # NoCoupon THEN 0 ELSE 1

\* The three totals must compare with zero exactly as amountTag says.
AmountMatchesTag(r) == AmountSign(req[r].token) = AmountTag(r)

\* checkOrderInfo on InviterAccount: the code it returns, "pass" if none.
CheckInviter(i) ==
    IF i = NoRef THEN "pass"
    ELSE CASE RefRow[i] = "none"      -> "inviterNotExist"
           [] RefRow[i] = "onCross"   -> "onCross"
           [] RefRow[i] = "zeroOwner" -> "invalid"
           [] OTHER                   -> "pass"

\* Mutant: a channel account on cross kept.
CheckChannelOnCrossKept(ch) ==
    IF ch # NoRef /\ RefRow[ch] \in {"none", "expired"} THEN NoRef ELSE ch

\* checkOrderInfo on ChannelAccount: a channel with no row, on cross or
\* expired is silently dropped.
CheckChannel(ch) ==
    IF ch # NoRef /\ RefRow[ch] \in {"none", "onCross", "expired"} THEN NoRef ELSE ch

\* A whitelisted inviter is recorded as the channel too.
WhitelistChannel(r) ==
    IF req[r].inviter \in InviterWhitelist THEN req[r].inviter ELSE req[r].channel

\* GetCouponLockWithRedis succeeds only on a free key.
CouponLockFree(c) == couponLock[c] = NoOrder

NewOrder(r) ==
    [addr |-> req[r].addr, account |-> req[r].account, coupon |-> req[r].gift,
     payAmount |-> AmountSign(req[r].token),
     payStatus |-> IF req[r].gift # NoCoupon THEN "Sending" ELSE "Default",
     inviter |-> req[r].inviter, channel |-> req[r].channel]

\* Mutant: the coupon bound to the account name instead of the order id.
CreateCouponOrderBindAccount(r) ==
    /\ orders' = [orders EXCEPT ![r] = NewOrder(r)]
    /\ couponOrder' = [couponOrder EXCEPT ![req[r].gift] = req[r].account]

\* dbDao.CreateCouponOrder: order row and coupon binding in one transaction.
CreateCouponOrder(r) ==
    /\ orders' = [orders EXCEPT ![r] = NewOrder(r)]
    /\ couponOrder' = [couponOrder EXCEPT ![req[r].gift] = r]

-----------------------------------------------------------------------------
(* Handler steps.                                                          *)

\* Parameter and address checks, then RegisterLimitLockWithRedis (10s).
Start(r) ==
    /\ pc[r] = "start"
    /\ req[r] \in Inputs
    /\ \/ /\ Reply(r, "invalid")
          /\ UNCHANGED limitLock
       \/ /\ LimitKey(r) \notin limitLock
          /\ limitLock' = limitLock \cup {LimitKey(r)}
          /\ Goto(r, "unpay")
          /\ UNCHANGED resp
       \/ /\ LimitKey(r) \in limitLock
          /\ Reply(r, "frequent")
          /\ UNCHANGED limitLock
       \* any other Redis error is ignored and the request goes on unlocked
       \/ /\ RedisErrors
          /\ Goto(r, "unpay")
          /\ UNCHANGED <<resp, limitLock>>
    /\ UNCHANGED <<req, couponLock, orders, couponOrder, checkCache>>

\* GetUnPayOrderCount, then checkOrderInfo and the account checks.
UnPay(r) ==
    /\ pc[r] = "unpay"
    /\ LET n == UnPayCount(req[r].addr) IN
       \/ Reply(r, "dbError") /\ UNCHANGED req
       \/ UnPayExceeded(n) /\ Reply(r, "frequent") /\ UNCHANGED req
       \* years, coin types, char set, account status, address orders
       \/ ~UnPayExceeded(n) /\ Reply(r, "invalid") /\ UNCHANGED req
       \/ /\ ~UnPayExceeded(n)
          /\ CheckInviter(req[r].inviter) # "pass"
          /\ Reply(r, CheckInviter(req[r].inviter))
          /\ UNCHANGED req
       \/ /\ ~UnPayExceeded(n)
          /\ CheckInviter(req[r].inviter) = "pass"
          /\ req' = [req EXCEPT ![r].channel = CheckChannel(req[r].channel)]
          /\ Goto(r, "order")
          /\ UNCHANGED resp
    /\ UNCHANGED <<limitLock, couponLock, orders, couponOrder, checkCache>>

\* doRegisterOrder up to the coupon lock: HexToArgs, years, checkCoupon.
RegisterOrder(r) ==
    /\ pc[r] = "order"
    /\ LET c == req[r].gift IN
       \/ Reply(r, "error500") /\ UNCHANGED req
       \/ c = NoCoupon /\ Goto(r, "price") /\ UNCHANGED <<req, resp>>
       \/ c # NoCoupon /\ req[r].years # 1 /\ Reply(r, "invalid") /\ UNCHANGED req
       \* not found, bound, outside its window, wrong tier, or a lookup error
       \/ /\ c # NoCoupon /\ req[r].years = 1
          /\ Reply(r, "couponInvalid")
          /\ UNCHANGED req
       \* a gift card drops the inviter and the channel
       \/ /\ c # NoCoupon /\ req[r].years = 1
          /\ CheckCoupon(c)
          /\ CheckCouponType(AccLen[req[r].account], c)
          /\ req' = [req EXCEPT ![r].inviter = NoRef, ![r].channel = NoRef]
          /\ Goto(r, "couponLock")
          /\ UNCHANGED resp
    /\ UNCHANGED <<limitLock, couponLock, orders, couponOrder, checkCache>>

\* GetCouponLockWithRedis(coupon.Code, time.Minute).
LockCoupon(r) ==
    /\ pc[r] = "couponLock"
    /\ LET c == req[r].gift IN
       \/ /\ CouponLockFree(c)
          /\ couponLock' = [couponLock EXCEPT ![c] = r]
          /\ Goto(r, "price")
          /\ UNCHANGED resp
       \* held by another request, or a Redis error
       \/ /\ Reply(r, "frequent")
          /\ UNCHANGED couponLock
    /\ UNCHANGED <<req, limitLock, orders, couponOrder, checkCache>>

\* getOrderAmount, the amountTag check, the inviter whitelist, the DAS
\* balance check and the receipt address; every early return here keeps
\* the coupon lock.
Price(r) ==
    /\ pc[r] = "price"
    /\ LET t == req[r].token IN
       \/ t # TokenCoupon /\ Reply(r, "error500") /\ UNCHANGED req
       \/ /\ t \notin SupportedTokens \cup {TokenCoupon}
          /\ Reply(r, "error500")
          /\ UNCHANGED req
       \/ ~AmountMatchesTag(r) /\ Reply(r, "error500") /\ UNCHANGED req
       \/ /\ AmountMatchesTag(r)
          /\ t \in SupportedTokens \cup {TokenCoupon}
          /\ req' = [req EXCEPT ![r].channel = WhitelistChannel(r)]
          /\ \/ t = TokenIdDas /\ Reply(r, "balance")
             \/ /\ req[r].gift = NoCoupon
                /\ t \notin PayAddressTokens
                /\ Reply(r, "error500")
             \/ /\ req[r].gift # NoCoupon \/ t \in PayAddressTokens
                /\ Goto(r, "persist")
                /\ UNCHANGED resp
    /\ UNCHANGED <<limitLock, couponLock, orders, couponOrder, checkCache>>

\* CreateCouponOrder then DeleteCouponLockWithRedis, or CreateOrder.
Persist(r) ==
    /\ pc[r] = "persist"
    /\ LET c == req[r].gift IN
       IF c # NoCoupon
       THEN /\ couponLock' = [couponLock EXCEPT ![c] = NoOrder]
            /\ \/ CreateCouponOrder(r) /\ Reply(r, "ok")
               \/ Reply(r, "error500") /\ UNCHANGED <<orders, couponOrder>>
       ELSE /\ \/ /\ orders' = [orders EXCEPT ![r] = NewOrder(r)]
                  /\ Reply(r, "ok")
               \/ Reply(r, "error500") /\ UNCHANGED orders
            /\ UNCHANGED <<couponLock, couponOrder>>
    /\ UNCHANGED <<req, limitLock, checkCache>>

-----------------------------------------------------------------------------
(* Redis key expiry: the handlers never delete the register-limit key and  *)
(* delete the coupon key only after persisting, so the TTL frees the rest. *)

LimitLockExpire(k) ==
    /\ k \in limitLock
    /\ limitLock' = limitLock \ {k}
    /\ UNCHANGED <<req, pc, resp, couponLock, orders, couponOrder, checkCache>>

CouponLockExpire(c) ==
    /\ ~CouponLockFree(c)
    /\ couponLock' = [couponLock EXCEPT ![c] = NoOrder]
    /\ UNCHANGED <<req, pc, resp, limitLock, orders, couponOrder, checkCache>>

-----------------------------------------------------------------------------
(* /account/coupon/check.  The cache middleware keys the response by the   *)
(* request body; on a hit respHandle aborts with the stored response, on a *)
(* miss the handler runs and its response is written back with a          *)
(* shortDataTime (3 min) expiry.  The handler's read of t_coupon and the   *)
(* write of the cache entry are separate steps.                            *)

\* doCheckCoupon: an empty code, or checkCoupon returning nil, is
\* CouponInvalid; otherwise ok with the coupon type.
DoCheckCoupon(k) ==
    IF k.coupon # NoCoupon /\ CheckCoupon(k.coupon) THEN "ok" ELSE "couponInvalid"

\* respHandle: a stored response is served as it is, and a failed cache
\* lookup is answered with code 500; the handler does not run.
ServeCached(r, k) ==
    \/ checkCache[k] # "none" /\ Reply(r, checkCache[k])
    \/ RedisErrors /\ Reply(r, "error500")

\* Cache lookup, then CheckCoupon on a miss.
CheckCouponReq(r) ==
    /\ pc[r] = "start"
    /\ req[r] \in CheckInputs
    /\ LET k == req[r] IN
       \/ ServeCached(r, k)
       \/ /\ checkCache[k] = "none"
          /\ Goto(r, "cacheStore")
          /\ \/ resp' = [resp EXCEPT ![r] = DoCheckCoupon(k)]
             \* GetCouponByCode errs: checkCoupon returns nil
             \/ resp' = [resp EXCEPT ![r] = "couponInvalid"]
    /\ UNCHANGED <<req, limitLock, couponLock, orders, couponOrder, checkCache>>

\* The middleware stores the response the handler wrote.
CacheStore(r) ==
    /\ pc[r] = "cacheStore"
    /\ checkCache' = [checkCache EXCEPT ![req[r]] = resp[r]]
    /\ Goto(r, "done")
    /\ UNCHANGED <<req, resp, limitLock, couponLock, orders, couponOrder>>

CheckCacheExpire(k) ==
    /\ checkCache[k] # "none"
    /\ checkCache' = [checkCache EXCEPT ![k] = "none"]
    /\ UNCHANGED <<req, pc, resp, limitLock, couponLock, orders, couponOrder>>

Handle(r) == Start(r) \/ UnPay(r) \/ RegisterOrder(r) \/ LockCoupon(r)
             \/ Price(r) \/ Persist(r) \/ CheckCouponReq(r) \/ CacheStore(r)

Next ==
    \/ \E r \in Requests : Handle(r)
    \/ \E k \in limitLock : LimitLockExpire(k)
    \/ \E c \in Coupons : CouponLockExpire(c)
    \/ \E k \in CheckInputs : CheckCacheExpire(k)

Spec == Init /\ [][Next]_vars

-----------------------------------------------------------------------------
(* Properties.                                                             *)

(* Two orders never carry the same gift card: a coupon is redeemed at most *)
(* once although checkCoupon reads t_coupon before the coupon lock is      *)
(* taken.                                                                  *)
CouponRedeemedOnce ==
    \A r1, r2 \in Created :
        orders[r1].coupon # NoCoupon /\ orders[r1].coupon = orders[r2].coupon
            => r1 = r2

(* The unpaid orders of an address never exceed the ceiling by more than   *)
(* the one order the "count > max" test lets through.                      *)
UnPayCountCap ==
    \A a \in Addresses : UnPayCount(a) <= MaxUnPayCount + 1

(* Past RegisterLimitLockWithRedis: the steps the register-limit guard is   *)
(* meant to cover.                                                         *)
PastGuard(r) == pc[r] \in {"unpay", "order", "couponLock", "price", "persist"}

(* Two requests with the same (chain type, address, account) are never    *)
(* both past the register-limit guard while neither has returned (spec     *)
(* 4.3 and 5: the second is told to retry).  RegisterLimitLockWithRedis    *)
(* ignores every error but preemption, and its 10 s key is never deleted   *)
(* and may expire under a slow handler.                                    *)
GuardExclusive ==
    \A r1, r2 \in Requests :
        r1 # r2 /\ PastGuard(r1) /\ PastGuard(r2) => LimitKey(r1) # LimitKey(r2)

(* The referral recorded on an order names accounts that exist and are   *)
(* not in a cross-chain transfer, and a gift-card order records none: the *)
(* inviter is validated and the channel filtered by checkOrderInfo, the   *)
(* gift card clears both in doRegisterOrder, and the inviter whitelist     *)
(* later copies the inviter over the channel.                              *)
ReferralValid ==
    \A r \in Created :
        LET o == orders[r] IN
        /\ o.coupon # NoCoupon => o.inviter = NoRef /\ o.channel = NoRef
        /\ \A a \in {o.inviter, o.channel} \ {NoRef} :
               RefRow[a] \notin {"none", "onCross"}

(* A check handler that has read "ok" from t_coupon and not yet written  *)
(* its response to the cache.                                              *)
CheckOkInFlight(k) ==
    \E r \in Requests : pc[r] = "cacheStore" /\ req[r] = k /\ resp[r] = "ok"

(* The stale window of /account/coupon/check is one cache entry: once a   *)
(* gift card is bound to an order, and neither the cache entry of its     *)
(* check nor a check handler between its t_coupon read and its cache      *)
(* write holds "ok", the endpoint never again stores or serves "ok" for   *)
(* it.  doCheckCoupon must read the binding afresh on every miss, and the *)
(* middleware must store only what the handler answered, for the same    *)
(* request body.                                                           *)
StaleOkBounded ==
    \A k \in CheckInputs :
        [](/\ k.coupon # NoCoupon
           /\ couponOrder[k.coupon] # NoOrder
           /\ checkCache[k] # "ok"
           /\ ~CheckOkInFlight(k)
           => [](checkCache[k] # "ok"))

=============================================================================
