# TLA+ models of das-register

These modules model the DAS (.bit) registration service in `src/`. They cover:

- **order creation**, including the gift-card (coupon) ledger, the referral checks, the rate guards and the cached coupon check, and its **pricing**;
- **paying an order from the DAS balance**, which is cell selection, transaction assembly, the sign cache and broadcast;
- the **send handler** step by step, with server restarts, shown to implement an abstract **sign cache**;
- the **account detail** query and its Dutch-auction periods.

Each module is translated from the handler code. `PROJECT.json` maps every definition to the source lines it models.

## 1. The system

| Part | Source | Shared state it touches |
|---|---|---|
| Order creation | `handle/order_register.go` `doOrderRegister` (164-273), `doRegisterOrder` (275-519) | Redis register-limit key (10 s TTL), `t_das_order_info`, `t_coupon`, Redis coupon lock (1 min TTL) |
| Coupon ledger | `checkCoupon` (590-611), `checkCouponType` (613-621), `CreateCouponOrder` (DAO, not in src) | `t_coupon.order_id`, coupon lock |
| Pricing | `getOrderAmount` (521-588), `getAccountPrice` (account_detail.go) | none (pure arithmetic over quotes and config) |
| Balance payment | `handle/balance_pay.go` `doBalancePay` (76-199), `buildBalancePayTx` (215-270) | cell indexer, dasCache, sign cache |
| Send | `handle/transaction_send.go` `doTransactionSend` (70-222) | sign cache, ledger, dasCache, api/account limits, `t_register_pending_info`, auction orders |
| Account detail | `handle/account_detail.go` `doAccountDetail` (193-320), `checkDutchAuction` (151-189) | read only: parser row, config cell, chain |
| Router | `http_server/router.go` | Redis response cache in front of `/account/coupon/check` (3 min) |
| DAO queries | `dao/t_account_info.go` `GetAccountInfoByAccountId` | read only: the inviter's and channel's account rows |

**How the parts interact.** A client first calls `OrderRegister`, which creates an unpaid order. When the pay token is the DAS balance, the client then calls `BalancePay`. That call builds a transaction spending the payer's balance cells and caches it under a sign key.

Next, the client calls `TransactionSend` with the key and signatures. The node accepts the transaction, and the handler records its inputs in the dasCache and sets the api/account limits. A settlement worker outside `src/` marks the order paid once the payment is confirmed.

Every HTTP request runs in its own goroutine, so any number of these handlers interleave on the shared state.

**Behaviours that are hard to test:**

- a register-limit guard that fails open on Redis errors and whose key expires under a slow handler;
- a check made before a lock and used after it (the coupon);
- check-then-create without a lock covering the check (the unpaid-order ceiling);
- early returns that leave a lock held;
- locks whose TTL expires under a slow handler;
- cell selection without reservation;
- a reply lost after the node accepted;
- the indexer lagging the ledger;
- a second payment of an order whose first payment is still unconfirmed.

## 2. Modules

### `OrderRegister` (order creation and the coupon ledger)

**State:**

- `req`, `pc`, `resp`: one handler process per request.
- `limitLock`: the register-limit keys.
- `couponLock`: the holder of each coupon's lock.
- `orders`: the order row each request created.
- `couponOrder`: `t_coupon.order_id`.
- `checkCache`: the router's cached response for each coupon-check body.

A request is either an order body (`Inputs`, with its inviter and channel) or a coupon-check body (`CheckInputs`). `checkOrderInfo` and `doRegisterOrder` rewrite the request's referral fields, and the model does the same to `req`.

**Actions.** There is one action per stretch of code between accesses to shared state:

| Action | Code |
|---|---|
| `Start` | 164-206: parameter checks, then `RegisterLimitLockWithRedis`. If the lock is held, the request fails as "frequent". Any other Redis error fails open (only when the constant `RedisErrors` is TRUE). |
| `UnPay` | 208-338: the unpaid-order ceiling, then `checkOrderInfo`. The inviter is rejected when its row is missing, on cross or owned by 0x0 (`CheckInviter`). An invalid channel is silently dropped (`CheckChannel`). The remaining checks read nothing shared. |
| `RegisterOrder` | 340-383: the amount tag, the coupon check and the tier/years rules. A valid gift card clears the inviter and the channel. |
| `LockCoupon` | 384-389 |
| `Price` | 391-485: `getOrderAmount`, the amount-tag match, and the inviter whitelist copying the inviter over the channel (`WhitelistChannel`). Its early returns keep the coupon lock. |
| `CheckCouponReq` | 62-120 and router.go 126-135: on a cache hit, `respHandle` serves the stored response (`ServeCached`). On a miss, `doCheckCoupon` runs. |
| `CacheStore` | router.go 34-39: the middleware stores the handler's response. |
| `Persist` | 487-519: `CreateCouponOrder` and then lock deletion, or `CreateOrder`. |

The environment adds `LimitLockExpire`, `CouponLockExpire` and `CheckCacheExpire`, which are the Redis TTLs. The cache middleware is toolib code, which is not in `src/`. Only its contract is modelled: lookup by body, store on a miss, and expiry after the data time.

Prices are abstracted to the sign of the total, because that sign is all the handler tests. Checks that read only configuration or the parser DB are nondeterministic failure branches.

### `Payment` (balance payment and send)

**State:**

- `payStatus`: the order's pay status.
- `built`, `signLive`: the sign cache.
- `dasCache`
- `spent`: ledger-spent cells.
- `indexed`: what the indexer has seen.
- `accepted`, `pending`
- `apiLimit`, `accountLimit`

**Actions:**

| Action | Code |
|---|---|
| `BalancePay(o, a)` | `doBalancePay` for any requester `a` (the code never compares `req.Address` with `order.Address`; the transaction records the payer, whose address the bookkeeping limits) with the server top-up at or below `MinCellOccupiedCkb` (`GetBalanceCellWithLock` reserves the server cells), the payer search, every failure branch, and `buildBalancePayTx` (`BuildTx`, `PayeeOutput`, `ChangeOutput`). |
| `TransactionSend(k)` | 70-190. The sign-cache read invalidates the entry. The failure branches come before submission. The ledger accepts the transaction iff its inputs are unspent. The reply may be lost after acceptance. `Bookkeeping` is lines 168-190. |

The environment adds:

- `IndexerSync`
- `ConfirmPayment`: the settlement worker.
- `SignCacheExpire`, `DasCacheExpire`, `LimitExpire`

The das-lib cell search is not in `src/`. It is modelled by its contract (`Spendable`, `DescSeq`, `Enough`, `Take`, `GetBalanceCells`):

- it excludes indexer-spent cells and the dasCache;
- it takes cells greedily in descending capacity until `total = need` or `total >= need + floor`.

### `Pricing` (getOrderAmount, getAccountPrice)
Pure arithmetic, one `Price` step per request (the call at order_register.go:391). shopspring decimals are exact rationals `[num, den]`; `DivRound` and `Ceil` follow the library, and `Div` rounds half away from zero to `DivisionPrecision` digits. Definitions follow the code step by step: `BasicCkb` (the base capacity in whole CKB, each capacity truncated by the integer division), `BaseAmount`, `AccountPrice` (account_detail.go), `DecQuote`, `InvitedPrice`, `UsdBeforeRounding` (premium, discount, then base), `UsdCents`, `CkbTotal`, `PayTokenTotal`, `Snap`, `GetOrderAmount`. TLC's integers are 32-bit, so the MC module scales the decimals while keeping the code's ratios: precision 3 (16 in `decimal`), OneCkb 10 (10^8), volatile-token decimals 5 (18: two more than the precision), snap unit 10^3 (10^6: more than 10^2).

### `TxSend` (the send handler, step by step)

`Payment` folds `doTransactionSend` into one step. `TxSend` splits it at every call to a shared store, for every kind of cached transaction (an action and an optional address), so that concurrent sends of one key and a server restart can be seen between the calls.

**State:**

- `built`, `live`: the `SignInfoCache` written by a builder, and whether Redis still holds it.
- `req`, `pc`, `taken`, `resp`: one handler per request, and the entry it read.
- `sentBy`: the handler whose submission the ledger accepted, per key.
- `apiLimit`, `dasCached`, `pending`, `auctionOrder`: the bookkeeping after a broadcast.
- `crashes`: server restarts so far.

**Actions:**

| Action | Code |
|---|---|
| `GetSignTxCache(r)` | 72-84: the read invalidates the entry; missing is `TxExpired`, a Redis error `cacheError`. |
| `SignTx(r)` | 86-150: the WebAuthn branch (`NormalToHex`, `GetIdxOfKeylist`, `idx == -1` is `permissionDenied`) and `AddSignatureForTx`. |
| `SendTransaction(r)` | 142-158: the node accepts iff no input is spent by an accepted transaction; the error classification (`rejectedOutPoint`, `-102` frequency, other); an acceptance whose reply is lost. Without an address the handler answers at once. |
| `Bookkeeping(r)` | 159-215: `SetApiLimit`/`SetAccountLimit`, `AddCellInputByAction`, `CreatePending` (error only logged); for a bid, `NormalToHex` and `CreateAuctionOrder` (error only logged). |

The environment adds `Build(k)` (a builder caches a transaction), `SignCacheExpire(k)` and `Crash` (a restart ends every running handler and empties the in-memory dasCache; Redis, the database and the ledger keep their state).

### `AccountDetail` (account status)

`doAccountDetail` only reads, so one request is one step from its inputs (the name's number of dots, the `t_account_info` row or none, the reserved and unavailable lists, the clock) to its response. Every call that can fail (the row query, the three config-cell periods, `GetTransaction`, the account-cell builder, `getAccountPrice`, `HexToNormal`, `GetSubAccountCell`) is a failure branch. `CheckDutchAuction` is the period arithmetic of `checkDutchAuction`, with its strict comparisons. `FormatAccountStatus` (not in `src/`) is any of a set of row statuses. The renew price is left out; only the failure of the calls that compute it is kept.

## 3. Runs

| Run | Module / cfg | Result | What it shows |
|---|---|---|---|
| order_register | `MC_OrderRegister.cfg` | pass, about 36 k states | `TypeOK`, `ReferralValid` and `StaleOkBounded` hold with two concurrent handlers over every branch of the order handler and the cached coupon check. |
| coupon_double_redeem | `MC_OrderRegister_coupon.cfg` | violation | `CouponRedeemedOnce` fails. r2 checks the coupon while r1 holds the lock; r1 persists and deletes the lock; r2 then locks and persists a second order. |
| unpaid_cap_race | `MC_OrderRegister_unpay.cfg` | violation | `UnPayCountCap` fails. Two handlers of one address, ordering different accounts (`MCSpecDistinct`), with Redis errors switched off: both read an unpaid count of 0 before either order exists, and two unpaid orders stand against a ceiling of 0. Neither the register-limit key (which includes the account) nor anything else serialises them. |
| guard_fail_open | `MC_OrderRegister_guard.cfg` | violation | `GuardExclusive` fails. Three submissions of one order: r1 takes the register-limit key, r2 gets a Redis error and goes on unlocked. |
| payment | `MC_Payment.cfg` | pass, about 880 k states | `TypeOK` holds through top-up, indexer lag, cache expiry and lost replies; the run fires every action the two payment violation runs rely on. |
| order_paid_twice | `MC_Payment_OrderPaidOnce.cfg` | violation | `OrderPaidOnce` fails. After the first payment is accepted and before confirmation, a rebuild (which skips the first inputs through the dasCache) lands a second payment. |
| overlapping_builds | `MC_Payment_BuildInputsDisjoint.cfg` | violation | `BuildInputsDisjoint` fails. Two builds made before any send choose the same cells, because `GetBalanceCells` reserves nothing. |
| pricing | `MC_Pricing.cfg` | pass, 512 states | Over 256 inputs: `TypeOK` and `CkbExact` (the CKB total is the least shannon amount covering the USD total; Div's precision is enough for it). |
| pay_token_underpaid | `MC_Pricing_token.cfg` | violation | `PayTokenNeverUnderpaid`: usd/price rounded down to the precision and already a multiple of the snap unit gives an ETH total below the USD total (by under 50 units, i.e. a few wei at real scale). |
| tx_send | `MC_TxSend.cfg` | pass, about 1.15 M states | Two handlers race for one key, a third sends a conflicting key, one restart: `TypeOK` and `OkMeansBroadcast` hold. |
| broadcast_unrecorded | `MC_TxSend_recorded.cfg` | violation | `BroadcastRecorded` fails. The node accepts a transaction whose reply is lost; the handler answers error500 and records no pending row (a restart after the broadcast, a `CreatePending` error and the bid's `NormalToHex` error do the same). |
| account_detail | `MC_AccountDetail.cfg` | pass, 2112 states | Over every expiry time around the period boundaries: `ReRegisterTimeAhead`. |

Properties checked by the pass runs (each module's `TypeOK` aside):

- `ReferralValid`: an order's recorded inviter and channel exist and are not on cross, and a gift-card order records neither.
- `StaleOkBounded`: the stale window of the coupon check is one cache entry. Once a gift card is bound to an order, and neither its cache entry nor a check handler between its `t_coupon` read and its cache write holds "ok", the endpoint never again stores or serves "ok" for it. A check that read before the binding may still write its "ok" after it; this property says nothing else can.
- `CkbExact`: the CKB total is the least whole amount worth at least the USD total at the quote.
- `OkMeansBroadcast`: a send answers ok only if the ledger accepted the transaction that handler submitted.
- `ReRegisterTimeAhead`: a recycling account's re-register time is in the future, at most one deliver period away.

The findings are listed in `PROJECT.json`. Four divergences that a single request shows, and which no run keeps for that reason: a gift card sent with a priced token fails the amount-tag match after taking the coupon lock and returns holding it until the TTL frees it (order_register.go 398-401); and `getOrderAmount` applies premium and discount before adding the base amount, where spec 4.1 adds the base first (order_register.go 562-571); and spec 4.3 says an invalid channel account is rejected, but `checkOrderInfo` drops a missing, on-cross or expired channel without an error, and never looks at the channel's owner, so a channel with a null owner is kept (order_register.go 309-320). The model records such a channel (`vZero`), so `ReferralValid` does not ask for it. And `checkDutchAuction`'s two windows are open intervals that leave out the single second `expiredAt = now - grace - auction` (account_detail.go 179 and 185): an account between its auction and its deliver period is then priced and reported with its row status, e.g. `Normal`. An invariant saying that an account strictly between the end of its grace and the end of its deliver period is reported in an auction status fails on it (expiry 7, clock 12 in `MC_AccountDetail`); it takes one request and no interleaving, so it is not one of the runs. With `RedisErrors = FALSE` in `MC_OrderRegister_guard.cfg`, `GuardExclusive` still fails: the 10 s register-limit key expires under a running handler.

**Bounds.** `MC_OrderRegister` uses:

- two handlers, one address, `MaxUnPayCount = 0`;
- two accounts of different lengths (4 and 6 characters);
- one 4-character coupon;
- tokens coupon, das, eth and an unsupported one;
- five referrer accounts, one per row `GetAccountInfoByAccountId` may return (normal, expired and whitelisted, on cross, missing, owned by 0x0);
- thirteen order bodies and one coupon-check body, which together reach every branch.

Every race in the module is between two requests: two redemptions of a coupon, a check against a redemption, two orders against the ceiling. With a ceiling of 0, two handlers are enough for it to reject. Three handlers with these bodies need about 4.3 M states and 7 minutes. The coupon and guard violation runs keep three requests and their narrower bodies; the unpaid-count run has two, for different accounts.

`MC_Payment` uses:

- two orders: one of amount 1, which triggers the server top-up, and one of amount 3;
- six cells of different capacities: four of the payer and two of the server;
- `MaxBuilds = 3`.

This is enough for two builds to overlap, for a build after an acceptance, for the change floor to matter, and for the server search to fail.

`MC_TxSend` uses three requests (two on one key, so the read race happens), two keys whose transactions conflict (a rebuild of one payment), transfer and bid actions, one address and `MaxCrashes = 1`.

`MC_AccountDetail` uses periods 3, 2 and 2, the clock at 12 and every expiry time from 0 to 12, so each window is met at both ends and just outside.

All pass runs set `CHECK_DEADLOCK FALSE`. Requests and builds are bounded, and once they are finished the server rightly idles; `getOrderAmount` and `doAccountDetail` return after their one step.

**Fairness.** No run checks a liveness property, so no specification assumes fairness. What such properties would say here (a leaked coupon lock is freed, a reserved server cell comes back, a stale cache entry goes away) holds of the Redis and dasCache TTLs whatever the handlers do, and says nothing about the code.

`MC_OrderRegister.cfg`, `MC_Payment.cfg` and `MC_TxSend.cfg` have no SYMMETRY: `StaleOkBounded` is a temporal formula, and the other two runs are small enough without it. `MC_TxSend` fixes which key each request carries in `MCInit`, inside `MCSpec`, and `MC_OrderRegister` gives the unpaid-count run distinct accounts the same way (`MCSpecDistinct`), rather than through a state constraint.

## 4. Not modelled, and why

- **DAO queries (partly) and the example tests.** `GetAccountInfoByAccountId` is modelled by the row it returns (`RefRow`); the other queries are not called by modelled handlers; the tests are manual calls to a remote server.
- **The router (partly).** Only the response cache of `/account/coupon/check` is modelled. The rest is route configuration and toolib middleware that only dispatch.
- **The WebAuthn signature bytes.** Only whether the signer is in the key list is modelled.
- **The lark notification goroutine.** It only sends a message.
- **Duplicate orders for one account.** These are refused by `checkAddressOrder` and `checkOtherAddressOrder`, which are not in `src/`; `GuardExclusive` states the guard in front of them.
- **The renew price.** `getAccountPrice` with `isRenew` feeds only the read-only account detail, where it is left out.

## 5. Plan for later work

1. **`Pricing`.** Done (section 2).
2. **`checkDutchAuction`.** Done (`AccountDetail`).
3. **The auction branch of `TransactionSend`.** Done (`TxSend`, `BroadcastRecorded`).
4. **An abstract specification.** An exactly-once payment specification for `Payment`, refined by it, would be worth more than one of the sign cache alone: the sign cache's single use is a property of the cache, not of the handler, while `OrderPaidOnce` shows the code does not meet exactly-once payment as it is.
5. **A composition of `OrderRegister` and `Payment`.** Orders created by the first module are paid by the second.
6. **A restart in `Payment`.** The in-memory dasCache is lost, like in `TxSend`. No property of `Payment` turns on it: `OrderPaidOnce` already fails without a restart.
7. **The coupon-check endpoint and its response cache.** Done (`CheckCouponReq`, `StaleOkBounded`).
8. **Referral validation in `checkOrderInfo`.** Done (`CheckInviter`, `CheckChannel`, `WhitelistChannel`, `ReferralValid`).
