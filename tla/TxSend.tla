------------------------------ MODULE TxSend ------------------------------
(***************************************************************************)
(* HttpHandle.doTransactionSend (src/http_server/handle/transaction_send.go)*)
(* for every kind of cached transaction, run by concurrent handlers: the   *)
(* sign-cache read, the WebAuthn signer check, signing, the ledger         *)
(* submission and how its errors are classified, and the bookkeeping after *)
(* a broadcast (limits, dasCache, pending row, and the auction order of a  *)
(* bid).  Each handler step is one action between two calls to a shared   *)
(* store; a server restart (Crash) ends every running handler, leaving     *)
(* Redis, the database and the ledger as they are and emptying the         *)
(* in-memory dasCache.  Module Payment folds this handler into one step of *)
(* the balance-payment flow; here it is split so that those stores can be  *)
(* seen between its calls.                                                 *)
(***************************************************************************)
EXTENDS Naturals

CONSTANTS
    Keys,         \* sign keys
    Requests,     \* concurrent invocations of doTransactionSend
    Actions,      \* sic.Action of cached transactions
    BidAction,    \* common.DasBidExpiredAccountAuction
    Addresses,    \* sic.Address values
    NoAddress,    \* sic.Address == ""
    Inputs,       \* request bodies: [key, webauthn, signer]
    Conflict,     \* pairs of keys whose transactions spend a common cell
    MaxCrashes,   \* bound on server restarts
    NoKey, NoReq, NoEntry

ASSUME /\ BidAction \in Actions
       /\ Inputs \subseteq [key : Keys, webauthn : BOOLEAN,
                            signer : {"none", "member", "stranger"}]
       /\ Conflict \subseteq Keys \X Keys
       /\ MaxCrashes \in Nat

VARIABLES
    built,        \* [Keys -> Entry \cup {NoEntry}]: the SignInfoCache written by a builder
    live,         \* keys still readable in the Redis sign cache
    req,          \* [Requests -> Inputs]
    pc,           \* handler program counter
    taken,        \* [Requests -> Keys \cup {NoKey}]: the entry the handler read
    resp,         \* ApiResp code returned
    sentBy,       \* [Keys -> Requests \cup {NoReq}]: the handler whose submission the ledger accepted
    apiLimit,     \* <<address, action>> pairs under SetApiLimit (and SetAccountLimit)
    dasCached,    \* keys whose inputs are in the in-memory dasCache
    pending,      \* keys with a t_register_pending_info row
    auctionOrder, \* keys with a t_auction_order row
    crashes

vars == <<built, live, req, pc, taken, resp, sentBy, apiLimit, dasCached,
          pending, auctionOrder, crashes>>

Entry == [action : Actions, address : Addresses \cup {NoAddress}]
InFlight == {"get", "sign", "submit", "book"}
Resps == {"none", "ok", "txExpired", "cacheError", "paramsInvalid",
          "permissionDenied", "error500", "rejectedOutPoint", "operationFrequent"}

TypeOK ==
    /\ built \in [Keys -> Entry \cup {NoEntry}]
    /\ live \subseteq {k \in Keys : built[k] # NoEntry}
    /\ req \in [Requests -> Inputs]
    /\ pc \in [Requests -> InFlight \cup {"done", "crashed"}]
    /\ taken \in [Requests -> Keys \cup {NoKey}]
    /\ resp \in [Requests -> Resps]
    /\ sentBy \in [Keys -> Requests \cup {NoReq}]
    /\ apiLimit \subseteq (Addresses \X Actions)
    /\ dasCached \cup pending \cup auctionOrder \subseteq Keys
    /\ crashes \in 0..MaxCrashes

Init == /\ built = [k \in Keys |-> NoEntry]
        /\ live = {}
        /\ req \in [Requests -> Inputs]
        /\ pc = [r \in Requests |-> "get"]
        /\ taken = [r \in Requests |-> NoKey]
        /\ resp = [r \in Requests |-> "none"]
        /\ sentBy = [k \in Keys |-> NoReq]
        /\ apiLimit = {} /\ dasCached = {} /\ pending = {} /\ auctionOrder = {}
        /\ crashes = 0

OnChain == {k \in Keys : sentBy[k] # NoReq}

Reply(r, code) == /\ pc' = [pc EXCEPT ![r] = "done"]
                  /\ resp' = [resp EXCEPT ![r] = code]
Goto(r, l) == pc' = [pc EXCEPT ![r] = l] /\ UNCHANGED resp

------------------------------------------------------------------------------
\* A builder (buildTx) caches an unsigned transaction under a fresh key.
Build(k) == /\ built[k] = NoEntry
            /\ \E e \in Entry : built' = [built EXCEPT ![k] = e]
            /\ live' = live \cup {k}
            /\ UNCHANGED <<req, pc, taken, resp, sentBy, apiLimit, dasCached,
                           pending, auctionOrder, crashes>>

\* GetSignTxCache: the read invalidates the entry (spec 4.6).
ReadSignTx(k) == live \ {k}

GetSignTxCache(r) ==
    /\ pc[r] = "get"
    /\ LET k == req[r].key IN
       \/ k \notin live /\ Reply(r, "txExpired") /\ UNCHANGED <<live, taken>>
       \/ Reply(r, "cacheError") /\ UNCHANGED <<live, taken>>
       \/ /\ k \in live
          /\ live' = ReadSignTx(k)
          /\ taken' = [taken EXCEPT ![r] = k]
          /\ Goto(r, "sign")
    /\ UNCHANGED <<built, req, sentBy, apiLimit, dasCached, pending, auctionOrder, crashes>>

\* GetIdxOfKeylist finds the signer in the account's WebAuthn key list.
SignerIndexFound(in) == in.signer = "member"

\* The WebAuthn branch, then AddSignatureForTx.
SignTx(r) ==
    /\ pc[r] = "sign"
    /\ LET in == req[r] IN
       \/ (~in.webauthn \/ SignerIndexFound(in)) /\ Goto(r, "submit")
       \/ in.webauthn /\ in.signer = "none" /\ Reply(r, "paramsInvalid")
       \* NormalToHex or GetIdxOfKeylist fails
       \/ in.webauthn /\ in.signer # "none" /\ Reply(r, "paramsInvalid")
       \/ in.webauthn /\ in.signer # "none" /\ ~SignerIndexFound(in)
          /\ Reply(r, "permissionDenied")
       \/ Reply(r, "error500")
    /\ UNCHANGED <<built, live, req, taken, sentBy, apiLimit, dasCached,
                   pending, auctionOrder, crashes>>

\* The ledger accepts a transaction none of whose inputs is spent.
Accepts(k) == /\ k \notin OnChain
              /\ \A j \in OnChain : <<j, k>> \notin Conflict

Broadcast(r, k) == sentBy' = [sentBy EXCEPT ![k] = r]

\* Mutant: bookkeeping without the sic.Address != "" check.
SendTransactionNoAddressCheck(r) ==
    /\ pc[r] = "submit"
    /\ LET k == taken[r] IN
       \/ ~Accepts(k) /\ Reply(r, "rejectedOutPoint") /\ UNCHANGED sentBy
       \/ Accepts(k) /\ Broadcast(r, k) /\ Goto(r, "book")
    /\ UNCHANGED <<built, live, req, taken, apiLimit, dasCached, pending, auctionOrder, crashes>>

\* Mutant: the error of SendTransaction is not looked at.
SendTransactionErrIgnored(r) ==
    /\ pc[r] = "submit"
    /\ LET k == taken[r] IN
       \/ Accepts(k) /\ Broadcast(r, k) /\ Goto(r, "book")
       \/ ~Accepts(k) /\ Goto(r, "book") /\ UNCHANGED sentBy
    /\ UNCHANGED <<built, live, req, taken, apiLimit, dasCached, pending, auctionOrder, crashes>>

\* SendTransaction and the classification of its error.
SendTransaction(r) ==
    /\ pc[r] = "submit"
    /\ LET k == taken[r] IN
       \* Dead / Unknown OutPoint, not live, duplicated
       \/ ~Accepts(k) /\ Reply(r, "rejectedOutPoint") /\ UNCHANGED sentBy
       \* -102: the node's frequency limit; or a transport error
       \/ Reply(r, "operationFrequent") /\ UNCHANGED sentBy
       \/ Reply(r, "error500") /\ UNCHANGED sentBy
       \* accepted, but the reply to the handler is lost
       \/ Accepts(k) /\ Broadcast(r, k) /\ Reply(r, "error500")
       \/ /\ Accepts(k) /\ Broadcast(r, k)
          /\ IF built[k].address = NoAddress THEN Reply(r, "ok") ELSE Goto(r, "book")
    /\ UNCHANGED <<built, live, req, taken, apiLimit, dasCached, pending, auctionOrder, crashes>>

\* After the broadcast: limits, dasCache, pending row; for a bid, NormalToHex
\* and the auction order.  Errors of SetApiLimit, CreatePending and
\* CreateAuctionOrder are ignored.
Bookkeeping(r) ==
    /\ pc[r] = "book"
    /\ LET k == taken[r]
           e == built[k]
       IN  /\ apiLimit' = apiLimit \cup {<<e.address, e.action>>}
           /\ dasCached' = dasCached \cup {k}
           /\ pending' \in {pending \cup {k}, pending}
           /\ IF e.action = BidAction
              THEN \/ Reply(r, "paramsInvalid") /\ UNCHANGED auctionOrder
                   \/ /\ auctionOrder' \in {auctionOrder \cup {k}, auctionOrder}
                      /\ Reply(r, "ok")
              ELSE Reply(r, "ok") /\ UNCHANGED auctionOrder
    /\ UNCHANGED <<built, live, req, taken, sentBy, crashes>>

\* The sign cache's TTL elapses.
SignCacheExpire(k) == /\ k \in live
                      /\ live' = live \ {k}
                      /\ UNCHANGED <<built, req, pc, taken, resp, sentBy, apiLimit,
                                     dasCached, pending, auctionOrder, crashes>>

\* The server process restarts.
Crash == /\ crashes < MaxCrashes
         /\ \E r \in Requests : pc[r] \in InFlight
         /\ pc' = [r \in Requests |-> IF pc[r] \in InFlight THEN "crashed" ELSE pc[r]]
         /\ dasCached' = {}
         /\ crashes' = crashes + 1
         /\ UNCHANGED <<built, live, req, taken, resp, sentBy, apiLimit, pending, auctionOrder>>

Handle(r) == GetSignTxCache(r) \/ SignTx(r) \/ SendTransaction(r) \/ Bookkeeping(r)

Next == \/ \E r \in Requests : Handle(r)
        \/ \E k \in Keys : Build(k) \/ SignCacheExpire(k)
        \/ Crash

Spec == Init /\ [][Next]_vars

------------------------------------------------------------------------------
(* A handler answers "ok" only when the ledger accepted the transaction it *)
(* submitted itself (the SendTransaction error classification and the      *)
(* bid bookkeeping never turn a failed submission into success).          *)
OkMeansBroadcast ==
    \A r \in Requests : resp[r] = "ok" => taken[r] # NoKey /\ sentBy[taken[r]] = r

Finished(k) == pc[sentBy[k]] \notin InFlight

(* Spec 4.6 step 4: once the handler of a successful broadcast with an    *)
(* address has finished, a pending-transaction record exists, and for a   *)
(* bid an auction-order record too.                                       *)
BroadcastRecorded ==
    \A k \in OnChain :
        built[k].address # NoAddress /\ Finished(k) =>
            /\ k \in pending
            /\ built[k].action = BidAction => k \in auctionOrder

============================================================================
