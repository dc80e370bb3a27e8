------------------------------ MODULE Payment ------------------------------
(***************************************************************************)
(* Paying an order from the DAS balance: HttpHandle.doBalancePay and       *)
(* buildBalancePayTx (src/http_server/handle/balance_pay.go) build an      *)
(* unsigned transaction and cache it under a sign key; doTransactionSend   *)
(* (src/http_server/handle/transaction_send.go) signs, broadcasts and does *)
(* the post-broadcast bookkeeping.  Around them: the ledger (which spends  *)
(* a cell at most once), the indexer the cell search reads (which lags the *)
(* ledger), the dasCache of recently used outpoints, the sign cache, and   *)
(* the settlement worker that marks an order paid once its payment lands.  *)
(*                                                                         *)
(* Capacities are small integers standing for CKB amounts.  The cell       *)
(* search of das-lib (GetBalanceCells, GetBalanceCellWithLock) is modelled *)
(* by its contract: live cells of the lock, minus the dasCache, taken in   *)
(* descending capacity until the total equals the need or leaves at least  *)
(* the change floor; the locking variant also records its picks in the     *)
(* dasCache.                                                               *)
(***************************************************************************)
EXTENDS Naturals, FiniteSets, Sequences, SequencesExt

CONSTANTS
    Orders,            \* unpaid DAS-token orders
    OrderAccount,      \* [Orders -> Accounts]
    PayAmount,         \* [Orders -> Nat \ {0}]: order.PayAmount
    Addresses, Accounts,
    Cells,             \* outpoints, as integers
    Cap,               \* [Cells -> Nat \ {0}]: capacity
    Owner,             \* [Cells -> Addresses \cup {Server}]: lock script
    Server,            \* the unipay beneficiary address (parseAddress)
    MinCellOccupiedCkb,   \* common.MinCellOccupiedCkb
    MinCkbCapacity,       \* common.DasLockWithBalanceTypeMinCkbCapacity
    MaxBuilds          \* bound on cached transactions (sign keys)

ASSUME /\ Cells \subseteq Nat
       /\ Cap \in [Cells -> Nat \ {0}]
       /\ Owner \in [Cells -> Addresses \cup {Server}]
       /\ PayAmount \in [Orders -> Nat \ {0}]
       /\ MaxBuilds \in Nat

Keys == 1..MaxBuilds

VARIABLES
    payStatus,    \* [Orders -> {"Default", "Paid"}]: order.PayStatus
    built,        \* [Keys -> Tx \cup {NoTx}]: transaction cached under each sign key
    signLive,     \* sign keys still present in the sign cache
    dasCache,     \* outpoints the cell search must skip
    spent,        \* cells consumed by transactions the ledger accepted
    indexed,      \* spent cells the indexer has caught up with
    accepted,     \* sign keys whose transaction the ledger accepted
    pending,      \* sign keys with a t_register_pending_info row
    apiLimit,     \* addresses under SetApiLimit
    accountLimit  \* accounts under SetAccountLimit

vars == <<payStatus, built, signLive, dasCache, spent, indexed, accepted,
          pending, apiLimit, accountLimit>>

NoTx == [order |-> "none"]

(* A built transfer: payer cells, server cells, payee and change outputs.  *)
Tx == [order : Orders, payer : Addresses, inputs : SUBSET Cells, serverInputs : SUBSET Cells,
       payOut : Nat, changeOut : Nat]

TypeOK ==
    /\ payStatus \in [Orders -> {"Default", "Paid"}]
    /\ built \in [Keys -> Tx \cup {NoTx}]
    /\ signLive \subseteq Keys
    /\ dasCache \subseteq Cells
    /\ indexed \subseteq spent
    /\ spent \subseteq Cells
    /\ accepted \subseteq Keys
    /\ pending \subseteq Keys
    /\ apiLimit \subseteq Addresses
    /\ accountLimit \subseteq Accounts

Init ==
    /\ payStatus = [o \in Orders |-> "Default"]
    /\ built = [k \in Keys |-> NoTx]
    /\ signLive = {}
    /\ dasCache = {}
    /\ spent = {}
    /\ indexed = {}
    /\ accepted = {}
    /\ pending = {}
    /\ apiLimit = {}
    /\ accountLimit = {}

Used == {k \in Keys : built[k] # NoTx}
NextKey == Cardinality(Used) + 1

-----------------------------------------------------------------------------
(* Cell search (das-lib contract, SearchOrderDesc).                        *)

\* Cells the indexer still reports live for a lock, minus the dasCache.
Spendable(lock) == {c \in Cells : Owner[c] = lock} \ (indexed \cup dasCache)

\* Descending capacity; equal capacities in outpoint order.
DescSeq(S) == SetToSortSeq(S, LAMBDA a, b : Cap[a] > Cap[b] \/ (Cap[a] = Cap[b] /\ a < b))

\* The search stops once the total equals the need or leaves room for change.
Enough(total, need, floor) == total = need \/ total >= need + floor

RECURSIVE Take(_, _, _, _, _)
Take(seq, need, floor, picked, total) ==
    IF seq = <<>> THEN [ok |-> FALSE, cells |-> {}, total |-> 0]
    ELSE LET t == total + Cap[Head(seq)]
             p == picked \cup {Head(seq)}
         IN IF Enough(t, need, floor)
            THEN [ok |-> TRUE, cells |-> p, total |-> t]
            ELSE Take(Tail(seq), need, floor, p, t)

\* GetBalanceCells(lock, CapacityNeed, CapacityForChange).
GetBalanceCells(lock, need, floor) == Take(DescSeq(Spendable(lock)), need, floor, {}, 0)

-----------------------------------------------------------------------------
(* buildBalancePayTx.                                                       *)

\* Receiver output: the payment plus every server cell taken to reach the
\* minimum cell size (serverTotalCapacity = minCellCapacity + change).
PayeeOutput(need, server) == need + server.total

\* change := totalCapacity - payCapacity, split by SplitOutputCell2.
ChangeOutput(need, user) == user.total - need

BuildTx(o, a, user, server) ==
    [order |-> o, payer |-> a, inputs |-> user.cells, serverInputs |-> server.cells,
     payOut |-> PayeeOutput(PayAmount[o], server),
     changeOut |-> ChangeOutput(PayAmount[o], user)]

NoServerCells == [ok |-> TRUE, cells |-> {}, total |-> 0]

(* doBalancePay for order o, paid by the requester a (req.Address; the     *)
(* code does not compare it with order.Address).  The server cells are    *)
(* searched (and reserved) first when the payment is below a minimum cell; *)
(* every failure after that keeps the reservation.                         *)
BalancePay(o, a) ==
    /\ payStatus[o] = "Default"
    /\ NextKey <= MaxBuilds
    /\ LET need == PayAmount[o]
           useServer == need <= MinCellOccupiedCkb
           server == IF useServer
                     THEN GetBalanceCells(Server, MinCellOccupiedCkb, MinCkbCapacity)
                     ELSE NoServerCells
           cache1 == dasCache \cup server.cells
           user == GetBalanceCells(a, need, MinCkbCapacity)
       IN
       \/ /\ ~server.ok
          /\ UNCHANGED <<dasCache, built, signLive>>
       \/ /\ server.ok
          /\ dasCache' = cache1
          /\ \/ ~user.ok /\ UNCHANGED <<built, signLive>>
             \* SplitOutputCell2, GenActionDataWitness or buildTx failed
             \/ user.ok /\ UNCHANGED <<built, signLive>>
             \/ /\ user.ok
                /\ built' = [built EXCEPT ![NextKey] = BuildTx(o, a, user, server)]
                /\ signLive' = signLive \cup {NextKey}
    /\ UNCHANGED <<payStatus, spent, indexed, accepted, pending, apiLimit, accountLimit>>

-----------------------------------------------------------------------------
(* doTransactionSend.                                                       *)

\* The ledger accepts a transaction none of whose inputs is spent.
AllInputs(tx) == tx.inputs \cup tx.serverInputs
InputsLive(tx) == AllInputs(tx) \cap spent = {}

\* Mutant: SetAccountLimit keyed by the address instead of the account.
BookkeepingAddrLimit(k) ==
    LET o == built[k].order IN
    /\ apiLimit' = apiLimit \cup {built[k].payer}
    /\ accountLimit' = accountLimit \cup {built[k].payer}
    /\ dasCache' = dasCache \cup AllInputs(built[k])
    /\ pending' \in {pending \cup {k}, pending}

\* SetApiLimit, SetAccountLimit, AddCellInputByAction and CreatePending.
Bookkeeping(k) ==
    LET o == built[k].order IN
    /\ apiLimit' = apiLimit \cup {built[k].payer}
    /\ accountLimit' = accountLimit \cup {OrderAccount[o]}
    /\ dasCache' = dasCache \cup AllInputs(built[k])
    \* a CreatePending error is only logged
    /\ pending' \in {pending \cup {k}, pending}

(* One call with sign key k.  GetSignTxCache invalidates the entry; the    *)
(* call then fails on the WebAuthn key-list check or AddSignatureForTx, or *)
(* submits.  A submission is rejected when an input is spent, refused by   *)
(* the node (-102 or another error), accepted, or accepted with the reply  *)
(* lost to a transport error, in which case the handler reports failure.   *)
TransactionSend(k) ==
    /\ k \in signLive
    /\ signLive' = signLive \ {k}
    /\ LET tx == built[k] IN
       \/ /\ UNCHANGED <<spent, accepted, dasCache, pending, apiLimit, accountLimit>>
       \/ /\ InputsLive(tx)
          /\ spent' = spent \cup AllInputs(tx)
          /\ accepted' = accepted \cup {k}
          /\ \/ Bookkeeping(k)
             \/ UNCHANGED <<dasCache, pending, apiLimit, accountLimit>>
    /\ UNCHANGED <<payStatus, built, indexed>>

-----------------------------------------------------------------------------
(* Environment.                                                            *)

\* The indexer catches up with the ledger.
IndexerSync ==
    /\ indexed # spent
    /\ indexed' = spent
    /\ UNCHANGED <<payStatus, built, signLive, dasCache, spent, accepted,
                   pending, apiLimit, accountLimit>>

\* The settlement worker sees a payment for o on chain.
ConfirmPayment(o) ==
    /\ payStatus[o] = "Default"
    /\ \E k \in accepted : built[k].order = o
    /\ payStatus' = [payStatus EXCEPT ![o] = "Paid"]
    /\ UNCHANGED <<built, signLive, dasCache, spent, indexed, accepted,
                   pending, apiLimit, accountLimit>>

\* TTLs: sign cache entry, dasCache outpoint, operation limits.
SignCacheExpire(k) ==
    /\ k \in signLive
    /\ signLive' = signLive \ {k}
    /\ UNCHANGED <<payStatus, built, dasCache, spent, indexed, accepted,
                   pending, apiLimit, accountLimit>>

DasCacheExpire(c) ==
    /\ c \in dasCache
    /\ dasCache' = dasCache \ {c}
    /\ UNCHANGED <<payStatus, built, signLive, spent, indexed, accepted,
                   pending, apiLimit, accountLimit>>

LimitExpire ==
    /\ apiLimit \cup accountLimit # {}
    /\ apiLimit' = {} /\ accountLimit' = {}
    /\ UNCHANGED <<payStatus, built, signLive, dasCache, spent, indexed,
                   accepted, pending>>

Next ==
    \/ \E o \in Orders : \E a \in Addresses : BalancePay(o, a)
    \/ \E o \in Orders : ConfirmPayment(o)
    \/ \E k \in Keys : TransactionSend(k) \/ SignCacheExpire(k)
    \/ IndexerSync
    \/ \E c \in Cells : DasCacheExpire(c)
    \/ LimitExpire

Spec == Init /\ [][Next]_vars

-----------------------------------------------------------------------------
(* Properties.                                                             *)

(* An order is paid at most once: no two accepted transactions carry the   *)
(* same order id in their payee output data.                               *)
OrderPaidOnce ==
    \A k1, k2 \in accepted : built[k1].order = built[k2].order => k1 = k2

(* Two cached transactions never spend the same cell (spec 8, funding-cell *)
(* disjointness).                                                          *)
BuildInputsDisjoint ==
    \A k1, k2 \in signLive :
        k1 # k2 => AllInputs(built[k1]) \cap AllInputs(built[k2]) = {}

=============================================================================
