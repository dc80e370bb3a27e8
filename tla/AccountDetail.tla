---------------------------- MODULE AccountDetail ----------------------------
(***************************************************************************)
(* HttpHandle.AccountDetail and doAccountDetail, with checkDutchAuction    *)
(* (src/http_server/handle/account_detail.go): the status the service      *)
(* reports for an account name.  The handler only reads (the parser's      *)
(* t_account_info row, the config cell, the chain), so one request is one  *)
(* step from its inputs to its response; every call that can fail is a    *)
(* failure branch.  Times are seconds; the periods come from the account   *)
(* config cell.  The clock is far above the three periods (Unix time), so  *)
(* the uint64 subtractions of checkDutchAuction never wrap.                *)
(***************************************************************************)
EXTENDS Naturals

CONSTANTS
    GracePeriod,     \* ExpirationGracePeriod
    AuctionPeriod,   \* ExpirationAuctionPeriod
    DeliverPeriod,   \* ExpirationDeliverPeriod
    RowStatuses,     \* what TableAccountInfo.FormatAccountStatus may return
    Inputs,          \* request and the rows it reads
    NoRow            \* acc.Id == 0: no t_account_info row

ASSUME \A in \in Inputs :
           in.now >= GracePeriod + AuctionPeriod + DeliverPeriod

VARIABLES
    inp,    \* [dots, row, reserved, unavailable, now]
    resp    \* the ApiResp returned

vars == <<inp, resp>>

NoResp == [code |-> "none"]

Init == /\ inp \in Inputs
        /\ resp = NoResp

-----------------------------------------------------------------------------
\* Mutant: the re-register time without the deliver period.
CheckDutchAuctionNoDeliver(now, exp) ==
    IF now - GracePeriod - AuctionPeriod < exp /\ exp < now - GracePeriod
    THEN [status |-> "OnDutchAuction", reRegisterTime |-> 0]
    ELSE IF /\ now - GracePeriod - AuctionPeriod - DeliverPeriod < exp
            /\ exp < now - GracePeriod - AuctionPeriod
    THEN [status |-> "AuctionRecycling",
          reRegisterTime |-> exp + GracePeriod + AuctionPeriod]
    ELSE [status |-> "RegisterAble", reRegisterTime |-> 0]

\* The Dutch auction follows the grace period; the deliver period, in which
\* the keeper recycles the account, follows the auction.  Status 0
\* (SearchStatusRegisterAble) otherwise.
CheckDutchAuction(now, exp) ==
    IF now - GracePeriod - AuctionPeriod < exp /\ exp < now - GracePeriod
    THEN [status |-> "OnDutchAuction", reRegisterTime |-> 0]
    ELSE IF /\ now - GracePeriod - AuctionPeriod - DeliverPeriod < exp
            /\ exp < now - GracePeriod - AuctionPeriod
    THEN [status |-> "AuctionRecycling",
          reRegisterTime |-> exp + GracePeriod + AuctionPeriod + DeliverPeriod]
    ELSE [status |-> "RegisterAble", reRegisterTime |-> 0]

Ok(status, re) == resp' = [code |-> "ok", status |-> status, reRegisterTime |-> re]
Err(code) == resp' = [code |-> code]

(* doAccountDetail.  A top-level account (one dot) with a row is checked   *)
(* for the auction phases first, then priced with the renew price; any row *)
(* then answers with its own status and addresses; without a row, a       *)
(* top-level name may be reserved or unavailable, else it does not exist.  *)
DoAccountDetail ==
    LET acc == inp.row
        topLevel == inp.dots = 1
        da == IF acc # NoRow THEN CheckDutchAuction(inp.now, acc.expiredAt)
              ELSE [status |-> "RegisterAble", reRegisterTime |-> 0]
    IN
    \/ Err("dbError")
    \/ /\ topLevel /\ acc # NoRow
       /\ \/ Err("error500")   \* a config cell period cannot be read
          \/ da.status # "RegisterAble" /\ Ok(da.status, da.reRegisterTime)
          \* GetTransaction, AccountIdCellDataBuilderFromTx, mapAcc, getAccountPrice
          \/ da.status = "RegisterAble" /\ Err("error500")
    \/ /\ acc # NoRow
       /\ ~topLevel \/ da.status = "RegisterAble"
       /\ \/ Err("error500")   \* owner or manager HexToNormal
          \/ acc.enableSub /\ Err("error500")   \* GetSubAccountCell
          \/ Ok(acc.status, 0)
    \/ /\ acc = NoRow
       /\ \/ topLevel /\ inp.reserved /\ Ok("Reserved", 0)
          \/ topLevel /\ ~inp.reserved /\ inp.unavailable /\ Ok("UnAvailable", 0)
          \/ ~(topLevel /\ (inp.reserved \/ inp.unavailable)) /\ Err("accountNotExist")

\* AccountDetail: ShouldBindJSON, then doAccountDetail.
AccountDetail ==
    /\ resp = NoResp
    /\ Err("paramsInvalid") \/ DoAccountDetail
    /\ UNCHANGED inp

Next == AccountDetail

Spec == Init /\ [][Next]_vars

-----------------------------------------------------------------------------
(* The re-register time reported for an account being recycled is in the  *)
(* future and no later than one deliver period away: a client that waits  *)
(* for it finds the name registrable again.                                *)
ReRegisterTimeAhead ==
    resp # NoResp /\ resp.code = "ok" /\ resp.status = "AuctionRecycling" =>
        /\ inp.now < resp.reRegisterTime
        /\ resp.reRegisterTime <= inp.now + DeliverPeriod

=============================================================================
