--------------------------- MODULE MC_AccountDetail ---------------------------
(* Account-detail requests for TLC: periods of 3, 2 and 2 seconds, a clock *)
(* at 12, and expiry times from 0 to 12, so that every phase boundary of   *)
(* checkDutchAuction (grace, auction, deliver, after) is met exactly.      *)
EXTENDS AccountDetail

MCNow == 12

MCRows == [expiredAt : 0..MCNow, status : RowStatuses, enableSub : BOOLEAN]

MCInputs == [dots : {1, 2}, row : MCRows \cup {NoRow}, reserved : BOOLEAN,
             unavailable : BOOLEAN, now : {MCNow}]
=============================================================================
