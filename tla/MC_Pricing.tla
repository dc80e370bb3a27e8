----------------------------- MODULE MC_Pricing -----------------------------
(***************************************************************************)
(* Pricing inputs for TLC.  TLC's integers are 32-bit, so the decimal      *)
(* scales are reduced while keeping the code's ratios: DivisionPrecision   *)
(* (16 in decimal) exceeds the digits of OneCkb (8) by more than the       *)
(* digits of a quote; the volatile tokens' decimals (18) exceed the        *)
(* precision by 2 and SnapUnit (10^6, here 10^3) exceeds 10^2.          *)
(* The base capacity (20.5 and 1.5 CKB in shannons, a 6-byte account)     *)
(* has fractions that the code's integer divisions drop.                   *)
(***************************************************************************)
EXTENDS Pricing

\* The request's and configuration's pricing fields.
In(np, y, inv, pr, di, q, tk, p, d) ==
    [newPrice |-> np, basicCapacity |-> 205, accountBytes |-> 6,
     preparedFeeCapacity |-> 15, quote |-> q, years |-> y,
     inviter |-> inv, invitedDiscount |-> 10, premium |-> pr, discount |-> di,
     token |-> tk, price |-> p, decimals |-> d]

\* token ids with their price (USD) and decimals
MCTokens == { <<"coupon", Dec(1, 1), 0>>, <<"ckb", Dec(1, 1), 1>>,
              <<"eth", Dec(1733, 10), 5>>, <<"doge", Dec(7, 100), 2>> }

MCInputs ==
    { In(np, y, inv, pr, di, q, t[1], t[2], t[3]) :
        np \in {500, 1200}, y \in {1, 2}, inv \in BOOLEAN,
        pr \in {Zero, Dec(1, 10)}, di \in {Zero, Dec(9, 10)}, q \in {3, 7},
        t \in MCTokens }

\* Volatile-token prices with several digits, no premium or discount.
MCInputsToken ==
    { In(np, y, FALSE, Zero, Zero, 3, "eth", Dec(p, 10), 5) :
        np \in {500, 700, 1200}, y \in {1, 2, 3}, p \in 1850..1899 }

============================================================================
