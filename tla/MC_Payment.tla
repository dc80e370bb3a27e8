---------------------------- MODULE MC_Payment ----------------------------
(* Model-checking instance of Payment: one payer with two unpaid orders,   *)
(* one below a minimum cell (server cells needed) and one above it.        *)
EXTENDS Payment, TLC

CONSTANTS o1, o2, a1, n1, n2, srv

MCOrderAccount == (o1 :> n1) @@ (o2 :> n2)
MCPayAmount == (o1 :> 1) @@ (o2 :> 3)
\* payer cells 1..3 and 6, server cells 4..5
MCCap == (1 :> 4) @@ (2 :> 3) @@ (3 :> 2) @@ (4 :> 3) @@ (5 :> 2) @@ (6 :> 4)
MCOwner == (1 :> a1) @@ (2 :> a1) @@ (3 :> a1) @@ (4 :> srv) @@ (5 :> srv) @@ (6 :> a1)
=============================================================================
