--------------------------- MODULE MCMoneyPages ---------------------------
EXTENDS MoneyPages, TLC
CONSTANTS w1, w2, e1, e2, all, p1, p2, m1
Raised == (e1 :> 2) @@ (e2 :> 0)
=============================================================================
