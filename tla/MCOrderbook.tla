----------------------------- MODULE MCOrderbook ----------------------------
(* Small instances of Orderbook for TLC *)
EXTENDS Orderbook

CONSTANTS t1, t2, m1, o1, o2, l1, l2, l3

\* Every trader has one order, the maker all limit orders.
OneOrderEach ==
    [x \in Orders |-> IF x \in LimitOrders THEN m1 ELSE IF x = o1 THEN t1 ELSE t2]

\* All market orders go long and every limit order can be taken by them.
MakerIsShort == [x \in Orders |-> IF x \in LimitOrders THEN "Short" ELSE "Long"]
\* All market orders go short; l3 is on their side of the book.
MakerIsLong == [x \in Orders |-> IF x \in {l1, l2} THEN "Long" ELSE "Short"]
=============================================================================
