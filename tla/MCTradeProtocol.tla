-------------------------- MODULE MCTradeProtocol --------------------------
(* TradeProtocol for TLC: identifiers are model values and interchangeable. *)
EXTENDS TradeProtocol, TLC

Symmetry ==
    Permutations(Protocols) \union Permutations(Positions)
        \union Permutations(TraderOrders) \union Permutations(CoordinatorOrders)

\* After a loss of the connection, only one order of the trader.
FewOrders == disconnects > 0 => Cardinality({o \in TraderOrders : orderA[o] # "None"}) <= 1
=============================================================================
