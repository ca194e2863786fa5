-------------------------- MODULE PositionAmounts --------------------------
(* The amounts behind one trader's position: the coordinator's row in         *)
(* positions, the collateral of the DLC channel and the contract in it, and   *)
(* the app's own copy of the position with the costs it books.  Every step    *)
(* is a protocol that succeeds, from the proposal to the row the last handler *)
(* writes: how protocols fail and interleave is TradeProtocol's subject.      *)
EXTENDS PayoutCurve

CONSTANTS
  Prices,       \* execution prices, whole dollars
  Quantities,   \* contracts of an order
  Leverages,    \* leverages a trader opens with
  Reserves,     \* collateral reserves asked for when a channel is opened
  FundingFees,  \* signed fees of funding fee events, positive: the trader pays
  MaxOrders,    \* bound on the executed orders
  MaxFeeEvents  \* bound on the funding fee events

ASSUME AmountsAssumption ==
  /\ Prices \subseteq 1..MaxPrice /\ Quantities \subseteq Nat \ {0}
  /\ Leverages \subseteq Nat \ {0} /\ Reserves \subseteq Nat /\ FundingFees \subseteq Int
  /\ MaxOrders \in Nat /\ MaxFeeEvents \in Nat

VARIABLES
  pos,      \* the coordinator's open position, its row in positions
  chan,     \* the DLC channel: its collateral, and its contract or its balance
  due,      \* the sum of the funding fee events not yet paid
  app,      \* the app's position
  orders,   \* executed orders
  events,   \* funding fee events
  history   \* what happened to the position that a property asks for

vars == <<pos, chan, due, app, orders, events, history>>

None == [quantity |-> 0]

Decimal == Int \X (Nat \ {0})
(* The row of positions, and the position in the app's database. *)
Position ==
  [quantity : Nat, direction : Direction, price : Decimal, trader_leverage : Decimal,
   coordinator_leverage : Decimal, trader_margin : Nat, coordinator_margin : Nat,
   trader_liquidation_price : Decimal, coordinator_liquidation_price : Decimal,
   order_matching_fees : Nat, realized_pnl : Int]
AppPosition ==
  [quantity : Nat, direction : Direction, price : Decimal, leverage : Decimal,
   collateral : Nat, liquidation_price : Decimal, order_matching_fees : Nat]
coordinator_leverage_for_trade == Whole(2)

Order == [quantity : Quantities, direction : Direction, leverage : Leverages, price : Prices]
PriceOf(o) == Whole(o.price)
FeeOf(o) == order_matching_fee(Whole(o.quantity), PriceOf(o))
margin_trader(o) == calculate_margin(PriceOf(o), o.quantity, Whole(o.leverage))
margin_coordinator(o) == calculate_margin(PriceOf(o), o.quantity, coordinator_leverage_for_trade)
Liquidation(price, leverage, direction) ==
  liquidation_price(price, leverage, direction, MaintenanceMarginRate)

---------------------------------------------------------------------------
(* The coordinator's position. *)

persist_position(o) ==
  [quantity |-> o.quantity, direction |-> o.direction, price |-> PriceOf(o),
   trader_leverage |-> Whole(o.leverage),
   coordinator_leverage |-> coordinator_leverage_for_trade,
   trader_margin |-> margin_trader(o), coordinator_margin |-> margin_coordinator(o),
   trader_liquidation_price |-> Liquidation(PriceOf(o), Whole(o.leverage), o.direction),
   coordinator_liquidation_price |->
     Liquidation(PriceOf(o), coordinator_leverage_for_trade, Opposite(o.direction)),
   order_matching_fees |-> FeeOf(o), realized_pnl |-> 0]

(* The payer's margin shrinks, which raises its leverage and moves its        *)
(* liquidation price.                                                         *)
apply_funding_fee(p, fee) ==
  LET trader == Saturating(p.trader_margin - fee)
      coordinator == Saturating(p.coordinator_margin + fee)
      leverage_t == calculate_leverage(p.quantity, trader, p.price)
      leverage_c == calculate_leverage(p.quantity, coordinator, p.price)
  IN CASE fee = 0 -> p
       [] fee > 0 ->
            [p EXCEPT !.trader_margin = trader, !.trader_leverage = leverage_t,
                      !.trader_liquidation_price =
                         Liquidation(p.price, leverage_t, p.direction)]
       [] fee < 0 ->
            [p EXCEPT !.coordinator_margin = coordinator, !.coordinator_leverage = leverage_c,
                      !.coordinator_liquidation_price =
                         Liquidation(p.price, leverage_c, Opposite(p.direction))]

(* The receiver's reserve grows.  The reserves are read off the contract.     *)
apply_funding_fee_to_channel(c, fee) ==
  [coordinator |-> usable_balance_coordinator(c.contract) + Saturating(fee),
   trader |-> usable_balance_trader(c.contract, c.total) + Saturating(-fee)]

leverage_long(p) ==
  IF p.direction = "Long" THEN p.trader_leverage ELSE p.coordinator_leverage
leverage_short(p) ==
  IF p.direction = "Long" THEN p.coordinator_leverage ELSE p.trader_leverage

(* The pnl of the position's trader if `contracts` are closed at the price,   *)
(* capped by the margins of the whole position.                               *)
RealizedPnl(p, contracts, price) ==
  calculate_pnl(p.price, price, contracts, p.direction,
                IF p.direction = "Long" THEN p.trader_margin ELSE p.coordinator_margin,
                IF p.direction = "Long" THEN p.coordinator_margin ELSE p.trader_margin)

(* Mutant: the amount is not capped by the total margin. *)
Bug_calculate_coordinator_settlement_amount(p, closing_price, matching_fee) ==
  LET long == calculate_margin(p.price, p.quantity, leverage_long(p))
      short == calculate_margin(p.price, p.quantity, leverage_short(p))
      direction == Opposite(p.direction)
      pnl == calculate_pnl(p.price, closing_price, p.quantity, direction, long, short)
      own == IF direction = "Long" THEN long ELSE short
  IN Saturating(own + pnl) + matching_fee

(* The margins here come from the leverages, not from the margins stored.     *)
calculate_coordinator_settlement_amount(p, closing_price, matching_fee) ==
  LET long == calculate_margin(p.price, p.quantity, leverage_long(p))
      short == calculate_margin(p.price, p.quantity, leverage_short(p))
      direction == Opposite(p.direction)
      pnl == calculate_pnl(p.price, closing_price, p.quantity, direction, long, short)
      own == IF direction = "Long" THEN long ELSE short
  IN Smaller(Saturating(own + pnl) + matching_fee, long + short)

settlement_amount_trader(p, c, reserve_coordinator, closing_price, matching_fee) ==
  Saturating(c.total
               - (calculate_coordinator_settlement_amount(p, closing_price, matching_fee)
                    + reserve_coordinator))

(* determine_trade_action, for an Established channel. *)
TradeAction(p, o) ==
  LET before == compute_relative_contracts(p.quantity, p.direction)
      trade == compute_relative_contracts(o.quantity, o.direction)
  IN CASE before + trade = 0 -> "ClosePosition"
       [] before + trade # 0 /\ p.direction = o.direction -> "Increase"
       [] before + trade # 0 /\ p.direction # o.direction ->
            IF o.quantity < p.quantity THEN "Decrease" ELSE "ChangeDirection"

(* apply_resize_to_position: the row after the resize and the reserves of the *)
(* new contract, or Refused when a checked_sub or to_unsigned fails.          *)
Refused == [position |-> None]
Resized(p, coordinator, trader) ==
  IF coordinator < 0 \/ trader < 0
  THEN Refused
  ELSE [position |-> p, coordinator |-> coordinator, trader |-> trader]

(* The coordinator does not put up accrued fees as margin. *)
ResizeIncrease(p, r, o) ==
  LET fee == FeeOf(o)
      extra_c == calculate_margin(PriceOf(o), o.quantity, p.coordinator_leverage)
      extra_t == calculate_margin(PriceOf(o), o.quantity, p.trader_leverage)
      price == Over(Whole(p.quantity + o.quantity),
                    Plus(Over(Whole(p.quantity), p.price),
                         Over(Whole(o.quantity), PriceOf(o))))
  IN IF r.coordinator - p.order_matching_fees < extra_c
     THEN Refused
     ELSE Resized([p EXCEPT !.quantity = @ + o.quantity, !.price = price,
                            !.coordinator_margin = @ + extra_c, !.trader_margin = @ + extra_t,
                            !.trader_liquidation_price =
                               Liquidation(price, p.trader_leverage, p.direction),
                            !.coordinator_liquidation_price =
                               Liquidation(price, p.coordinator_leverage, Opposite(p.direction))],
                  r.coordinator - extra_c + fee, r.trader - fee - extra_t)

(* "Nonsense margin change" when the margin does not shrink. *)
ResizeDecrease(p, r, o) ==
  LET fee == FeeOf(o)
      left == p.quantity - o.quantity
      margin_c == calculate_margin(p.price, left, p.coordinator_leverage)
      margin_t == calculate_margin(p.price, left, p.trader_leverage)
      pnl == RealizedPnl(p, o.quantity, PriceOf(o))
      reserve_c == r.coordinator + (p.coordinator_margin - margin_c) - pnl
      reserve_t == r.trader + (p.trader_margin - margin_t) + pnl - fee
  IN IF p.coordinator_margin < margin_c \/ p.trader_margin < margin_t \/ reserve_c < 0
     THEN Refused
     ELSE Resized([p EXCEPT !.quantity = left, !.coordinator_margin = margin_c,
                            !.trader_margin = margin_t, !.realized_pnl = @ + pnl],
                  reserve_c + fee, reserve_t)

(* The old position is closed and the rest of the order opens a new one; the  *)
(* coordinator's reserve is what is left of the channel.                      *)
ResizeChangeDirection(p, r, o) ==
  LET contracts == o.quantity - p.quantity
      direction == Opposite(p.direction)
      margin_c == calculate_margin(PriceOf(o), contracts, p.coordinator_leverage)
      margin_t == calculate_margin(PriceOf(o), contracts, p.trader_leverage)
      closed == calculate_margin(p.price, p.quantity, p.trader_leverage)
      pnl == RealizedPnl(p, p.quantity, PriceOf(o))
      reserve_t == r.trader + closed - margin_t + pnl - FeeOf(o)
      total == p.trader_margin + p.coordinator_margin + r.coordinator + r.trader
  IN Resized([p EXCEPT !.quantity = contracts, !.direction = direction, !.price = PriceOf(o),
                       !.coordinator_margin = margin_c, !.trader_margin = margin_t,
                       !.trader_liquidation_price =
                          Liquidation(PriceOf(o), p.trader_leverage, direction),
                       !.coordinator_liquidation_price =
                          Liquidation(PriceOf(o), p.coordinator_leverage, p.direction),
                       !.realized_pnl = @ + pnl],
             total - (reserve_t + margin_t + margin_c), reserve_t)

apply_resize_to_position(p, r, o) ==
  CASE TradeAction(p, o) = "Increase" -> ResizeIncrease(p, r, o)
    [] TradeAction(p, o) = "Decrease" -> ResizeDecrease(p, r, o)
    [] TradeAction(p, o) = "ChangeDirection" -> ResizeChangeDirection(p, r, o)

(* set_position_to_resizing writes every column but the leverages, which the  *)
(* funding fee changed in p: those keep the values of the row.                *)
set_position_to_resizing(row, p, o) ==
  [p EXCEPT !.trader_leverage = row.trader_leverage,
            !.coordinator_leverage = row.coordinator_leverage,
            !.order_matching_fees = row.order_matching_fees + FeeOf(o)]

---------------------------------------------------------------------------
(* The app's position. *)

(* Mutant: a profit counts as a cost. *)
Bug_trade_cost(margin_diff, pnl, fee) == margin_diff + pnl + fee

trade_cost(margin_diff, pnl, fee) == margin_diff - pnl + fee

(* The app's calculate_pnl assumes that the coordinator's leverage is 2. *)
AppPnl(a, contracts, price) ==
  LET own == calculate_margin(a.price, contracts, a.leverage)
      other == calculate_margin(a.price, contracts, Whole(2))
  IN calculate_pnl(a.price, price, contracts, a.direction,
                   IF a.direction = "Long" THEN own ELSE other,
                   IF a.direction = "Long" THEN other ELSE own)

Trade(o, contracts, cost, fee, pnl) ==
  [contracts |-> contracts, direction |-> o.direction, cost |-> cost, fee |-> fee, pnl |-> pnl]

new_open(o) ==
  [quantity |-> o.quantity, direction |-> o.direction, price |-> PriceOf(o),
   leverage |-> Whole(o.leverage), collateral |-> margin_trader(o),
   liquidation_price |-> Liquidation(PriceOf(o), Whole(o.leverage), o.direction),
   order_matching_fees |-> FeeOf(o)]

(* One application of (what is left of) an order: the new position, what is   *)
(* left of the order and of its fee, and the trade.                           *)
ClosesAll(a, o, left, fee) ==
  LET margin == calculate_margin(a.price, a.quantity, a.leverage)
      pnl == AppPnl(a, left, PriceOf(o))
  IN [position |-> [a EXCEPT !.quantity = 0, !.order_matching_fees = @ + fee],
      left |-> 0, fee |-> 0,
      trade |-> Trade(o, left, trade_cost(-margin, pnl, fee), fee, pnl)]

Reduces(a, o, left, fee) ==
  LET pnl == AppPnl(a, left, PriceOf(o))
      closed == calculate_margin(a.price, left, a.leverage)
  IN [position |-> [a EXCEPT !.quantity = @ - left, !.order_matching_fees = @ + fee,
                             !.collateral = calculate_margin(a.price, a.quantity - left,
                                                             a.leverage)],
      left |-> 0, fee |-> 0,
      trade |-> Trade(o, left, trade_cost(-closed, pnl, fee), fee, pnl)]

(* Mutant: both trades of an order that flips the position bear the fee. *)
Bug_ReducesToZero(a, o, left, fee) ==
  LET pnl == AppPnl(a, a.quantity, PriceOf(o))
      closed == calculate_margin(a.price, a.quantity, a.leverage)
  IN [position |-> [a EXCEPT !.quantity = 0, !.order_matching_fees = @ + fee],
      left |-> left - a.quantity, fee |-> fee,
      trade |-> Trade(o, a.quantity, trade_cost(-closed, pnl, fee), fee, pnl)]

(* The fee is split in proportion to the contracts, rounded down. *)
ReducesToZero(a, o, left, fee) ==
  LET rest == left - a.quantity
      fee_next == (rest * fee) \div left
      pnl == AppPnl(a, a.quantity, PriceOf(o))
      closed == calculate_margin(a.price, a.quantity, a.leverage)
  IN [position |-> [a EXCEPT !.quantity = 0, !.order_matching_fees = @ + (fee - fee_next)],
      left |-> rest, fee |-> fee_next,
      trade |-> Trade(o, a.quantity, trade_cost(-closed, pnl, fee - fee_next),
                      fee - fee_next, pnl)]

Increases(a, o, left, fee) ==
  LET total == a.quantity + left
      before == Over(Whole(a.quantity), a.price)
      after == Plus(before, Over(Whole(left), PriceOf(o)))
      price == Over(Whole(total), after)
      \* the margin difference is rounded once, after the subtraction
      diff == Over(Minus(after, before), a.leverage)
  IN [position |-> [a EXCEPT !.quantity = total, !.direction = o.direction, !.price = price,
                             !.collateral = calculate_margin(price, total, a.leverage),
                             !.liquidation_price = Liquidation(price, a.leverage, o.direction),
                             !.order_matching_fees = @ + fee],
      left |-> 0, fee |-> 0,
      trade |-> Trade(o, left, trade_cost(RoundAwayFromZero(diff[1] * Unit, diff[2]), 0, fee),
                      fee, 0)]

ApplyOnce(a, o, left, fee) ==
  IF a.quantity # 0 /\ o.direction # a.direction
  THEN CASE a.quantity = left -> ClosesAll(a, o, left, fee)
         [] a.quantity > left -> Reduces(a, o, left, fee)
         [] a.quantity < left -> ReducesToZero(a, o, left, fee)
  ELSE Increases(a, o, left, fee)

(* apply_order: an order that is not used up has brought the position to      *)
(* zero, so that the recursion ends after its second step.                    *)
apply_order(a, o) ==
  LET one == ApplyOnce(a, o, o.quantity, FeeOf(o))
      two == ApplyOnce(one.position, o, one.left, one.fee)
  IN IF one.left = 0 THEN [position |-> one.position, trades |-> <<one.trade>>]
                     ELSE [position |-> two.position, trades |-> <<one.trade, two.trade>>]

(* A fee paid by the coordinator leaves the app's position alone. *)
apply_funding_fee_events(a, fee) ==
  LET collateral == Saturating(a.collateral - fee)
      leverage == calculate_leverage(a.quantity, collateral, a.price)
  IN IF fee > 0
     THEN [a EXCEPT !.collateral = collateral, !.leverage = leverage,
                    !.liquidation_price = Liquidation(a.price, leverage, a.direction)]
     ELSE a

(* Mutant: accrued fees and the fee of the order are not set aside. *)
Bug_calculate_max_quantity(price, max_coordinator, max_trader, leverage, fees, open_quantity) ==
  LET by_trader == calculate_quantity(price, max_trader, leverage)
  IN Truncate(Plus(by_trader, Whole(open_quantity)))

(* What the app offers as the largest order: the smaller of what the two      *)
(* parties can put up, less the order-matching fee.  The subtraction of the   *)
(* fee panics below zero.                                                     *)
calculate_max_quantity(price, max_coordinator, max_trader, leverage, fees, open_quantity) ==
  LET coordinator_margin == Saturating(max_coordinator - fees)
      by_trader == calculate_quantity(price, max_trader, leverage)
      by_coordinator == calculate_quantity(price, coordinator_margin,
                                           coordinator_leverage_for_trade)
      coordinator_is_limit == ~AtMost(by_trader, by_coordinator)
      quantity == IF coordinator_is_limit THEN by_coordinator ELSE by_trader
      margin == IF coordinator_is_limit THEN coordinator_margin ELSE max_trader
      by_leverage == IF coordinator_is_limit THEN coordinator_leverage_for_trade
                                             ELSE leverage
      fee == order_matching_fee(Plus(quantity, Whole(open_quantity)), price)
  IN IF margin < fee
     THEN 0
     ELSE Truncate(Plus(calculate_quantity(price, margin - fee, by_leverage),
                        Whole(open_quantity)))

(* max_quantity in an existing channel, from the balances the app sees there. *)
max_quantity(a, total, local, counterparty, price, leverage, direction) ==
  IF a # None /\ direction # a.direction
  THEN LET margin_c == Saturating(total - (local + counterparty + a.collateral))
           pnl == AppPnl(a, a.quantity, price)
       IN calculate_max_quantity(price, Saturating(counterparty + margin_c - pnl),
                                 Saturating(local + a.collateral + pnl), leverage,
                                 a.order_matching_fees, a.quantity)
  ELSE calculate_max_quantity(price, counterparty, local, leverage,
                              IF a = None THEN 0 ELSE a.order_matching_fees, 0)

---------------------------------------------------------------------------
(* Protocols. *)

NoChannel == [state |-> "None", total |-> 0, own |-> 0, contract |-> NoContract]
Established(total, contract) ==
  [state |-> "Established", total |-> total, own |-> 0, contract |-> contract]

(* What a property needs to know of the position's past: a fee was larger     *)
(* than the payer's margin; fees of both signs were due together; a resize    *)
(* settled a fee; an order was executed beyond a bankruptcy price; the        *)
(* contract comes from a rollover.  And the trader's books: what its side of  *)
(* the channel held when the position was opened, the costs booked since (a   *)
(* fee it pays comes back as a smaller margin) and the fees it was paid.      *)
Fresh(stake) ==
  [overdrawn |-> FALSE, mixed |-> FALSE, resized_with_fee |-> FALSE, beyond |-> FALSE,
   rolled |-> FALSE, stake |-> stake, cost |-> 0, received |-> 0]
TotalCost(trades) == FoldSet(LAMBDA i, sum : sum + trades[i].cost, 0, DOMAIN trades)
Beyond(p, price) ==
  LET trader == liquidation_price(p.price, p.trader_leverage, p.direction, Whole(0))
      other == liquidation_price(p.price, p.coordinator_leverage, Opposite(p.direction), Whole(0))
  IN ~(IF p.direction = "Long" THEN AtMost(trader, price) /\ AtMost(price, other)
                               ELSE AtMost(other, price) /\ AtMost(price, trader))
Overdraws(p, fee) == fee > p.trader_margin \/ -fee > p.coordinator_margin
After(h, p, fee, o, trades) ==
  [h EXCEPT !.overdrawn = @ \/ Overdraws(p, fee), !.received = @ + Saturating(-fee),
            !.beyond = @ \/ Beyond(apply_funding_fee(p, fee), PriceOf(o)),
            !.cost = @ + TotalCost(trades)]

Init ==
  /\ pos = None /\ chan = NoChannel /\ due = 0 /\ app = None
  /\ orders = 0 /\ events = 0 /\ history = Fresh(0)

(* Both parties book a freshly opened position. *)
NewPosition(o, stake) ==
  /\ pos' = persist_position(o) /\ app' = new_open(o)
  /\ history' = [Fresh(stake) EXCEPT !.cost = trade_cost(margin_trader(o), 0, FeeOf(o))]

Executes == orders < MaxOrders /\ orders' = orders + 1

(* Who brings the coins: both parties, or the coordinator for a trader        *)
(* without UTXOs.                                                             *)
offer_and_accept_collateral(required, o, reserve_c, reserve_t) ==
  IF required = "ForTradeCostAndTxFees"
  THEN <<margin_coordinator(o) + reserve_c, margin_trader(o) + reserve_t + FeeOf(o)>>
  ELSE <<margin_coordinator(o) + reserve_c + margin_trader(o) + reserve_t + FeeOf(o), 0>>

open_dlc_channel(o, reserve_c, reserve_t, required) ==
  LET collateral == offer_and_accept_collateral(required, o, reserve_c, reserve_t)
      contract == build_contract_descriptor(
                    PriceOf(o),
                    Party(margin_coordinator(o), coordinator_leverage_for_trade,
                          reserve_c + FeeOf(o)),
                    Party(margin_trader(o), Whole(o.leverage), reserve_t),
                    Opposite(o.direction), o.quantity)
  IN /\ chan.state = "None" /\ Executes /\ contract # NoContract
     /\ chan' = Established(collateral[1] + collateral[2], contract)
     /\ NewPosition(o, margin_trader(o) + reserve_t + FeeOf(o))
     /\ UNCHANGED <<due, events>>

(* In a settled channel, with what the last settlement left to the parties.   *)
open_position(o) ==
  LET reserve_c == chan.own + FeeOf(o) - margin_coordinator(o)
      reserve_t == (chan.total - chan.own) - FeeOf(o) - margin_trader(o)
      contract == build_contract_descriptor(
                    PriceOf(o),
                    Party(margin_coordinator(o), coordinator_leverage_for_trade, reserve_c),
                    Party(margin_trader(o), Whole(o.leverage), reserve_t),
                    Opposite(o.direction), o.quantity)
  IN /\ chan.state = "Settled" /\ Executes
     /\ reserve_c >= 0 /\ reserve_t >= 0 /\ contract # NoContract
     /\ chan' = Established(chan.total, contract)
     /\ NewPosition(o, chan.total - chan.own)
     /\ UNCHANGED <<due, events>>

(* The contract of a position row with the given reserves. *)
contract_of(p, reserves, coordinator_direction) ==
  build_contract_descriptor(
    p.price,
    Party(p.coordinator_margin, p.coordinator_leverage, reserves.coordinator),
    Party(p.trader_margin, p.trader_leverage, reserves.trader),
    coordinator_direction, p.quantity)

resize_position(o) ==
  /\ chan.state = "Established" /\ Executes /\ TradeAction(pos, o) # "ClosePosition"
  /\ \E reserves \in {apply_funding_fee_to_channel(chan, due)},
        p \in {apply_funding_fee(pos, due)}, applied \in {apply_order(app, o)} :
     \E resized \in {apply_resize_to_position(p, reserves, o)} \ {Refused} :
     \E contract \in {contract_of(resized.position, resized,
                                   Opposite(resized.position.direction))} \ {NoContract} :
       LET q == resized.position
       IN /\ chan' = Established(q.coordinator_margin + resized.coordinator
                                   + q.trader_margin + resized.trader, contract)
          /\ pos' = set_position_to_resizing(pos, q, o)
          /\ app' = applied.position
          /\ due' = 0
          /\ history' = [After(history, pos, due, o, applied.trades)
                           EXCEPT !.resized_with_fee = @ \/ due # 0, !.rolled = FALSE]
          /\ UNCHANGED events

start_closing_position(o) ==
  LET p == apply_funding_fee(pos, due)
      reserves == apply_funding_fee_to_channel(chan, due)
      trader == settlement_amount_trader(p, chan, reserves.coordinator, PriceOf(o), FeeOf(o))
  IN /\ chan.state = "Established" /\ Executes /\ TradeAction(pos, o) = "ClosePosition"
     /\ chan' = [chan EXCEPT !.state = "Settled", !.own = chan.total - trader,
                             !.contract = NoContract]
     /\ pos' = None /\ app' = None /\ due' = 0
     /\ history' = After(history, pos, due, o, apply_order(app, o).trades)
     /\ UNCHANGED events

(* The descriptor is built with the trader's direction in the place of the    *)
(* coordinator's.                                                             *)
propose_rollover ==
  /\ chan.state = "Established"
  /\ \E p \in {apply_funding_fee(pos, due)},
        reserves \in {apply_funding_fee_to_channel(chan, due)} :
     \E contract \in {contract_of(p, reserves, p.direction)} \ {NoContract} :
       /\ chan' = Established(p.coordinator_margin + reserves.coordinator
                                + p.trader_margin + reserves.trader, contract)
       /\ pos' = p
  /\ due' = 0
  /\ history' = [history EXCEPT !.overdrawn = @ \/ Overdraws(pos, due),
                                !.received = @ + Saturating(-due), !.rolled = TRUE]
  /\ UNCHANGED <<app, orders, events>>

(* The coordinator stores an event, the app hears of it at once and applies   *)
(* it to its position.                                                        *)
funding_fee_event(fee) ==
  /\ pos # None /\ events < MaxFeeEvents
  /\ events' = events + 1
  /\ due' = due + fee
  /\ app' = apply_funding_fee_events(app, fee)
  /\ history' = [history EXCEPT !.mixed = @ \/ due * fee < 0]
  /\ UNCHANGED <<pos, chan, orders>>

Next ==
  \/ \E o \in Order, reserve_c, reserve_t \in Reserves,
        required \in {"ForTradeCostAndTxFees", "None"} :
       open_dlc_channel(o, reserve_c, reserve_t, required)
  \/ \E o \in Order : open_position(o)
  \/ \E o \in Order : resize_position(o)
  \/ \E o \in Order : start_closing_position(o)
  \/ propose_rollover
  \/ \E fee \in FundingFees : funding_fee_event(fee)

Spec == Init /\ [][Next]_vars

---------------------------------------------------------------------------
(* Properties. *)

(* The types of the variables. *)
TypeOK ==
  /\ pos \in Position \union {None} /\ app \in AppPosition \union {None}
  /\ chan.state \in {"None", "Established", "Settled"} /\ chan.total \in Nat /\ chan.own \in Nat
  /\ due \in Int /\ orders \in 0..MaxOrders /\ events \in 0..MaxFeeEvents

IsOpen == chan.state = "Established"
Reserve_c == usable_balance_coordinator(chan.contract)
Reserve_t == usable_balance_trader(chan.contract, chan.total)

(* A margin is rounded once per order; the first order's is exact. *)
Rounding == orders - 1

(* Every contract proposed is one rust-dlc accepts (pieces that ascend, touch *)
(* and cover every outcome), and it pays no party less than its reserve: the  *)
(* reserves read back from it, on which the next protocol builds, are those   *)
(* it was made with.                                                          *)
CurveIsSound ==
  IsOpen =>
    LET c == chan.contract IN
    /\ c[1][1].outcome = 0 /\ c[Len(c)][2].outcome = MaxPrice
    /\ \A i \in 1..Len(c) : c[i][1].outcome < c[i][2].outcome
    /\ \A i \in 1..Len(c) - 1 : c[i][2] = c[i + 1][1]
    /\ Reserve_c >= 0 /\ Reserve_t >= 0
    /\ pos.trader_margin + pos.coordinator_margin + Reserve_c + Reserve_t = chan.total

(* Closing the position at whatever price takes nothing from the reserves:    *)
(* the trader gets at least its own and leaves the coordinator its own.  Not  *)
(* so after a resize that settled a fee, which leaves a stale leverage in the *)
(* row.                                                                       *)
ReservesAreNotWagered ==
  IsOpen /\ ~history.overdrawn /\ ~history.resized_with_fee /\ ~Overdraws(pos, due) =>
    \A price \in Prices :
      LET p == apply_funding_fee(pos, due)
          r == apply_funding_fee_to_channel(chan, due)
          amount == settlement_amount_trader(p, chan, r.coordinator, Whole(price),
                                             order_matching_fee(Whole(p.quantity), Whole(price)))
      IN /\ amount >= r.trader - Rounding
         /\ amount <= chan.total - r.coordinator

(* The app's position is the coordinator's with the outstanding fees applied, *)
(* down to the fees paid and to a sat per resize in the margin, although each  *)
(* party computes it on its own.                                              *)
AppInSync ==
  IsOpen /\ ~history.overdrawn /\ ~history.mixed /\ ~history.resized_with_fee =>
    LET p == apply_funding_fee(pos, due) IN
    /\ app.quantity = p.quantity /\ app.direction = p.direction /\ app.price = p.price
    /\ Abs(app.collateral - p.trader_margin) <= Rounding
    /\ app.order_matching_fees = p.order_matching_fees

(* When the position is closed, the costs of the trades the app booked are    *)
(* what the trader's side of the channel really lost, to two sats per order.  *)
BooksBalance ==
  chan.state = "Settled" /\ ~history.overdrawn /\ ~history.mixed /\ ~history.resized_with_fee
    /\ ~history.beyond =>
    Abs((chan.total - chan.own) - (history.stake - history.cost + history.received)) <= 2 * orders

MidWidth(c) == Max({c[i][2].outcome - c[i][1].outcome : i \in 2..Len(c) - 1}) + 1

(* Closing on chain and closing together are worth the same: at the price the *)
(* oracle attests, the contract pays the coordinator what a settlement at a   *)
(* price within one interval of it would pay.                                 *)
ContractMatchesSettlement ==
  IsOpen /\ ~history.rolled /\ ~history.overdrawn /\ ~history.resized_with_fee /\ due = 0 =>
    LET Amount(price) == Reserve_c + calculate_coordinator_settlement_amount(pos, Whole(price), 0)
        width == MidWidth(chan.contract)
    IN \A price \in Prices :
         LET paid == PayoutAt(chan.contract, price)
             low == Amount(Larger(price - width, 1))
             high == Amount(price + width)
         IN Smaller(low, high) - Rounding <= paid /\ paid <= Larger(low, high) + Rounding

Refuses(o) ==
  IF IsOpen
  THEN /\ TradeAction(pos, o) \in {"Increase", "ChangeDirection"}
       /\ apply_resize_to_position(pos, apply_funding_fee_to_channel(chan, 0), o) = Refused
  ELSE chan.own + FeeOf(o) < margin_coordinator(o)
         \/ chan.total - chan.own < FeeOf(o) + margin_trader(o)

(* An order of the size the app offers as the maximum, less one contract for  *)
(* rounding, is not refused by the coordinator for want of collateral, as     *)
(* long as the two agree on the leverages.                                    *)
MaxQuantityIsAccepted ==
  chan.state # "None" /\ ~history.overdrawn /\ ~history.mixed /\ ~history.resized_with_fee
    /\ (IsOpen => /\ due = 0 /\ app.leverage = pos.trader_leverage
                  /\ pos.coordinator_leverage = coordinator_leverage_for_trade) =>
    \A price \in Prices, direction \in Direction, opening \in Leverages :
      LET leverage == IF IsOpen THEN app.leverage ELSE Whole(opening)
          local == IF IsOpen THEN Reserve_t ELSE chan.total - chan.own
          counterparty == IF IsOpen THEN Reserve_c ELSE chan.own
          most == max_quantity(app, chan.total, local, counterparty, Whole(price), leverage,
                               direction)
      IN most > 1 => ~Refuses([quantity |-> most - 1, direction |-> direction,
                               leverage |-> opening, price |-> price])

=============================================================================
