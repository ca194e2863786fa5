---------------------------- MODULE PayoutCurve ----------------------------
(* The discretised payout function of a contract, from the point of view of   *)
(* the offer party, which is the coordinator (crates/payout_curve and the     *)
(* coordinator's payout_curve.rs), and the balance a party may still use      *)
(* while the contract is open (xxi-node's dlc_channel.rs).                    *)
EXTENDS Cfd, Sequences, FiniteSetsExt

CONSTANT Intervals        \* PAYOUT_CURVE_DISCRETIZATION_INTERVALS (200)

ASSUME IntervalsAssumption == Intervals \in Nat \ {0}

(* No contract: an ensure! of PriceParams fails, step_by(0) panics, or the    *)
(* long liquidation price is below a dollar and `b - 1` underflows.           *)
NoContract == <<>>

Point(outcome, payout) == [outcome |-> outcome, payout |-> payout]
Flat(from, to, payout) == <<Point(from, payout), Point(to, payout)>>

(* The price range in which the long party is liquidated. *)
calculate_long_liquidation_interval_payouts(direction, total, price, reserve_long) ==
  Flat(0, Truncate(price), IF direction = "Short" THEN total - reserve_long ELSE reserve_long)

(* The price range in which the short party is liquidated, never empty. *)
calculate_short_liquidation_interval_payouts(direction, total, price, reserve_short) ==
  LET whole == Truncate(price)
      start == IF whole = MaxPrice THEN whole - 1 ELSE whole
  IN Flat(start, MaxPrice, IF direction = "Long" THEN total - reserve_short ELSE reserve_short)

StepOf(from, to) == (to - from) \div Intervals

(* Mutant: the pnl of the other party. *)
Bug_calculate_mid_range_payouts(offer, accept, initial_price, from, to, direction, quantity) ==
  LET step == StepOf(from, to)
      total == offer.margin + offer.reserve
      PayoutFrom(start) ==
        LET pnl == calculate_pnl(initial_price, Whole(start + step \div 2), quantity,
                                 Opposite(direction), offer.margin, accept.margin)
        IN Smaller(Larger(total + pnl, offer.reserve), total + accept.margin)
  IN [k \in 1..(to - from + step - 1) \div step |->
        LET start == from + (k - 1) * step
        IN Flat(start, Smaller(start + step, to), PayoutFrom(start))]

(* Between the liquidation prices: one flat interval per step, paid at the    *)
(* price in the middle of it.                                                 *)
calculate_mid_range_payouts(offer, accept, initial_price, from, to, direction, quantity) ==
  LET step == StepOf(from, to)
      count == (to - from + step - 1) \div step
      margin_long == IF direction = "Long" THEN offer.margin ELSE accept.margin
      margin_short == IF direction = "Long" THEN accept.margin ELSE offer.margin
      total == offer.margin + offer.reserve
      PayoutFrom(start) ==
        LET pnl == calculate_pnl(initial_price, Whole(start + step \div 2), quantity,
                                 direction, margin_long, margin_short)
        IN Smaller(Larger(total + pnl, offer.reserve), total + accept.margin)
  IN [k \in 1..count |->
        LET start == from + (k - 1) * step
        IN Flat(start, Smaller(start + step, to), PayoutFrom(start))]

(* Mutant: the pieces are left unconnected. *)
Bug_ConnectPieces(pieces) == pieces

(* [(X, A), (Y, A)], [(Y, B), (Z, B)] become                                  *)
(* [(X, A), (Y - 1, A)], [(Y - 1, A), (Y, B)], [(Y, B), (Z, B)].              *)
ConnectPieces(pieces) ==
  LET last == Len(pieces)
      Shared(i) == [pieces[i][2] EXCEPT !.outcome = @ - 1]
      connected == [j \in 1..2 * last - 1 |->
                      LET i == (j + 1) \div 2
                      IN IF i = last THEN pieces[last]
                         ELSE IF j % 2 = 1 THEN <<pieces[i][1], Shared(i)>>
                                           ELSE <<Shared(i), pieces[i + 1][1]>>]
  IN SelectSeq(connected, LAMBDA piece : piece[1].outcome # piece[2].outcome)

build_inverse_payout_function(quantity, offer, accept, initial, long, short, direction) ==
  LET total == offer.margin + offer.reserve + accept.margin + accept.reserve
      long_party == IF direction = "Long" THEN offer ELSE accept
      short_party == IF direction = "Long" THEN accept ELSE offer
      first == calculate_long_liquidation_interval_payouts(direction, total, long,
                                                           long_party.reserve)
      final == calculate_short_liquidation_interval_payouts(direction, total, short,
                                                            short_party.reserve)
      from == first[2].outcome
      to == final[1].outcome
  IN IF from = 0 \/ StepOf(from, to) <= 0
     THEN NoContract
     ELSE ConnectPieces(<<first>>
                          \o calculate_mid_range_payouts(offer, accept, initial, from, to,
                                                         direction, quantity)
                          \o <<final>>)

(* The contract proposed by the coordinator: liquidation at the bankruptcy    *)
(* prices (no maintenance margin), the short one capped by the maximum price. *)
Party(margin, leverage, reserve) ==
  [margin |-> margin, leverage |-> leverage, reserve |-> reserve]

build_contract_descriptor(initial_price, coordinator, trader, coordinator_direction, quantity) ==
  LET Bankruptcy(party, direction) ==
        liquidation_price(initial_price, party.leverage, direction, Whole(0))
      price_coordinator == Bankruptcy(coordinator, coordinator_direction)
      price_trader == Bankruptcy(trader, Opposite(coordinator_direction))
      long == IF coordinator_direction = "Long" THEN price_coordinator ELSE price_trader
      short == Least(IF coordinator_direction = "Long" THEN price_trader ELSE price_coordinator,
                     Whole(MaxPrice))
  IN IF AtMost(long, initial_price) /\ AtMost(initial_price, short)
     THEN build_inverse_payout_function(
            quantity, coordinator, trader, initial_price, long, short, coordinator_direction)
     ELSE NoContract

(* What the contract pays the coordinator at a price attested by the oracle:  *)
(* the pieces are flat but for the steps of one dollar.                       *)
PayoutAt(pieces, price) ==
  LET piece == CHOOSE i \in 1..Len(pieces) : pieces[i][1].outcome <= price
                                              /\ price <= pieces[i][2].outcome
  IN IF price = pieces[piece][1].outcome THEN pieces[piece][1].payout
                                         ELSE pieces[piece][2].payout

(* get_contract_usable_balance: the smallest payout of a party is what it is  *)
(* not wagering.                                                              *)
CoordinatorPayouts(pieces) ==
  UNION {{pieces[i][1].payout, pieces[i][2].payout} : i \in 1..Len(pieces)}
usable_balance_coordinator(pieces) == Min(CoordinatorPayouts(pieces))
usable_balance_trader(pieces, total) == total - Max(CoordinatorPayouts(pieces))
=============================================================================
