-------------------------------- MODULE Cfd --------------------------------
(* The arithmetic of the inverse perpetual future (xxi-node's cfd.rs, the     *)
(* copies of it in the app, order_matching_fee.rs).  Amounts are whole sats,  *)
(* quantities whole contracts; a Decimal is a fraction <<n, d>> in lowest     *)
(* terms.  The code passes some of these fractions through f32, whose error   *)
(* (2^-24 of the value) is below a sat for the amounts of an instance.        *)
EXTENDS Integers

CONSTANTS
  Unit,                   \* sats per bitcoin (10^8 in the code)
  MaxPrice,               \* BTCUSD_MAX_PRICE (1_048_575 in the code)
  MaintenanceMarginRate,  \* settings: maintenance_margin_rate, a fraction
  OrderMatchingFeeRate    \* settings: order_matching_fee_rate, a fraction

IsFraction(r) == r[1] \in Int /\ r[2] \in Nat \ {0}

ASSUME CfdAssumption ==
  /\ Unit \in Nat \ {0} /\ MaxPrice \in Nat \ {0}
  /\ IsFraction(MaintenanceMarginRate) /\ IsFraction(OrderMatchingFeeRate)

Direction == {"Long", "Short"}
Opposite(direction) == IF direction = "Long" THEN "Short" ELSE "Long"

Smaller(a, b) == IF a < b THEN a ELSE b
Larger(a, b) == IF a < b THEN b ELSE a
Abs(a) == IF a < 0 THEN -a ELSE a
Saturating(a) == Larger(a, 0)

(* Fractions. *)
GreatestDivisor[a \in Nat, b \in Nat] ==
  IF b = 0 THEN a ELSE GreatestDivisor[b, a % b]
Fraction(n, d) == LET g == GreatestDivisor[Abs(n), d] IN <<n \div g, d \div g>>
Whole(n) == <<n, 1>>
Times(r, s) == Fraction(r[1] * s[1], r[2] * s[2])
Over(r, s) == Fraction(r[1] * s[2], r[2] * s[1])
Plus(r, s) == Fraction(r[1] * s[2] + s[1] * r[2], r[2] * s[2])
Minus(r, s) == Fraction(r[1] * s[2] - s[1] * r[2], r[2] * s[2])
AtMost(r, s) == r[1] * s[2] <= s[1] * r[2]
Least(r, s) == IF AtMost(r, s) THEN r ELSE s
Truncate(r) == r[1] \div r[2]

(* RoundingStrategy::MidpointAwayFromZero, for n >= 0, and                    *)
(* RoundingStrategy::MidpointTowardZero.                                      *)
RoundAwayFromZero(n, d) == (2 * n + d) \div (2 * d)
RoundTowardZero(n, d) ==
  IF n >= 0 THEN (2 * n + d - 1) \div (2 * d) ELSE -((2 * (-n) + d - 1) \div (2 * d))

calculate_margin(open_price, quantity, leverage) ==
  IF open_price[1] = 0 \/ leverage[1] = 0
  THEN 0
  ELSE RoundAwayFromZero(quantity * Unit * open_price[2] * leverage[2],
                         open_price[1] * leverage[1])

(* No margin left counts as "a kind of maximum leverage". *)
calculate_leverage(quantity, margin, open_price) ==
  IF margin = 0
  THEN Whole(10000)
  ELSE Fraction(quantity * Unit * open_price[2], margin * open_price[1])

calculate_quantity(opening_price, margin, leverage) ==
  Over(Times(Whole(margin), Times(opening_price, leverage)), Whole(Unit))

calculate_long_liquidation_price(leverage, price, rate) ==
  Over(Times(price, leverage), Minus(Plus(leverage, Whole(1)), Times(rate, leverage)))

calculate_short_liquidation_price(leverage, price, rate) ==
  IF leverage = Whole(1)
  THEN Whole(MaxPrice)
  ELSE Over(Times(price, leverage), Plus(Minus(leverage, Whole(1)), Times(rate, leverage)))

liquidation_price(price, leverage, direction, rate) ==
  IF direction = "Long" THEN calculate_long_liquidation_price(leverage, price, rate)
                        ELSE calculate_short_liquidation_price(leverage, price, rate)

(* The pnl of a party: the win is capped by the other party's margin, the     *)
(* loss by its own.                                                           *)
calculate_pnl(opening_price, closing_price, quantity, direction, margin_long, margin_short) ==
  LET uncapped == IF opening_price[1] = 0 \/ closing_price[1] = 0
                  THEN 0
                  ELSE RoundTowardZero(quantity * Unit
                                         * (opening_price[2] * closing_price[1]
                                              - closing_price[2] * opening_price[1]),
                                       opening_price[1] * closing_price[1])
      win == IF direction = "Long" THEN Smaller(uncapped, margin_short)
                                   ELSE Smaller(-uncapped, margin_long)
      own == IF direction = "Long" THEN margin_long ELSE margin_short
  IN IF win < 0 THEN Larger(win, -own) ELSE win

order_matching_fee(quantity, price) ==
  IF price[1] = 0
  THEN 0
  ELSE LET fee == Over(Times(quantity, OrderMatchingFeeRate), price)
       IN RoundAwayFromZero(fee[1] * Unit, fee[2])

compute_relative_contracts(contracts, direction) ==
  IF direction = "Long" THEN contracts ELSE -contracts
=============================================================================
