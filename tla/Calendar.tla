------------------------------ MODULE Calendar ------------------------------
(***************************************************************************)
(* The expiry calendar of the mainnet at the granularity of half-weeks, as *)
(* TradeProtocol uses it.  An even half-week lasts from Sunday 15:00 to    *)
(* Friday 15:00, an odd one is the rollover weekend that follows.  Expiry  *)
(* e is the Sunday 15:00 that begins half-week 2 * e.  Rollover computes   *)
(* with hours the way the code does and shows that the two agree.          *)
(***************************************************************************)
EXTENDS Naturals

HoursPerWeek == 168

\* Hour 0 is a Monday 00:00; Sunday 15:00 is 9 hours before the week's end and
\* Friday 15:00 is 120 hours later.
HalfWeek(t) ==
    2 * ((t + 9) \div HoursPerWeek) + (IF (t + 9) % HoursPerWeek < 120 THEN 0 ELSE 1)

ExpiryHour(e) == HoursPerWeek * e - 9

EligibleIn(h) == h % 2 = 1

NextExpiryIn(h) == (h \div 2) + (IF EligibleIn(h) THEN 2 ELSE 1)

ExpiredIn(h, e) == h >= 2 * e
=============================================================================
