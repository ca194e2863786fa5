--------------------------- MODULE RolloverProofs ---------------------------
(***************************************************************************)
(* Proofs about Rollover, on either network and for every bound.  All of   *)
(* the calendar's arithmetic is in four lemmas; the invariant then only    *)
(* says where the expiry lies relative to the clock and to the check that  *)
(* a pending proposal rests on.                                            *)
(***************************************************************************)
EXTENDS Rollover, TLAPS

\* Where expiries lie: on a Sunday 15:00, or at midnight
Aligned(e) == IF Mainnet THEN (e + 9) % HoursPerWeek = 0 ELSE e % 24 = 0

\* The hour of the first check of the pending proposals
CheckedAt == now - delay

ExpiryOK ==
    expiry # 0 => Aligned(expiry) /\ expiry <= now + Period + Window

\* A pending proposal rests on a check inside the window, of a position that had
\* not expired.
ChecksOK ==
    /\ checks = 0 => delay = 0
    /\ checks > 0 =>
        /\ delay <= now
        /\ is_eligible_for_rollover(CheckedAt)
        /\ expiry # 0 => CheckedAt < expiry

IInv == TypeOK /\ ExpiryOK /\ ChecksOK

-----------------------------------------------------------------------------
(* The calendar *)

\* calculate_next_expiry gives an expiry in the future, a period and a window
\* away at most.
LEMMA NextExpiry ==
    ASSUME NEW t \in Nat
    PROVE  /\ calculate_next_expiry(t) \in Nat \ {0}
           /\ Aligned(calculate_next_expiry(t))
           /\ t < calculate_next_expiry(t)
           /\ calculate_next_expiry(t) <= t + Period + Window
<1>1. CASE Mainnet
  BY <1>1 DEF calculate_next_expiry, is_eligible_for_rollover, Days, Weekday, HourOfDay,
     Aligned, HoursPerWeek, Period, Window
<1>2. CASE ~ Mainnet
  BY <1>2 DEF calculate_next_expiry, is_eligible_for_rollover, HourOfDay, Aligned, Period, Window
<1> QED BY <1>1, <1>2

\* An expiry at most a period and a window away can be rolled over exactly in the
\* last Window hours.
LEMMA Rollable ==
    ASSUME NEW t \in Nat, NEW e \in Nat, Aligned(e), t < e, e <= t + Period + Window
    PROVE  is_eligible_for_rollover(t) /\ e < calculate_next_expiry(t) <=> e - t <= Window
<1>1. CASE Mainnet
  BY <1>1 DEF calculate_next_expiry, is_eligible_for_rollover, Days, Weekday, HourOfDay,
     Aligned, HoursPerWeek, Period, Window
<1>2. CASE ~ Mainnet
  BY <1>2 DEF calculate_next_expiry, is_eligible_for_rollover, HourOfDay, Aligned, Period, Window
<1> QED BY <1>1, <1>2

\* A proposal up to 16 hours after its check gives the position the expiry it
\* has, or the one a period later.
LEMMA LateProposal ==
    ASSUME NEW c \in Nat, NEW d \in 0 .. 16, NEW e \in Nat, is_eligible_for_rollover(c),
           Aligned(e), c < e, e <= c + d + Period + Window
    PROVE  calculate_next_expiry(c + d) \in {e, e + Period}
<1>1. CASE Mainnet
  BY <1>1 DEF calculate_next_expiry, is_eligible_for_rollover, Days, Weekday, HourOfDay,
     Aligned, HoursPerWeek, Period, Window
<1>2. CASE ~ Mainnet
  BY <1>2 DEF calculate_next_expiry, is_eligible_for_rollover, HourOfDay, Aligned, Period, Window
<1> QED BY <1>1, <1>2

\* On mainnet the hours of the code and the half-weeks of TradeProtocol agree, at
\* every hour.
LEMMA HalfWeeks ==
    ASSUME NEW t \in Nat, Mainnet
    PROVE  /\ is_eligible_for_rollover(t) <=> EligibleIn(HalfWeek(t))
           /\ calculate_next_expiry(t) = ExpiryHour(NextExpiryIn(HalfWeek(t)))
BY DEF is_eligible_for_rollover, calculate_next_expiry, Days, Weekday, HourOfDay,
   EligibleIn, NextExpiryIn, HalfWeek, ExpiryHour, HoursPerWeek

-----------------------------------------------------------------------------
(* The invariant *)

\* Every action preserves the invariant.
LEMMA NextOK ==
    ASSUME IInv, [Next]_vars
    PROVE  IInv'
<1> USE MainnetAssumption, MaxAssumption, DelayAssumption
<1>1. CASE OpenPosition
  BY <1>1, NextExpiry DEF IInv, TypeOK, ExpiryOK, ChecksOK, CheckedAt, OpenPosition
<1>2. CASE check_rollover
  <2>1. TypeOK' /\ ExpiryOK'
    BY <1>2 DEF IInv, TypeOK, ExpiryOK, check_rollover
  <2>2. CheckedAt' = CheckedAt /\ (checks = 0 => CheckedAt = now)
    BY <1>2 DEF IInv, TypeOK, ChecksOK, CheckedAt, check_rollover
  <2>3. is_eligible_for_rollover(CheckedAt)
    BY <1>2, <2>2 DEF IInv, TypeOK, ChecksOK, check_rollover
  <2>4. ChecksOK'
    BY <1>2, <2>2, <2>3 DEF IInv, TypeOK, ChecksOK, check_rollover
  <2> QED BY <2>1, <2>4 DEF IInv
<1>3. CASE propose_rollover
  BY <1>3, NextExpiry DEF IInv, TypeOK, ExpiryOK, ChecksOK, CheckedAt, propose_rollover
<1>4. CASE RolloverFails
  BY <1>4 DEF IInv, TypeOK, ExpiryOK, ChecksOK, CheckedAt, RolloverFails
<1>5. CASE CloseExpired
  BY <1>5 DEF IInv, TypeOK, ExpiryOK, ChecksOK, CheckedAt, CloseExpired
<1>6. CASE Tick
  BY <1>6 DEF IInv, TypeOK, ExpiryOK, ChecksOK, CheckedAt, Tick, Period, Window, HoursPerWeek
<1>7. CASE UNCHANGED vars
  BY <1>7 DEF IInv, TypeOK, ExpiryOK, ChecksOK, CheckedAt, vars
<1> QED BY <1>1, <1>2, <1>3, <1>4, <1>5, <1>6, <1>7 DEF Next

\* The inductive invariant holds in every reachable state.
THEOREM Invariance == Spec => []IInv
<1>1. Init => IInv
  BY MaxAssumption, DelayAssumption DEF Init, IInv, TypeOK, ExpiryOK, ChecksOK
<1>2. IInv /\ [Next]_vars => IInv'
  BY NextOK
<1> QED BY <1>1, <1>2, PTL DEF Spec

\* check_rollover can roll a position over in the whole window before its expiry
\* and at no other time, on both networks and for ever.
THEOREM RollableWindow == Spec => []RollableExactlyInWindow
<1>1. IInv => RollableExactlyInWindow
  BY Rollable DEF IInv, TypeOK, ExpiryOK, RollableExactlyInWindow
<1> QED BY <1>1, Invariance, PTL

\* Any number of concurrent calls of propose_rollover leaves the expiry at most a
\* period and a window away.
THEOREM NotRolledTwice == Spec => []NeverRolledTwice
<1>1. IInv => NeverRolledTwice
  BY DEF IInv, TypeOK, ExpiryOK, NeverRolledTwice, Period, Window, HoursPerWeek
<1> QED BY <1>1, Invariance, PTL

\* propose_rollover extends a position by one period, however long it took since
\* check_rollover, up to 16 hours.
THEOREM OnePeriod == Spec => ExtendedByOnePeriod
<1>1. IInv /\ [Next]_vars =>
        [expiry # 0 /\ expiry' \notin {0, expiry} => expiry' = expiry + Period]_vars
  <2> SUFFICES ASSUME IInv, Next, expiry # 0, expiry' # 0, expiry' # expiry
               PROVE  expiry' = expiry + Period
    OBVIOUS
  <2>1. propose_rollover
    BY DEF Next, OpenPosition, check_rollover, RolloverFails, CloseExpired, Tick
  <2>2. /\ CheckedAt \in Nat /\ delay \in 0 .. 16 /\ CheckedAt + delay = now
        /\ is_eligible_for_rollover(CheckedAt)
        /\ Aligned(expiry) /\ CheckedAt < expiry
        /\ expiry <= CheckedAt + delay + Period + Window
    BY <2>1, DelayAssumption DEF IInv, TypeOK, ExpiryOK, ChecksOK, CheckedAt, propose_rollover,
       Period, Window, HoursPerWeek
  <2>3. calculate_next_expiry(now) \in {expiry, expiry + Period}
    BY <2>2, LateProposal DEF IInv, TypeOK
  <2> QED BY <2>1, <2>3 DEF propose_rollover
<1> QED BY <1>1, Invariance, PTL DEF Spec, ExtendedByOnePeriod

\* The calendar TradeProtocol computes with is the code's on mainnet.
THEOREM CalendarsAgree == Spec => []HalfWeeksAgree
<1>1. IInv => HalfWeeksAgree
  BY HalfWeeks DEF IInv, TypeOK, HalfWeeksAgree
<1> QED BY <1>1, Invariance, PTL
=============================================================================
