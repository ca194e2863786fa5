------------------------------ MODULE Rollover ------------------------------
(***************************************************************************)
(* When positions expire and when they may be rolled over: the calendar of *)
(* crates/xxi-node/src/commons/rollover.rs, and the checks of the          *)
(* coordinator (node/rollover.rs, scheduler.rs, node/expired_positions.rs) *)
(* on one position.  Time is in whole hours; hour 0 is a Monday 00:00 UTC. *)
(*                                                                         *)
(* A check that finds the position due and the proposal that follows read  *)
(* the clock separately, and the scheduler and every connection of the     *)
(* trader run checks concurrently.                                         *)
(***************************************************************************)
EXTENDS Calendar, Integers

CONSTANTS
    Mainnet,     \* whether the network is Network::Bitcoin
    MaxHours,    \* bound on time
    MaxChecks,   \* bound on concurrent checks
    MaxDelay     \* bound on the hours between a check and its proposal

ASSUME MainnetAssumption == Mainnet \in BOOLEAN
ASSUME MaxAssumption == MaxHours \in Nat /\ MaxChecks \in Nat
\* On the other networks a proposal 17 hours late would see the next window.
ASSUME DelayAssumption == MaxDelay \in 0 .. 16

VARIABLES
    now,      \* OffsetDateTime::now_utc()
    expiry,   \* expiry_timestamp of the open position, 0 when there is none
    checks,   \* tasks that found the position due and have yet to propose
    delay     \* hours since the first of these checks

vars == <<now, expiry, checks, delay>>

-----------------------------------------------------------------------------
Weekday(t) == ((t \div 24) % 7) + 1   \* number_from_monday
HourOfDay(t) == t % 24

Bug_WindowOpensLate(t) ==
    IF Mainnet
    THEN \/ Weekday(t) = 5 /\ HourOfDay(t) > 15
         \/ Weekday(t) = 6
         \/ Weekday(t) = 7 /\ HourOfDay(t) < 15
    ELSE 24 - HourOfDay(t) < 7

is_eligible_for_rollover(t) ==
    IF Mainnet
    THEN \/ Weekday(t) = 5 /\ HourOfDay(t) >= 15
         \/ Weekday(t) = 6
         \/ Weekday(t) = 7 /\ HourOfDay(t) < 15
    ELSE 24 - HourOfDay(t) < 8

Days(t) ==
    IF is_eligible_for_rollover(t) \/ Weekday(t) = 7
    THEN 7 - Weekday(t) + 7
    ELSE 7 - Weekday(t)

Bug_ForgetsSunday(t) ==
    IF Mainnet
    THEN (t \div 24) * 24 + 15
            + 24 * (7 - Weekday(t) + (IF is_eligible_for_rollover(t) THEN 7 ELSE 0))
    ELSE (t \div 24) * 24 + (IF is_eligible_for_rollover(t) THEN 48 ELSE 24)

calculate_next_expiry(t) ==
    IF Mainnet
    THEN (t \div 24) * 24 + 15 + 24 * Days(t)
    ELSE (t \div 24) * 24 + (IF is_eligible_for_rollover(t) THEN 48 ELSE 24)

-----------------------------------------------------------------------------
\* A position gets the expiry that match_order calculated.
OpenPosition ==
    /\ expiry = 0
    /\ expiry' = calculate_next_expiry(now)
    /\ UNCHANGED <<now, checks, delay>>

Bug_ChecksExpired ==
    /\ expiry # 0
    /\ checks < MaxChecks
    /\ is_eligible_for_rollover(now)
    /\ expiry < calculate_next_expiry(now)
    /\ checks' = checks + 1
    /\ UNCHANGED <<now, expiry, delay>>

\* check_rollover; the caller is the scheduler's job or the monitor of
\* NodeEvent::Connected, and the trader is connected.
check_rollover ==
    /\ expiry # 0
    /\ checks < MaxChecks
    /\ is_eligible_for_rollover(now)
    /\ now < expiry
    /\ expiry < calculate_next_expiry(now)
    /\ checks' = checks + 1
    /\ UNCHANGED <<now, expiry, delay>>

Bug_AddsOnePeriod ==
    /\ checks > 0
    /\ expiry' = IF expiry = 0 THEN expiry
                 ELSE expiry + (IF Mainnet THEN HoursPerWeek ELSE 24)
    /\ checks' = checks - 1
    /\ delay' = IF checks' = 0 THEN 0 ELSE delay
    /\ UNCHANGED now

\* propose_rollover, to the end of the rollover; it fails without a position.
propose_rollover ==
    /\ checks > 0
    /\ expiry' = IF expiry = 0 THEN expiry ELSE calculate_next_expiry(now)
    /\ checks' = checks - 1
    /\ delay' = IF checks' = 0 THEN 0 ELSE delay
    /\ UNCHANGED now

\* The proposal fails or the trader rejects it.
RolloverFails ==
    /\ checks > 0
    /\ checks' = checks - 1
    /\ delay' = IF checks' = 0 THEN 0 ELSE delay
    /\ UNCHANGED <<now, expiry>>

\* close of expired_positions.rs, to the end of the settlement
CloseExpired ==
    /\ expiry # 0
    /\ now >= expiry
    /\ expiry' = 0
    /\ UNCHANGED <<now, checks, delay>>

Tick ==
    /\ now < MaxHours
    /\ checks > 0 => delay < MaxDelay
    /\ now' = now + 1
    /\ delay' = IF checks > 0 THEN delay + 1 ELSE 0
    /\ UNCHANGED <<expiry, checks>>

Init ==
    /\ now = 0 /\ expiry = 0
    /\ checks = 0 /\ delay = 0

Next ==
    \/ OpenPosition
    \/ check_rollover
    \/ propose_rollover
    \/ RolloverFails
    \/ CloseExpired
    \/ Tick

Spec == Init /\ [][Next]_vars

-----------------------------------------------------------------------------
Period == IF Mainnet THEN HoursPerWeek ELSE 24
\* The whole hours of the rollover window
Window == IF Mainnet THEN 48 ELSE 7

\* Every variable has its type; no proposal is made without a check.
TypeOK == now \in Nat /\ expiry \in Nat /\ checks \in 0 .. MaxChecks /\ delay \in 0 .. MaxDelay

\* However late in the week a position is opened or rolled over, it can be rolled
\* over in the whole window before its expiry and at no other time: a trader who
\* connects in that window is never left with a position that only expires
\* (is_eligible_for_rollover and calculate_next_expiry fit together).
RollableExactlyInWindow ==
    now < expiry =>
        (is_eligible_for_rollover(now) /\ expiry < calculate_next_expiry(now)
            <=> expiry - now <= Window)

\* No number of concurrent or repeated rollovers gives a position more than one
\* period beyond the current window (check_rollover, propose_rollover).
NeverRolledTwice == expiry <= now + Period + Window

\* A rollover extends a position by exactly one period, although the proposal
\* reads the clock again after the check (propose_rollover).
ExtendedByOnePeriod ==
    [][expiry # 0 /\ expiry' \notin {0, expiry} => expiry' = expiry + Period]_vars

\* The half-week calendar of TradeProtocol is the code's calendar on mainnet.
HalfWeeksAgree ==
    Mainnet =>
        /\ is_eligible_for_rollover(now) <=> EligibleIn(HalfWeek(now))
        /\ calculate_next_expiry(now) = ExpiryHour(NextExpiryIn(HalfWeek(now)))
=============================================================================
