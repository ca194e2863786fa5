----------------------------- MODULE Orderbook ------------------------------
(***************************************************************************)
(* The coordinator's orderbook: the tables orders, matches and             *)
(* channel_opening_params, and the tasks that change them.  Every market   *)
(* order has a task of its own (orderbook/trading.rs) that writes them one *)
(* statement at a time, without a transaction around them; every           *)
(* connection of a trader starts a task that executes a match the trader   *)
(* has not seen (orderbook/async_match.rs); makers post and delete limit   *)
(* orders at any time.                                                     *)
(*                                                                         *)
(* What an execution does is the subject of TradeProtocol: here it ends    *)
(* well or badly.                                                          *)
(***************************************************************************)
EXTENDS Naturals, FiniteSets, Sequences, SequencesExt

CONSTANTS
    Traders, MarketOrders, LimitOrders,
    TraderOf,       \* the trader_id of every order
    DirectionOf,    \* the direction of every order
    WithParams,     \* market orders that come with channel_opening_params
    Prices, Quantities,
    MaxConnects,    \* bound on connections
    MaxCrashes,     \* bound on restarts of the coordinator
    MaxFailures,    \* bound on tasks that end because the database failed
    Expiring,       \* orders whose expiry may pass
    Deletable       \* orders that somebody may delete

Orders == MarketOrders \cup LimitOrders

ASSUME OrdersAssumption == MarketOrders \cap LimitOrders = {} /\ IsFiniteSet(Orders)
ASSUME TraderAssumption == TraderOf \in [Orders -> Traders]
ASSUME DirectionAssumption == DirectionOf \in [Orders -> {"Long", "Short"}]
ASSUME PricesAssumption == Prices \subseteq Nat /\ Quantities \subseteq Nat
ASSUME BoundsAssumption ==
    MaxConnects \in Nat /\ MaxCrashes \in Nat /\ MaxFailures \in Nat

VARIABLES
    orders,      \* table orders
    expired,     \* orders whose expiry has passed
    matches,     \* table matches
    params,      \* table channel_opening_params: the order_ids it has
    tasks,       \* the task of every order
    connected,   \* traders with a connection
    checks,      \* running tasks of process_pending_match
    executions,  \* running calls of TradeExecutor::execute
    givingUp,    \* orders set to Expired whose match has yet to be set to Failed
    connects, crashes, failures

tables == <<orders, matches, params>>
bounds == <<connects, crashes, failures>>
vars == <<tables, expired, tasks, connected, checks, executions, givingUp, bounds>>

-----------------------------------------------------------------------------
OrderStates == {"Open", "Matched", "Taken", "Failed", "Expired", "Deleted"}
MatchStates == {"Pending", "Filled", "Failed"}

\* The timestamp is the order in which the rows were inserted.
OrderRows ==
    [state: OrderStates \cup {"None"}, price: Nat, quantity: Nat, time: Nat]

\* One row per trader that takes part: the trader's order and the one it matched
MatchRows ==
    [order: Orders, with: Orders, price: Nat, quantity: Nat, state: MatchStates]

Steps == {"None", "Posted", "Checked", "Unmatched", "Match", "State", "Params", "Execute", "Done"}

\* with is the limit order that was matched; of is the order whose match is being
\* written, first the market order and then the limit order.
Tasks == [step: Steps, with: Orders, of: Orders]

\* params tells whether the execution was given the channel_opening_params, with
\* is the order_id of its Match, and run is the connection that started it.
Executions == [order: Orders, with: Orders, params: BOOLEAN, run: Nat]

Exists(x) == orders[x].state # "None"
OfTrader(t) == {x \in Orders : TraderOf[x] = t}
HasMatch(x) == \E m \in matches : m.order = x

\* set_order_state updates a row whatever its state is.
set_order_state(x, s) == orders' = [orders EXCEPT ![x].state = s]

\* set_match_state updates all rows of the order.
WithMatchState(x, s) ==
    {m \in matches : m.order # x}
        \cup {[m EXCEPT !.state = s] : m \in {r \in matches : r.order = x}}

Posted == Cardinality({x \in Orders : Exists(x)})

\* get_by_trader_id_and_state: the latest one
MatchedOrders(t) == {x \in OfTrader(t) : orders[x].state = "Matched"}
IsPendingMatch(t, x) ==
    x \in MatchedOrders(t) /\ \A y \in MatchedOrders(t) : orders[y].time <= orders[x].time

-----------------------------------------------------------------------------
(* Posting and deleting orders *)

\* post_order, for a trader's or the maker's order
post_order(x, p, q) ==
    /\ ~ Exists(x)
    /\ orders' = [orders EXCEPT ![x] =
            [state |-> "Open", price |-> IF x \in LimitOrders THEN p ELSE 0, quantity |-> q,
             time |-> Posted + 1]]
    /\ tasks' = [tasks EXCEPT ![x].step = "Posted"]
    /\ UNCHANGED <<expired, matches, params, connected, checks, executions, givingUp, bounds>>

process_new_limit_order(l) ==
    /\ l \in LimitOrders /\ tasks[l].step = "Posted"
    /\ orders' = [x \in Orders |->
            IF x \in LimitOrders \cap expired /\ orders[x].state = "Open"
            THEN [orders[x] EXCEPT !.state = "Expired"] ELSE orders[x]]
    /\ tasks' = [tasks EXCEPT ![l].step = "Done"]
    /\ UNCHANGED <<expired, matches, params, connected, checks, executions, givingUp, bounds>>

\* delete_order, in whatever state the order is
delete_order(x) ==
    /\ x \in Deletable /\ Exists(x)
    /\ set_order_state(x, "Deleted")
    /\ UNCHANGED <<expired, matches, params, tasks, connected, checks, executions, givingUp, bounds>>

Expire(x) ==
    /\ x \in Expiring \ expired /\ Exists(x)
    /\ expired' = expired \cup {x}
    /\ UNCHANGED <<tables, tasks, connected, checks, executions, givingUp, bounds>>

-----------------------------------------------------------------------------
(* process_new_market_order *)

opposite(d) == IF d = "Long" THEN "Short" ELSE "Long"

all_by_direction_and_type(d) ==
    {l \in LimitOrders \ expired : orders[l].state = "Open" /\ DirectionOf[l] = d}

Bug_SortsByTime(ls, d) ==
    SetToSortSeq(ls, LAMBDA a, b : orders[a].time < orders[b].time)

\* The limit orders in the order in which a market order of direction d takes them
sort_orders(ls, d) ==
    LET Before(a, b) ==
            IF orders[a].price = orders[b].price THEN orders[a].time < orders[b].time
            ELSE IF d = "Long" THEN orders[a].price < orders[b].price
            ELSE orders[a].price > orders[b].price
    IN  SetToSortSeq(ls, Before)

\* The orders that the loop of match_order takes: until the quantity is covered,
\* or all of them
MatchedPrefix(s, q) ==
    LET Covers(k) == FoldSeq(LAMBDA x, sum : orders[x].quantity + sum, 0, SubSeq(s, 1, k)) >= q
    IN  CHOOSE k \in 0 .. Len(s) :
            /\ k = Len(s) \/ (k > 0 /\ Covers(k))
            /\ \A j \in 1 .. k - 1 : ~ Covers(j)

\* The limit order that a market order is matched with, if it is exactly one
match_order(o) ==
    LET s == sort_orders(all_by_direction_and_type(opposite(DirectionOf[o])), DirectionOf[o])
    IN  {l \in all_by_direction_and_type(opposite(DirectionOf[o])) :
            MatchedPrefix(s, orders[o].quantity) = 1 /\ l = s[1]}

\* A new order is rejected while the trader has a matched one; its row stays Open.
CheckMatched(o) ==
    /\ o \in MarketOrders /\ tasks[o].step = "Posted"
    /\ tasks' = [tasks EXCEPT ![o].step =
            IF MatchedOrders(TraderOf[o]) = {} THEN "Checked" ELSE "Done"]
    /\ UNCHANGED <<tables, expired, connected, checks, executions, givingUp, bounds>>

Bug_MakerFirst(o) ==
    /\ tasks[o].step = "Checked"
    /\ \E l \in match_order(o) :
            tasks' = [tasks EXCEPT ![o] = [step |-> "Match", with |-> l, of |-> l]]
    /\ UNCHANGED <<tables, expired, connected, checks, executions, givingUp, bounds>>

FindMatch(o) ==
    /\ tasks[o].step = "Checked"
    /\ IF match_order(o) = {}
       THEN tasks' = [tasks EXCEPT ![o].step = "Unmatched"]
       ELSE \E l \in match_order(o) :
               tasks' = [tasks EXCEPT ![o] = [step |-> "Match", with |-> l, of |-> o]]
    /\ UNCHANGED <<tables, expired, connected, checks, executions, givingUp, bounds>>

FailUnmatched(o) ==
    /\ tasks[o].step = "Unmatched"
    /\ set_order_state(o, "Failed")
    /\ tasks' = [tasks EXCEPT ![o].step = "Done"]
    /\ UNCHANGED <<expired, matches, params, connected, checks, executions, givingUp, bounds>>

Bug_InsertsMakersOnly(o) ==
    /\ tasks[o].step = "Match"
    /\ LET x == tasks[o].of
           l == tasks[o].with
       IN  matches' = IF x = o THEN matches ELSE matches \cup
                {[order |-> x, with |-> o, price |-> orders[l].price,
                  quantity |-> orders[o].quantity, state |-> "Pending"]}
    /\ tasks' = [tasks EXCEPT ![o].step = "State"]
    /\ UNCHANGED <<orders, expired, params, connected, checks, executions, givingUp, bounds>>

\* matches::insert, of the market order and then of the limit order
InsertMatch(o) ==
    /\ tasks[o].step = "Match"
    /\ LET x == tasks[o].of
           l == tasks[o].with
       IN  matches' = matches \cup
                {[order |-> x, with |-> IF x = o THEN l ELSE o, price |-> orders[l].price,
                  quantity |-> orders[o].quantity, state |-> "Pending"]}
    /\ tasks' = [tasks EXCEPT ![o].step = "State"]
    /\ UNCHANGED <<orders, expired, params, connected, checks, executions, givingUp, bounds>>

\* The code asks for the type of the market order, so that it sets the limit order
\* to Matched too.
SetMatched(o) ==
    /\ tasks[o].step = "State"
    /\ set_order_state(tasks[o].of, "Matched")
    /\ tasks' = [tasks EXCEPT ![o].step = IF tasks[o].of = o THEN "Match" ELSE "Params",
                               ![o].of = tasks[o].with]
    /\ UNCHANGED <<expired, matches, params, connected, checks, executions, givingUp, bounds>>

InsertParams(o) ==
    /\ tasks[o].step = "Params"
    /\ params' = IF o \in WithParams THEN params \cup {o} ELSE params
    /\ tasks' = [tasks EXCEPT ![o].step = "Execute"]
    /\ UNCHANGED <<orders, expired, matches, connected, checks, executions, givingUp, bounds>>

\* The match waits for the trader's next connection if there is none.
ExecuteMatch(o) ==
    /\ tasks[o].step = "Execute"
    /\ executions' =
            IF TraderOf[o] \in connected
            THEN executions \cup {[order |-> o, with |-> tasks[o].with,
                                   params |-> o \in WithParams, run |-> 0]}
            ELSE executions
    /\ tasks' = [tasks EXCEPT ![o].step = "Done"]
    /\ UNCHANGED <<tables, expired, connected, checks, givingUp, bounds>>

-----------------------------------------------------------------------------
(* Pending matches *)

Connect(t) ==
    /\ t \notin connected /\ connects < MaxConnects
    /\ connects' = connects + 1
    /\ connected' = connected \cup {t}
    /\ checks' = checks \cup {[trader |-> t, run |-> connects + 1]}
    /\ UNCHANGED <<tables, expired, tasks, executions, givingUp, crashes, failures>>

Disconnect(t) ==
    /\ t \in connected
    /\ connected' = connected \ {t}
    /\ UNCHANGED <<tables, expired, tasks, checks, executions, givingUp, bounds>>

Bug_DropsPendingMatch(c) ==
    /\ c \in checks
    /\ checks' = checks \ {c}
    /\ UNCHANGED <<tables, expired, tasks, connected, executions, givingUp, bounds>>

\* get_filled_with_from_matches fails without a match, and gives the Match the
\* order_id of the match's own order.
process_pending_match(c) ==
    /\ c \in checks
    /\ checks' = checks \ {c}
    /\ executions' = executions \cup
            {[order |-> x, with |-> x, params |-> x \in params, run |-> c.run] :
                x \in {y \in Orders : IsPendingMatch(c.trader, y) /\ HasMatch(y)}}
    /\ UNCHANGED <<tables, expired, tasks, connected, givingUp, bounds>>

Bug_ForgetsMatch(x, ms, os) ==
    /\ matches' = matches
    /\ set_order_state(x, os)

update_order_and_match(x, ms, os) ==
    /\ matches' = WithMatchState(x, ms)
    /\ set_order_state(x, os)

execute(e, ms, os) ==
    /\ e \in executions
    /\ executions' = executions \ {e}
    /\ update_order_and_match(e.order, ms, os)
    /\ UNCHANGED <<expired, params, tasks, connected, checks, givingUp, bounds>>

\* The matched order of a position to be closed has expired: two statements of
\* expired_positions.rs and liquidated_positions.rs.
GiveUp(t, x) ==
    /\ IsPendingMatch(t, x) /\ x \in expired
    /\ set_order_state(x, "Expired")
    /\ givingUp' = givingUp \cup {x}
    /\ UNCHANGED <<expired, matches, params, tasks, connected, checks, executions, bounds>>

GiveUpMatch(x) ==
    /\ x \in givingUp
    /\ matches' = WithMatchState(x, "Failed")
    /\ givingUp' = givingUp \ {x}
    /\ UNCHANGED <<orders, expired, params, tasks, connected, checks, executions, bounds>>

-----------------------------------------------------------------------------
(* Failures *)

\* A statement of the task fails, or the connection pool is exhausted.
DatabaseFails(x) ==
    /\ tasks[x].step \notin {"None", "Done"} /\ failures < MaxFailures
    /\ failures' = failures + 1
    /\ tasks' = [tasks EXCEPT ![x].step = "Done"]
    /\ UNCHANGED <<tables, expired, connected, checks, executions, givingUp, connects, crashes>>

Crash ==
    /\ crashes < MaxCrashes
    /\ crashes' = crashes + 1
    /\ tasks' = [x \in Orders |->
            IF tasks[x].step # "None" THEN [tasks[x] EXCEPT !.step = "Done"] ELSE tasks[x]]
    /\ connected' = {} /\ checks' = {} /\ executions' = {} /\ givingUp' = {}
    /\ UNCHANGED <<tables, expired, connects, failures>>

-----------------------------------------------------------------------------
Init ==
    /\ orders = [x \in Orders |->
            [state |-> "None", price |-> 0, quantity |-> 0, time |-> 0]]
    /\ matches = {} /\ params = {} /\ expired = {}
    /\ tasks = [x \in Orders |-> [step |-> "None", with |-> x, of |-> x]]
    /\ connected = {} /\ checks = {} /\ executions = {} /\ givingUp = {}
    /\ connects = 0 /\ crashes = 0 /\ failures = 0

process_new_market_order(o) ==
    \/ CheckMatched(o)
    \/ FindMatch(o)
    \/ FailUnmatched(o)
    \/ InsertMatch(o)
    \/ SetMatched(o)
    \/ InsertParams(o)
    \/ ExecuteMatch(o)

Next ==
    \/ \E x \in Orders, p \in Prices, q \in Quantities : post_order(x, p, q)
    \/ \E l \in LimitOrders : process_new_limit_order(l)
    \/ \E o \in MarketOrders : process_new_market_order(o)
    \/ \E t \in Traders : Connect(t) \/ Disconnect(t)
    \/ \E c \in checks : process_pending_match(c)
    \/ \E e \in executions : execute(e, "Filled", "Taken") \/ execute(e, "Failed", "Failed")
    \/ \E t \in Traders, x \in Orders : GiveUp(t, x)
    \/ \E x \in Orders : GiveUpMatch(x) \/ delete_order(x) \/ Expire(x) \/ DatabaseFails(x)
    \/ Crash

Spec == Init /\ [][Next]_vars

-----------------------------------------------------------------------------
(* Properties *)

\* Every variable has its type.
TypeOK ==
    /\ orders \in [Orders -> OrderRows]
    /\ expired \subseteq Orders
    /\ matches \subseteq MatchRows
    /\ params \subseteq MarketOrders
    /\ tasks \in [Orders -> Tasks]
    /\ connected \subseteq Traders
    /\ checks \subseteq [trader: Traders, run: Nat]
    /\ executions \subseteq Executions
    /\ givingUp \subseteq Orders
    /\ connects \in Nat /\ crashes \in Nat /\ failures \in Nat

\* An order that is Matched or Taken has its row in matches, whenever a task was
\* cut short: process_pending_match always finds what it executes.
MatchedHasMatch ==
    \A x \in Orders : orders[x].state \in {"Matched", "Taken"} => HasMatch(x)

\* The maker's row is never there without the trader's, with the same price and
\* quantity, although the rows are written by separate statements.
MakerMatchHasTaker ==
    \A m \in matches : m.order \in LimitOrders =>
        \E r \in matches : /\ r.order = m.with /\ r.with = m.order
                           /\ r.price = m.price /\ r.quantity = m.quantity

\* A matched market order of a connected trader is waiting for nothing: it is
\* being written, executed or about to be found by a check.  No match is lost
\* between is_connected and NodeEvent::Connected, nor in a restart, as long as the
\* trader has no other order and no statement failed.
NoLostMatch ==
    \A o \in MarketOrders :
        /\ orders[o].state = "Matched" /\ tasks[o].step = "Done"
        /\ TraderOf[o] \in connected
        /\ OfTrader(TraderOf[o]) = {o}
        /\ failures = 0
        => \/ \E e \in executions : e.order = o
           \/ \E c \in checks : c.trader = TraderOf[o]

\* get_best_bid_price, get_best_ask_price: the best price of the limit orders a
\* market order of direction d can take
Best(d, p) ==
    LET ps == {orders[l].price : l \in all_by_direction_and_type(opposite(d))}
    IN  p \in ps /\ \A r \in ps : IF d = "Long" THEN p <= r ELSE p >= r

\* A market order is matched at the best price the orderbook quotes at that
\* moment, with the oldest order of that price (sort_orders, match_order).
MatchedAtBestPrice ==
    [][\A o \in MarketOrders :
        (tasks[o].step = "Checked" /\ tasks'[o].step = "Match") =>
            LET l == tasks'[o].with
                d == DirectionOf[o]
            IN  /\ Best(d, orders[l].price)
                /\ \A x \in all_by_direction_and_type(opposite(d)) :
                        orders[x].price = orders[l].price => orders[l].time <= orders[x].time]_vars

\* What became of an order and of its match agree, unless the coordinator gave the
\* order up meanwhile (update_order_and_match).
OutcomesAgree ==
    \A o \in MarketOrders \ expired : \A m \in matches : m.order = o =>
        /\ orders[o].state = "Taken" => m.state = "Filled"
        /\ orders[o].state = "Failed" => m.state = "Failed"
        /\ orders[o].state = "Matched" => m.state = "Pending"
=============================================================================
