--------------------------- MODULE OrderbookProofs --------------------------
(***************************************************************************)
(* Proofs about Orderbook, for every set of orders and traders: whatever   *)
(* statement a task was cut short after, the rows that a later task relies *)
(* on are there.                                                           *)
(***************************************************************************)
EXTENDS Orderbook, FiniteSetTheorems, TLAPS

Writing == {"Match", "State", "Params", "Execute"}

\* The rows of a match, whatever became of it
Row(x, y, p, q) ==
    \E m \in matches : m.order = x /\ m.with = y /\ m.price = p /\ m.quantity = q

TakerRow(o, l) == Row(o, l, orders[l].price, orders[o].quantity)

\* The orders of a task that writes a match exist, so that their price and
\* quantity are fixed; the trader's row precedes the trader's state, which
\* precedes the maker's row.
TaskOK(o) ==
    /\ tasks[o].step # "None" => Exists(o)
    /\ tasks[o].step \in Writing =>
        /\ tasks[o].with \in LimitOrders /\ Exists(tasks[o].with)
        /\ tasks[o].of \in {o, tasks[o].with}
        /\ tasks[o].step \in {"Params", "Execute"} => tasks[o].of = tasks[o].with
        /\ tasks[o].step # "Match" \/ tasks[o].of # o => TakerRow(o, tasks[o].with)
        /\ tasks[o].step = "State" => HasMatch(tasks[o].of)

TasksOK == \A o \in MarketOrders : TaskOK(o)

ExecutionsOK == \A e \in executions : HasMatch(e.order)

IInv == TypeOK /\ TasksOK /\ ExecutionsOK /\ MatchedHasMatch /\ MakerMatchHasTaker

-----------------------------------------------------------------------------
\* A limit order found by match_order is an open limit order.
LEMMA MatchOrder ==
    ASSUME NEW o, NEW l \in match_order(o)
    PROVE  l \in LimitOrders /\ orders[l].state = "Open"
BY DEF match_order, all_by_direction_and_type

\* Setting the state of an order keeps the rest of its row.
LEMMA SetState ==
    ASSUME TypeOK, NEW x \in Orders, NEW s \in OrderStates, set_order_state(x, s)
    PROVE  /\ orders' \in [Orders -> OrderRows]
           /\ \A y \in Orders : /\ orders'[y].price = orders[y].price
                                /\ orders'[y].quantity = orders[y].quantity
                                /\ orders'[y].state = IF y = x THEN s ELSE orders[y].state
BY DEF TypeOK, OrderRows, set_order_state

\* Setting the state of an order's matches keeps the rest of every row.
LEMMA SetMatches ==
    ASSUME TypeOK, NEW x \in Orders, NEW s \in MatchStates, matches' = WithMatchState(x, s)
    PROVE  /\ matches' \subseteq MatchRows
           /\ \A y, z, p, q : Row(y, z, p, q)' <=> Row(y, z, p, q)
           /\ \A y : HasMatch(y)' <=> HasMatch(y)
<1>1. \A m \in matches' : \E r \in matches : /\ m.order = r.order /\ m.with = r.with
                                             /\ m.price = r.price /\ m.quantity = r.quantity
  BY DEF TypeOK, MatchRows, WithMatchState
<1>2. \A r \in matches : \E m \in matches' : /\ m.order = r.order /\ m.with = r.with
                                             /\ m.price = r.price /\ m.quantity = r.quantity
  <2> SUFFICES ASSUME NEW r \in matches
               PROVE  \E m \in matches' : /\ m.order = r.order /\ m.with = r.with
                                          /\ m.price = r.price /\ m.quantity = r.quantity
    OBVIOUS
  <2>1. CASE r.order # x
    BY <2>1 DEF WithMatchState
  <2>2. CASE r.order = x
    <3>1. [r EXCEPT !.state = s] \in matches'
      BY <2>2 DEF WithMatchState
    <3> QED BY <3>1 DEF TypeOK, MatchRows
  <2> QED BY <2>1, <2>2
<1>3. matches' \subseteq MatchRows
  BY DEF TypeOK, MatchRows, MatchStates, WithMatchState
<1> QED BY <1>1, <1>2, <1>3 DEF Row, HasMatch

\* What no step undoes: an order that exists keeps its price and quantity, and a
\* match stays
Kept ==
    /\ \A y \in Orders : Exists(y) => /\ Exists(y)'
                                       /\ orders'[y].price = orders[y].price
                                       /\ orders'[y].quantity = orders[y].quantity
    /\ \A y, z, p, q : Row(y, z, p, q) => Row(y, z, p, q)'
    /\ \A y : HasMatch(y) => HasMatch(y)'

\* Then a task that does not move, or that ends, keeps its invariant.
LEMMA TaskKept ==
    ASSUME IInv, Kept, NEW o \in MarketOrders,
           tasks'[o] = tasks[o] \/ (tasks'[o].step = "Done" /\ tasks[o].step # "None")
    PROVE  TaskOK(o)'
<1>1. o \in Orders /\ (tasks[o].step \in Writing => tasks[o].with \in Orders)
  BY DEF Orders, IInv, TasksOK, TaskOK
<1>2. TaskOK(o)
  BY DEF IInv, TasksOK
<1>3. CASE tasks'[o] = tasks[o]
  <2>1. tasks[o].step # "None" => Exists(o)'
    BY <1>1, <1>2 DEF Kept, TaskOK
  <2>2. ASSUME tasks[o].step \in Writing
        PROVE  /\ Exists(tasks[o].with)'
               /\ tasks[o].step # "Match" \/ tasks[o].of # o => TakerRow(o, tasks[o].with)'
               /\ tasks[o].step = "State" => HasMatch(tasks[o].of)'
    <3> DEFINE l == tasks[o].with
    <3>1. Exists(o) /\ l \in Orders /\ Exists(l)
      BY <1>1, <1>2, <2>2 DEF TaskOK, Writing
    <3>2. Row(o, l, orders[l].price, orders[o].quantity) => TakerRow(o, l)'
      BY <3>1, <1>1, <1>3 DEF Kept, TakerRow
    <3> QED BY <1>2, <1>3, <2>2, <3>1, <3>2 DEF Kept, TaskOK, TakerRow
  <2> QED BY <1>2, <1>3, <2>1, <2>2 DEF TaskOK
<1>4. CASE tasks'[o].step = "Done" /\ tasks[o].step # "None"
  BY <1>1, <1>2, <1>4 DEF Kept, TaskOK, Writing
<1> QED BY <1>3, <1>4

\* The tables do not change.
LEMMA TablesUnchanged ==
    ASSUME IInv, UNCHANGED tables
    PROVE  Kept /\ MatchedHasMatch' /\ MakerMatchHasTaker'
BY DEF IInv, tables, Kept, Exists, Row, HasMatch, MatchedHasMatch, MakerMatchHasTaker

\* An order changes its state, to Matched or Taken only if it has a match.
LEMMA StateSet ==
    ASSUME IInv, UNCHANGED matches, NEW x \in Orders, NEW s \in OrderStates,
           set_order_state(x, s), s \in {"Matched", "Taken"} => HasMatch(x)
    PROVE  Kept /\ MatchedHasMatch' /\ MakerMatchHasTaker' /\ orders' \in [Orders -> OrderRows]
<1>1. TypeOK /\ MatchedHasMatch /\ MakerMatchHasTaker
  BY DEF IInv
<1>2. /\ orders' \in [Orders -> OrderRows]
      /\ \A y \in Orders : /\ orders'[y].price = orders[y].price
                            /\ orders'[y].quantity = orders[y].quantity
                            /\ orders'[y].state = IF y = x THEN s ELSE orders[y].state
  BY <1>1, SetState
<1>3. (\A y : HasMatch(y)' <=> HasMatch(y)) /\ (\A y, z, p, q : Row(y, z, p, q)' <=> Row(y, z, p, q))
  BY DEF HasMatch, Row
<1>4. Kept
  BY <1>2, <1>3 DEF Kept, Exists, OrderStates
<1>5. MatchedHasMatch'
  BY <1>1, <1>2, <1>3 DEF MatchedHasMatch
<1> QED BY <1>1, <1>2, <1>4, <1>5 DEF MakerMatchHasTaker

\* The matches of an order change their state.
LEMMA MatchesSet ==
    ASSUME IInv, NEW x \in Orders, NEW s \in MatchStates, matches' = WithMatchState(x, s)
    PROVE  /\ matches' \subseteq MatchRows
           /\ \A y, z, p, q : Row(y, z, p, q)' <=> Row(y, z, p, q)
           /\ \A y : HasMatch(y)' <=> HasMatch(y)
           /\ MakerMatchHasTaker'
<1>1. TypeOK /\ MakerMatchHasTaker
  BY DEF IInv
<1>2. /\ matches' \subseteq MatchRows
      /\ \A y, z, p, q : Row(y, z, p, q)' <=> Row(y, z, p, q)
      /\ \A y : HasMatch(y)' <=> HasMatch(y)
  BY <1>1, SetMatches
<1>3. ASSUME NEW m \in matches', m.order \in LimitOrders
      PROVE  Row(m.with, m.order, m.price, m.quantity)'
  <2>1. Row(m.order, m.with, m.price, m.quantity)'
    BY <1>3 DEF Row
  <2>2. PICK r \in matches : /\ r.order = m.order /\ r.with = m.with
                             /\ r.price = m.price /\ r.quantity = m.quantity
    BY <1>2, <2>1 DEF Row
  <2>3. Row(m.with, m.order, m.price, m.quantity)
    BY <1>1, <1>3, <2>2 DEF MakerMatchHasTaker, Row
  <2> QED BY <1>2, <2>3
<1> QED BY <1>2, <1>3 DEF MakerMatchHasTaker, Row

-----------------------------------------------------------------------------
\* Tasks that do not move, or end, and executions of matched orders: what is left
\* to show when the tables are settled
LEMMA Settled ==
    ASSUME IInv, TypeOK', Kept, MatchedHasMatch', MakerMatchHasTaker',
           \A o \in MarketOrders :
                \/ tasks'[o] = tasks[o]
                \/ tasks'[o].step = "Done" /\ tasks[o].step # "None",
           \A e \in executions' : e \in executions \/ HasMatch(e.order)
    PROVE  IInv'
<1>1. TasksOK'
  BY TaskKept DEF TasksOK
<1>2. ExecutionsOK'
  BY DEF IInv, ExecutionsOK, Kept
<1> QED BY <1>1, <1>2 DEF IInv

\* Steps that change no table and move no task
LEMMA QuietSteps ==
    ASSUME IInv,
           \/ \E x \in Orders : Expire(x)
           \/ \E t \in Traders : Connect(t) \/ Disconnect(t)
           \/ UNCHANGED vars
    PROVE  IInv'
<1>1. UNCHANGED <<tables, tasks, executions>>
  BY DEF Expire, Connect, Disconnect, vars
<1>2. TypeOK'
  BY DEF IInv, TypeOK, tables, bounds, vars, Expire, Connect, Disconnect
<1> QED BY <1>1, <1>2, TablesUnchanged, Settled

\* process_pending_match executes only what has a match.
LEMMA PendingMatch ==
    ASSUME IInv, NEW c \in checks, process_pending_match(c)
    PROVE  IInv'
<1>1. UNCHANGED <<tables, tasks>> /\ \A e \in executions' : e \in executions \/ HasMatch(e.order)
  BY DEF process_pending_match
<1>2. c.run \in Nat
  BY DEF IInv, TypeOK
<1>3. ASSUME NEW e \in executions' PROVE e \in Executions
  <2>1. CASE e \in executions
    BY <2>1 DEF IInv, TypeOK
  <2>2. CASE e \notin executions
    <3>1. PICK x \in Orders :
            e = [order |-> x, with |-> x, params |-> x \in params, run |-> c.run]
      BY <2>2 DEF process_pending_match
    <3>2. (x \in params) \in BOOLEAN
      OBVIOUS
    <3> QED BY <1>2, <3>1, <3>2 DEF Executions
  <2> QED BY <2>1, <2>2
<1>4. TypeOK'
  BY <1>3 DEF IInv, TypeOK, tables, bounds, process_pending_match
<1> QED BY <1>1, <1>4, TablesUnchanged, Settled

\* A task ends early, or all tasks do.
LEMMA Failures ==
    ASSUME IInv, Crash \/ \E x \in Orders : DatabaseFails(x)
    PROVE  IInv'
<1>1. UNCHANGED tables /\ executions' \subseteq executions
  BY DEF Crash, DatabaseFails
<1>2. tasks' \in [Orders -> Tasks]
  <2>1. CASE Crash
    <3>1. ASSUME NEW x \in Orders PROVE tasks'[x] \in Tasks
      BY <2>1 DEF IInv, TypeOK, Tasks, Steps, Crash
    <3> QED BY <2>1, <3>1 DEF Crash
  <2>2. CASE \E x \in Orders : DatabaseFails(x)
    BY <2>2 DEF IInv, TypeOK, Tasks, Steps, DatabaseFails
  <2> QED BY <2>1, <2>2
<1>3. TypeOK'
  BY <1>2 DEF IInv, TypeOK, tables, Crash, DatabaseFails
<1>4. \A o \in Orders : \/ tasks'[o] = tasks[o]
                        \/ tasks'[o].step = "Done" /\ tasks[o].step # "None"
  BY DEF IInv, TypeOK, Tasks, Steps, Crash, DatabaseFails
<1> QED BY <1>1, <1>3, <1>4, TablesUnchanged, Settled DEF Orders

\* An order changes its state, and its task may end.
LEMMA StateSteps ==
    ASSUME IInv,
           \/ \E x \in Orders : delete_order(x)
           \/ \E t \in Traders, x \in Orders : GiveUp(t, x)
           \/ \E o \in MarketOrders : FailUnmatched(o)
    PROVE  IInv'
<1>1. PICK x \in Orders : delete_order(x) \/ (\E t \in Traders : GiveUp(t, x)) \/ FailUnmatched(x)
  BY DEF Orders
<1>2. PICK s \in OrderStates \ {"Matched", "Taken"} : set_order_state(x, s)
  BY <1>1 DEF delete_order, GiveUp, FailUnmatched, OrderStates
<1>3. UNCHANGED <<matches, executions>>
  BY <1>1 DEF delete_order, GiveUp, FailUnmatched
<1>4. Kept /\ MatchedHasMatch' /\ MakerMatchHasTaker' /\ orders' \in [Orders -> OrderRows]
  BY <1>2, <1>3, StateSet
<1>5. tasks' \in [Orders -> Tasks]
  BY <1>1 DEF IInv, TypeOK, Tasks, Steps, delete_order, GiveUp, FailUnmatched
<1>6. TypeOK'
  BY <1>1, <1>3, <1>4, <1>5 DEF IInv, TypeOK, bounds, delete_order, GiveUp, FailUnmatched
<1>7. \A o \in Orders : \/ tasks'[o] = tasks[o]
                        \/ tasks'[o].step = "Done" /\ tasks[o].step # "None"
  BY <1>1 DEF IInv, TypeOK, Tasks, Steps, delete_order, GiveUp, FailUnmatched
<1> QED BY <1>3, <1>4, <1>6, <1>7, Settled DEF Orders

\* The second statement of giving up
LEMMA GiveUpMatchOK ==
    ASSUME IInv, NEW x \in Orders, GiveUpMatch(x)
    PROVE  IInv'
<1>1. matches' = WithMatchState(x, "Failed") /\ UNCHANGED <<orders, tasks>> /\ UNCHANGED executions
  BY DEF GiveUpMatch
<1>2. /\ matches' \subseteq MatchRows
      /\ \A y, z, p, q : Row(y, z, p, q)' <=> Row(y, z, p, q)
      /\ \A y : HasMatch(y)' <=> HasMatch(y)
      /\ MakerMatchHasTaker'
  BY <1>1, MatchesSet DEF MatchStates
<1>3. Kept /\ MatchedHasMatch'
  BY <1>1, <1>2 DEF IInv, Kept, Exists, MatchedHasMatch
<1>4. TypeOK'
  BY <1>1, <1>2 DEF IInv, TypeOK, bounds, GiveUpMatch
<1> QED BY <1>1, <1>2, <1>3, <1>4, Settled

\* An execution ends: its order has a match, because it had one when it began.
LEMMA ExecuteOK ==
    ASSUME IInv, NEW e \in executions, execute(e, "Filled", "Taken") \/ execute(e, "Failed", "Failed")
    PROVE  IInv'
<1>1. e.order \in Orders /\ HasMatch(e.order)
  BY DEF IInv, TypeOK, Executions, ExecutionsOK
<1>2. PICK ms \in MatchStates, os \in OrderStates : execute(e, ms, os)
  BY DEF MatchStates, OrderStates
<1>3. /\ matches' = WithMatchState(e.order, ms) /\ set_order_state(e.order, os)
      /\ UNCHANGED tasks /\ executions' \subseteq executions
  BY <1>2 DEF execute, update_order_and_match
<1>4. /\ matches' \subseteq MatchRows
      /\ \A y, z, p, q : Row(y, z, p, q)' <=> Row(y, z, p, q)
      /\ \A y : HasMatch(y)' <=> HasMatch(y)
      /\ MakerMatchHasTaker'
  BY <1>1, <1>3, MatchesSet
<1>5. /\ orders' \in [Orders -> OrderRows]
      /\ \A y \in Orders : /\ orders'[y].price = orders[y].price
                            /\ orders'[y].quantity = orders[y].quantity
                            /\ orders'[y].state = IF y = e.order THEN os ELSE orders[y].state
  BY <1>1, <1>3, SetState DEF IInv
<1>6. Kept
  BY <1>4, <1>5 DEF Kept, Exists, OrderStates
<1>7. MatchedHasMatch'
  BY <1>1, <1>4, <1>5 DEF IInv, MatchedHasMatch
<1>8. TypeOK'
  BY <1>2, <1>3, <1>4, <1>5 DEF IInv, TypeOK, bounds, execute
<1> QED BY <1>3, <1>4, <1>6, <1>7, <1>8, Settled

\* A market order's task moves while the tables are settled: its own invariant is
\* what is left to show.
LEMMA Moved ==
    ASSUME IInv, TypeOK', Kept, MatchedHasMatch', MakerMatchHasTaker', NEW o \in MarketOrders,
           \A x \in MarketOrders \ {o} : tasks'[x] = tasks[x],
           executions' = executions, TaskOK(o)'
    PROVE  IInv'
<1>1. TasksOK'
  BY TaskKept DEF TasksOK
<1>2. ExecutionsOK'
  BY DEF IInv, ExecutionsOK, Kept
<1> QED BY <1>1, <1>2 DEF IInv

\* The check and the search for a match
LEMMA SearchOK ==
    ASSUME IInv, NEW o \in MarketOrders, CheckMatched(o) \/ FindMatch(o)
    PROVE  IInv'
<1>1. UNCHANGED tables /\ UNCHANGED executions /\ o \in Orders
  BY DEF CheckMatched, FindMatch, Orders
<1>2. Kept /\ MatchedHasMatch' /\ MakerMatchHasTaker'
  BY <1>1, TablesUnchanged
<1>3. /\ tasks'[o].step \in {"Checked", "Done", "Unmatched", "Match"}
      /\ tasks' \in [Orders -> Tasks]
      /\ \A x \in Orders \ {o} : tasks'[x] = tasks[x]
      /\ tasks'[o].step = "Match" =>
            /\ tasks'[o].of = o
            /\ \E l \in LimitOrders : tasks'[o].with = l /\ Exists(l)
  <2>1. CASE CheckMatched(o)
    BY <1>1, <2>1 DEF IInv, TypeOK, Tasks, Steps, CheckMatched
  <2>2. CASE FindMatch(o) /\ match_order(o) = {}
    BY <1>1, <2>2 DEF IInv, TypeOK, Tasks, Steps, FindMatch
  <2>3. CASE FindMatch(o) /\ match_order(o) # {}
    <3>1. PICK l \in match_order(o) :
            tasks' = [tasks EXCEPT ![o] = [step |-> "Match", with |-> l, of |-> o]]
      BY <2>3 DEF FindMatch
    <3>2. l \in LimitOrders /\ l \in Orders /\ Exists(l)
      BY MatchOrder DEF Orders, Exists
    <3> QED BY <1>1, <3>1, <3>2 DEF IInv, TypeOK, Tasks, Steps
  <2> QED BY <2>1, <2>2, <2>3
<1>4. tasks[o].step # "None"
  BY DEF CheckMatched, FindMatch
<1>5. TypeOK'
  BY <1>1, <1>3 DEF IInv, TypeOK, tables, bounds, CheckMatched, FindMatch
<1>6. TaskOK(o)'
  <2>1. Exists(o)'
    BY <1>1, <1>2, <1>4 DEF IInv, TasksOK, TaskOK, Kept
  <2>2. CASE tasks'[o].step = "Match"
    <3>1. PICK l \in LimitOrders : tasks'[o].with = l /\ Exists(l)
      BY <1>3, <2>2
    <3>2. Exists(l)'
      BY <1>2, <3>1 DEF Kept, Orders
    <3> QED BY <1>3, <2>1, <2>2, <3>1, <3>2 DEF TaskOK, Exists
  <2>3. CASE tasks'[o].step # "Match"
    BY <1>3, <2>1, <2>3 DEF TaskOK, Writing
  <2> QED BY <2>2, <2>3
<1> QED BY <1>1, <1>2, <1>3, <1>5, <1>6, Moved DEF Orders

\* matches::insert writes the row that the next statements rely on.
LEMMA InsertOK ==
    ASSUME IInv, NEW o \in MarketOrders, InsertMatch(o)
    PROVE  IInv'
<1>1. PICK x, l : x = tasks[o].of /\ l = tasks[o].with
  OBVIOUS
<1> DEFINE m == [order |-> x, with |-> IF x = o THEN l ELSE o, price |-> orders[l].price,
                 quantity |-> orders[o].quantity, state |-> "Pending"]
<1>2. /\ tasks[o].step = "Match" /\ matches' = matches \cup {m}
      /\ tasks' = [tasks EXCEPT ![o].step = "State"]
      /\ UNCHANGED <<orders, executions>>
  BY <1>1 DEF InsertMatch
<1>3. /\ o \in Orders /\ l \in LimitOrders /\ l \in Orders /\ x \in {o, l} /\ o # l
      /\ Exists(o) /\ Exists(l)
      /\ x # o => TakerRow(o, l)
  BY <1>1, <1>2, OrdersAssumption DEF IInv, TasksOK, TaskOK, Writing, Orders
<1>4. /\ m \in matches' /\ m.order = x /\ m.with = IF x = o THEN l ELSE o
      /\ m.price = orders'[l].price /\ m.quantity = orders'[o].quantity
  BY <1>2
<1>5. m \in MatchRows
  BY <1>3 DEF IInv, TypeOK, OrderRows, MatchRows, MatchStates
<1>6. tasks' \in [Orders -> Tasks]
  BY <1>2, <1>3 DEF IInv, TypeOK, Tasks, Steps
<1>7. TypeOK'
  BY <1>2, <1>5, <1>6 DEF IInv, TypeOK, bounds, InsertMatch
<1>8. Kept
  BY <1>2 DEF Kept, Exists, Row, HasMatch
<1>9. MatchedHasMatch'
  BY <1>2, <1>8 DEF IInv, MatchedHasMatch, Kept
<1>10. TakerRow(o, l)'
  <2>1. CASE x = o
    <3> HIDE DEF m
    <3> QED BY <1>4, <2>1 DEF TakerRow, Row
  <2>2. CASE x # o
    BY <1>2, <1>3, <1>8, <2>2 DEF TakerRow, Kept
  <2> QED BY <2>1, <2>2
<1>11. MakerMatchHasTaker'
  <2> SUFFICES ASSUME NEW r \in matches', r.order \in LimitOrders
               PROVE  Row(r.with, r.order, r.price, r.quantity)'
    BY DEF MakerMatchHasTaker, Row
  <2>1. CASE r \in matches
    <3>1. Row(r.with, r.order, r.price, r.quantity)
      BY <2>1 DEF IInv, MakerMatchHasTaker, Row
    <3> QED BY <1>8, <3>1 DEF Kept
  <2>2. CASE r = m
    <3>1. x = l
      BY <1>3, <2>2, OrdersAssumption
    <3> QED BY <1>2, <1>3, <1>10, <2>2, <3>1 DEF TakerRow
  <2> QED BY <1>2, <2>1, <2>2
<1>12. tasks'[o].step = "State" /\ tasks'[o].with = l /\ tasks'[o].of = x
  BY <1>1, <1>2, <1>3 DEF IInv, TypeOK, Tasks
<1>13. HasMatch(x)'
  <2> HIDE DEF m
  <2> QED BY <1>4 DEF HasMatch
<1>14. TaskOK(o)'
  BY <1>2, <1>3, <1>8, <1>10, <1>12, <1>13 DEF TaskOK, Writing, Kept
<1> QED BY <1>2, <1>3, <1>7, <1>8, <1>9, <1>11, <1>14, Moved DEF IInv, TypeOK, Orders

\* An order is set to Matched once its row is there.
LEMMA SetMatchedOK ==
    ASSUME IInv, NEW o \in MarketOrders, SetMatched(o)
    PROVE  IInv'
<1>1. PICK x, l : x = tasks[o].of /\ l = tasks[o].with
  OBVIOUS
<1>2. /\ tasks[o].step = "State" /\ set_order_state(x, "Matched")
      /\ tasks' = [tasks EXCEPT ![o].step = IF x = o THEN "Match" ELSE "Params", ![o].of = l]
      /\ UNCHANGED <<matches, executions>>
  BY <1>1 DEF SetMatched
<1>3. /\ o \in Orders /\ l \in LimitOrders /\ l \in Orders /\ x \in {o, l} /\ o # l
      /\ Exists(o) /\ Exists(l) /\ TakerRow(o, l) /\ HasMatch(x)
  BY <1>1, <1>2, OrdersAssumption DEF IInv, TasksOK, TaskOK, Writing, Orders
<1>4. Kept /\ MatchedHasMatch' /\ MakerMatchHasTaker' /\ orders' \in [Orders -> OrderRows]
  BY <1>2, <1>3, StateSet DEF OrderStates
<1>5. tasks' \in [Orders -> Tasks] /\ \A y \in Orders \ {o} : tasks'[y] = tasks[y]
  <2>1. PICK t1 : t1 = [tasks EXCEPT ![o].step = IF x = o THEN "Match" ELSE "Params"]
    OBVIOUS
  <2>2. tasks' = [t1 EXCEPT ![o].of = l]
    BY <1>2, <2>1
  <2>3. t1 \in [Orders -> Tasks] /\ \A y \in Orders \ {o} : t1[y] = tasks[y]
    BY <1>3, <2>1 DEF IInv, TypeOK, Tasks, Steps
  <2> QED BY <1>3, <2>2, <2>3 DEF Tasks
<1>6. tasks'[o].step \in {"Match", "Params"} /\ tasks'[o].with = l /\ tasks'[o].of = l
  BY <1>1, <1>2, <1>3 DEF IInv, TypeOK, Tasks
<1>7. TypeOK'
  BY <1>2, <1>4, <1>5 DEF IInv, TypeOK, bounds, SetMatched
<1>8. Exists(o)' /\ Exists(l)' /\ TakerRow(o, l)'
  BY <1>3, <1>4 DEF Kept, TakerRow
<1>9. TaskOK(o)'
  BY <1>3, <1>6, <1>8 DEF TaskOK
<1> QED BY <1>2, <1>4, <1>5, <1>7, <1>9, Moved DEF Orders

\* The channel_opening_params are inserted once both orders are Matched.
LEMMA InsertParamsOK ==
    ASSUME IInv, NEW o \in MarketOrders, InsertParams(o)
    PROVE  IInv'
<1>1. PICK l : l = tasks[o].with
  OBVIOUS
<1>2. /\ tasks[o].step = "Params" /\ tasks' = [tasks EXCEPT ![o].step = "Execute"]
      /\ UNCHANGED <<orders, matches>> /\ UNCHANGED executions
      /\ params' \subseteq params \cup {o}
  BY DEF InsertParams
<1>3. /\ o \in Orders /\ l \in LimitOrders /\ l \in Orders /\ tasks[o].of = l /\ o # l
      /\ Exists(o) /\ Exists(l) /\ TakerRow(o, l)
  BY <1>1, <1>2, OrdersAssumption DEF IInv, TasksOK, TaskOK, Writing, Orders
<1>4. Kept /\ MatchedHasMatch' /\ MakerMatchHasTaker'
  BY <1>2 DEF IInv, Kept, Exists, Row, HasMatch, MatchedHasMatch, MakerMatchHasTaker
<1>5. tasks' \in [Orders -> Tasks] /\ \A y \in Orders \ {o} : tasks'[y] = tasks[y]
  BY <1>2, <1>3 DEF IInv, TypeOK, Tasks, Steps
<1>6. tasks'[o].step = "Execute" /\ tasks'[o].with = l /\ tasks'[o].of = l
  BY <1>1, <1>2, <1>3 DEF IInv, TypeOK, Tasks
<1>7. TypeOK'
  BY <1>2, <1>5 DEF IInv, TypeOK, bounds, InsertParams
<1>8. Exists(o)' /\ Exists(l)' /\ TakerRow(o, l)'
  BY <1>2, <1>3, <1>4 DEF Kept, TakerRow
<1>9. TaskOK(o)'
  BY <1>3, <1>6, <1>8 DEF TaskOK
<1> QED BY <1>2, <1>4, <1>5, <1>7, <1>9, Moved DEF Orders

\* The task ends with the execution of an order that has its match.
LEMMA ExecuteMatchOK ==
    ASSUME IInv, NEW o \in MarketOrders, ExecuteMatch(o)
    PROVE  IInv'
<1>1. /\ tasks[o].step = "Execute" /\ tasks' = [tasks EXCEPT ![o].step = "Done"]
      /\ UNCHANGED tables
  BY DEF ExecuteMatch
<1>2. o \in Orders /\ tasks[o].with \in Orders /\ HasMatch(o)
  BY <1>1, OrdersAssumption
     DEF IInv, TasksOK, TaskOK, Writing, Orders, TakerRow, Row, HasMatch
<1>3. /\ tasks' \in [Orders -> Tasks] /\ tasks'[o].step = "Done"
      /\ \A y \in Orders \ {o} : tasks'[y] = tasks[y]
  BY <1>1, <1>2 DEF IInv, TypeOK, Tasks, Steps
<1>4. ASSUME NEW e \in executions' PROVE e \in Executions /\ (e \in executions \/ e.order = o)
  <2>1. CASE e \in executions
    BY <2>1 DEF IInv, TypeOK
  <2>2. CASE e \notin executions
    <3>1. e = [order |-> o, with |-> tasks[o].with, params |-> o \in WithParams, run |-> 0]
      BY <2>2 DEF ExecuteMatch
    <3>2. (o \in WithParams) \in BOOLEAN
      OBVIOUS
    <3> QED BY <1>2, <3>1, <3>2 DEF Executions
  <2> QED BY <2>1, <2>2
<1>5. TypeOK'
  BY <1>1, <1>3, <1>4 DEF IInv, TypeOK, tables, bounds, ExecuteMatch
<1> QED BY <1>1, <1>2, <1>3, <1>4, <1>5, TablesUnchanged, Settled DEF Orders

\* A new order does not change what tasks know of the orders that exist.
LEMMA PostOK ==
    ASSUME IInv, NEW x \in Orders, NEW p \in Prices, NEW q \in Quantities, post_order(x, p, q)
    PROVE  IInv'
<1> DEFINE r == [state |-> "Open", price |-> IF x \in LimitOrders THEN p ELSE 0, quantity |-> q,
                 time |-> Posted + 1]
<1>1. /\ ~ Exists(x) /\ orders' = [orders EXCEPT ![x] = r]
      /\ tasks' = [tasks EXCEPT ![x].step = "Posted"]
      /\ UNCHANGED <<matches, executions>>
  BY DEF post_order
<1>2. r \in OrderRows
  <2>1. Posted \in Nat
    BY OrdersAssumption, FS_Subset, FS_CardinalityType DEF Posted
  <2> QED BY <2>1, PricesAssumption DEF OrderRows, OrderStates
<1>3. orders' \in [Orders -> OrderRows] /\ orders'[x] = r /\ r.state = "Open"
      /\ \A y \in Orders \ {x} : orders'[y] = orders[y]
  BY <1>1, <1>2 DEF IInv, TypeOK
<1>4. Kept /\ MatchedHasMatch' /\ MakerMatchHasTaker'
  BY <1>1, <1>3 DEF IInv, Kept, Exists, Row, HasMatch, MatchedHasMatch, MakerMatchHasTaker
<1>5. /\ tasks' \in [Orders -> Tasks] /\ tasks'[x].step = "Posted"
      /\ \A y \in Orders \ {x} : tasks'[y] = tasks[y]
  BY <1>1 DEF IInv, TypeOK, Tasks, Steps
<1>6. TypeOK'
  BY <1>1, <1>3, <1>5 DEF IInv, TypeOK, bounds, post_order
<1>7. CASE x \in MarketOrders
  <2>1. TaskOK(x)'
    BY <1>3, <1>5 DEF TaskOK, Writing, Exists
  <2> QED BY <1>1, <1>4, <1>5, <1>6, <1>7, <2>1, Moved DEF Orders
<1>8. CASE x \notin MarketOrders
  BY <1>1, <1>4, <1>5, <1>6, <1>8, Settled DEF Orders
<1> QED BY <1>7, <1>8

\* Limit orders expire.
LEMMA LimitOK ==
    ASSUME IInv, NEW l \in LimitOrders, process_new_limit_order(l)
    PROVE  IInv'
<1>1. /\ tasks' = [tasks EXCEPT ![l].step = "Done"] /\ UNCHANGED <<matches, executions>>
      /\ l \in Orders /\ l \notin MarketOrders
  BY OrdersAssumption DEF process_new_limit_order, Orders
<1>2. /\ orders' \in [Orders -> OrderRows]
      /\ \A y \in Orders : /\ orders'[y].price = orders[y].price
                            /\ orders'[y].quantity = orders[y].quantity
                            /\ \/ orders'[y].state = orders[y].state
                               \/ orders'[y].state = "Expired" /\ orders[y].state = "Open"
  <2>1. ASSUME NEW y \in Orders
        PROVE  /\ orders'[y] \in OrderRows
               /\ orders'[y].price = orders[y].price
               /\ orders'[y].quantity = orders[y].quantity
               /\ \/ orders'[y].state = orders[y].state
                  \/ orders'[y].state = "Expired" /\ orders[y].state = "Open"
    BY DEF IInv, TypeOK, OrderRows, OrderStates, process_new_limit_order
  <2> QED BY <2>1 DEF process_new_limit_order
<1>3. Kept /\ MatchedHasMatch' /\ MakerMatchHasTaker'
  BY <1>1, <1>2 DEF IInv, Kept, Exists, Row, HasMatch, MatchedHasMatch, MakerMatchHasTaker
<1>4. tasks' \in [Orders -> Tasks] /\ \A y \in MarketOrders : tasks'[y] = tasks[y]
  BY <1>1 DEF IInv, TypeOK, Tasks, Steps, Orders
<1>5. TypeOK'
  BY <1>1, <1>2, <1>4 DEF IInv, TypeOK, bounds, process_new_limit_order
<1> QED BY <1>1, <1>3, <1>4, <1>5, Settled

\* Every step preserves the invariant.
LEMMA NextOK ==
    ASSUME IInv, [Next]_vars
    PROVE  IInv'
<1>1. CASE \E o \in MarketOrders : process_new_market_order(o)
  BY <1>1, SearchOK, StateSteps, InsertOK, SetMatchedOK, InsertParamsOK, ExecuteMatchOK
     DEF process_new_market_order
<1>2. CASE ~ \E o \in MarketOrders : process_new_market_order(o)
  BY <1>2, QuietSteps, PendingMatch, Failures, StateSteps, GiveUpMatchOK, ExecuteOK, PostOK,
     LimitOK DEF Next
<1> QED BY <1>1, <1>2

\* The inductive invariant holds in every reachable state.
THEOREM Invariance == Spec => []IInv
<1>1. Init => IInv
  <2> SUFFICES ASSUME Init PROVE IInv
    OBVIOUS
  <2>1. TypeOK
    BY DEF Init, TypeOK, OrderRows, OrderStates, Tasks, Steps
  <2>2. TasksOK
    BY DEF Init, TasksOK, TaskOK, Writing, Orders
  <2> QED BY <2>1, <2>2 DEF Init, IInv, ExecutionsOK, MatchedHasMatch, MakerMatchHasTaker
<1>2. IInv /\ [Next]_vars => IInv'
  BY NextOK
<1> QED BY <1>1, <1>2, PTL DEF Spec

\* Every row of the tables has its type, whatever task is cut short.
THEOREM TypeCorrect == Spec => []TypeOK
<1>1. IInv => TypeOK
  BY DEF IInv
<1> QED BY <1>1, Invariance, PTL

\* process_pending_match finds a match for every order that is Matched, for any
\* number of orders, restarts and database failures.
THEOREM PendingMatchExists == Spec => []MatchedHasMatch
<1>1. IInv => MatchedHasMatch
  BY DEF IInv
<1> QED BY <1>1, Invariance, PTL

\* A maker's match always has its counterpart, with the same price and quantity.
THEOREM MatchesMirrored == Spec => []MakerMatchHasTaker
<1>1. IInv => MakerMatchHasTaker
  BY DEF IInv
<1> QED BY <1>1, Invariance, PTL

-----------------------------------------------------------------------------
(* What becomes of a market order: the rows of an order and of its matches    *)
(* agree, and no match is lost                                                *)

Rows(o) == {m \in matches : m.order = o}
Runs(o) == {e \in executions : e.order = o}

\* The task of the order has not set it to Matched.
Early(o) == \/ tasks[o].step \in {"None", "Posted", "Checked", "Unmatched"}
            \/ tasks[o].step \in {"Match", "State"} /\ tasks[o].of = o

\* Until then nobody else works on the order.
FreshOK(o) ==
    Early(o) => /\ orders[o].state \notin {"Matched", "Taken", "Failed"}
                /\ Runs(o) = {} /\ o \notin givingUp
                /\ tasks[o].step # "State" => Rows(o) = {}
                /\ \A m \in Rows(o) : m.state = "Pending"

AgreeOK(o) ==
    o \notin expired => \A m \in Rows(o) :
        /\ orders[o].state = "Taken" => m.state = "Filled"
        /\ orders[o].state = "Failed" => m.state = "Failed"
        /\ orders[o].state = "Matched" => m.state = "Pending"

\* Somebody will see the matched order: its own task, an execution, or a check.
WaitOK(o) ==
    /\ orders[o].state = "Matched" /\ TraderOf[o] \in connected
    /\ OfTrader(TraderOf[o]) = {o} /\ failures = 0
    => \/ tasks[o].step \in Writing
       \/ Runs(o) # {}
       \/ \E c \in checks : c.trader = TraderOf[o]

OrderOK(o) == FreshOK(o) /\ AgreeOK(o) /\ WaitOK(o)
OInv == givingUp \subseteq expired /\ \A o \in MarketOrders : OrderOK(o)

\* A step that writes neither the matches nor the outcome of an order
LEMMA Untouched ==
    ASSUME NEW o \in MarketOrders, OrderOK(o), Rows(o)' = Rows(o),
           \/ tasks'[o] = tasks[o]
           \/ tasks'[o].step = "Done" /\ (failures' # 0 \/ connected' = {}),
           orders'[o].state \in {orders[o].state, "Open", "Deleted", "Expired"},
           Runs(o)' = Runs(o) \/ (Runs(o)' = {} /\ connected' = {}),
           o \in givingUp' => o \in givingUp \/ ~ Early(o),
           expired \subseteq expired', failures' = 0 => failures = 0,
           connected' = {} \/ checks \subseteq checks',
           TraderOf[o] \in connected' => \/ TraderOf[o] \in connected
                                         \/ \E c \in checks' : c.trader = TraderOf[o]
    PROVE  OrderOK(o)'
<1>1. Early(o)' => Early(o) /\ tasks'[o] = tasks[o]
  BY DEF Early
<1>2. FreshOK(o)'
  BY <1>1 DEF OrderOK, FreshOK
<1>3. AgreeOK(o)'
  BY DEF OrderOK, AgreeOK
<1>4. WaitOK(o)'
  BY DEF OrderOK, WaitOK, Writing, OfTrader
<1> QED BY <1>2, <1>3, <1>4 DEF OrderOK

\* The other tasks, connections, time, deletions and failures
LEMMA AsideO ==
    ASSUME IInv, OInv, NEW o \in MarketOrders,
           \/ UNCHANGED vars
           \/ \E x \in Orders : Expire(x) \/ delete_order(x) \/ DatabaseFails(x)
           \/ \E t \in Traders : Connect(t) \/ Disconnect(t)
           \/ \E l \in LimitOrders : process_new_limit_order(l)
           \/ Crash
    PROVE  OrderOK(o)'
<1>0. OrderOK(o) /\ o \in Orders /\ o \notin LimitOrders /\ orders \in [Orders -> OrderRows]
      /\ tasks \in [Orders -> Tasks] /\ failures \in Nat
  BY OrdersAssumption DEF OInv, IInv, TypeOK, Orders
<1>1. Rows(o)' = Rows(o)
  BY DEF Rows, vars, tables, Expire, delete_order, DatabaseFails, Connect, Disconnect,
     process_new_limit_order, Crash
<1>2. CASE \/ UNCHANGED vars
           \/ \E x \in Orders : Expire(x)
           \/ \E t \in Traders : Connect(t) \/ Disconnect(t)
  <2>1. /\ UNCHANGED <<tasks, orders, executions, givingUp, failures>>
        /\ expired \subseteq expired' /\ checks \subseteq checks'
    BY <1>2 DEF vars, tables, bounds, Expire, Connect, Disconnect
  <2>2. TraderOf[o] \in connected' => \/ TraderOf[o] \in connected
                                      \/ \E c \in checks' : c.trader = TraderOf[o]
    <3>1. ASSUME NEW t \in Traders, Connect(t), TraderOf[o] = t
          PROVE  \E c \in checks' : c.trader = TraderOf[o]
      <4>1. [trader |-> t, run |-> connects + 1] \in checks'
        BY <3>1 DEF Connect
      <4>2. [trader |-> t, run |-> connects + 1].trader = TraderOf[o]
        BY <3>1
      <4> QED BY <4>1, <4>2
    <3> QED BY <1>2, <3>1 DEF vars, Expire, Connect, Disconnect
  <2>3. Runs(o)' = Runs(o)
    BY <2>1 DEF Runs
  <2> QED BY <1>0, <1>1, <2>1, <2>2, <2>3, Untouched
<1>3. CASE (\E x \in Orders : delete_order(x)) \/ (\E l \in LimitOrders : process_new_limit_order(l))
  <2>1. UNCHANGED <<executions, givingUp, failures, expired, checks, connected>>
    BY <1>3 DEF delete_order, process_new_limit_order, bounds
  <2>2. orders'[o].state \in {orders[o].state, "Deleted"}
    <3>1. CASE \E x \in Orders : delete_order(x)
      BY <1>0, <3>1 DEF delete_order, set_order_state, OrderRows
    <3>2. CASE \E l \in LimitOrders : process_new_limit_order(l)
      BY <1>0, <3>2 DEF process_new_limit_order
    <3> QED BY <1>3, <3>1, <3>2
  <2>3. tasks'[o] = tasks[o] /\ Runs(o)' = Runs(o)
    BY <1>0, <1>3, <2>1 DEF delete_order, process_new_limit_order, Runs
  <2> QED BY <1>0, <1>1, <2>1, <2>2, <2>3, Untouched
<1>4. CASE \E x \in Orders : DatabaseFails(x)
  <2>1. UNCHANGED <<orders, executions, givingUp, expired, checks, connected>> /\ failures' # 0
    BY <1>0, <1>4 DEF DatabaseFails, tables
  <2>2. tasks'[o] = tasks[o] \/ tasks'[o].step = "Done"
    BY <1>0, <1>4 DEF DatabaseFails, Tasks
  <2>3. Runs(o)' = Runs(o)
    BY <2>1 DEF Runs
  <2> QED BY <1>0, <1>1, <2>1, <2>2, <2>3, Untouched
<1>5. CASE Crash
  <2>1. UNCHANGED <<orders, expired, failures>> /\ connected' = {} /\ givingUp' = {} /\ Runs(o)' = {}
    BY <1>5 DEF Crash, tables, Runs
  <2>2. tasks'[o] = tasks[o] \/ tasks'[o].step = "Done"
    BY <1>0, <1>5 DEF Crash, Tasks
  <2> QED BY <1>0, <1>1, <2>1, <2>2, Untouched
<1> QED BY <1>2, <1>3, <1>4, <1>5

\* Giving an order up: it has expired.
LEMMA GiveUpO ==
    ASSUME IInv, OInv, NEW o \in MarketOrders,
           \/ \E t \in Traders, x \in Orders : GiveUp(t, x)
           \/ \E x \in Orders : GiveUpMatch(x)
    PROVE  OrderOK(o)'
<1>0. OrderOK(o) /\ o \in Orders /\ orders \in [Orders -> OrderRows] /\ givingUp \subseteq expired
  BY DEF OInv, IInv, TypeOK, Orders
<1>1. /\ UNCHANGED <<tasks, expired, connected, checks, executions, failures>>
      /\ Runs(o)' = Runs(o)
  BY DEF GiveUp, GiveUpMatch, bounds, Runs
<1>2. CASE \E t \in Traders, x \in Orders : GiveUp(t, x)
  <2>1. PICK t \in Traders, x \in Orders : GiveUp(t, x)
    BY <1>2
  <2>2. orders'[o].state \in {orders[o].state, "Expired"} /\ Rows(o)' = Rows(o)
    BY <1>0, <2>1 DEF GiveUp, set_order_state, OrderRows, Rows
  <2>3. o \in givingUp' => o \in givingUp \/ ~ Early(o)
    BY <1>0, <2>1 DEF GiveUp, IsPendingMatch, MatchedOrders, OrderOK, FreshOK
  <2> QED BY <1>0, <1>1, <2>2, <2>3, Untouched
<1>3. CASE \E x \in Orders : GiveUpMatch(x)
  <2>1. PICK x \in Orders : GiveUpMatch(x)
    BY <1>3
  <2>2. UNCHANGED orders /\ givingUp' \subseteq givingUp /\ matches' = WithMatchState(x, "Failed")
        /\ x \in givingUp
    BY <2>1 DEF GiveUpMatch
  <2>3. CASE x # o
    <3>1. Rows(o)' = Rows(o)
      BY <2>2, <2>3 DEF Rows, WithMatchState, IInv, TypeOK, MatchRows
    <3> QED BY <1>0, <1>1, <2>2, <3>1, Untouched
  <2>4. CASE x = o
    <3>1. o \in expired /\ ~ Early(o) /\ ~ Early(o)'
      BY <1>0, <1>1, <2>2, <2>4 DEF OrderOK, FreshOK, Early
    <3> QED BY <1>0, <1>1, <2>2, <3>1 DEF OrderOK, FreshOK, AgreeOK, WaitOK, OfTrader
  <2> QED BY <2>3, <2>4
<1> QED BY <1>2, <1>3

\* An execution ends: order and matches are written together.
LEMMA ExecuteO ==
    ASSUME IInv, OInv, NEW o \in MarketOrders, NEW e \in executions,
           execute(e, "Filled", "Taken") \/ execute(e, "Failed", "Failed")
    PROVE  OrderOK(o)'
<1>0. /\ OrderOK(o) /\ o \in Orders /\ orders \in [Orders -> OrderRows] /\ e.order \in Orders
      /\ TypeOK
  BY DEF OInv, IInv, TypeOK, Orders, Executions
<1>1. PICK ms \in MatchStates, os \in OrderStates :
          /\ execute(e, ms, os)
          /\ <<ms, os>> \in {<<"Filled", "Taken">>, <<"Failed", "Failed">>}
  BY DEF MatchStates, OrderStates
<1>2. /\ UNCHANGED <<tasks, expired, connected, checks, failures, givingUp>>
      /\ matches' = WithMatchState(e.order, ms) /\ set_order_state(e.order, os)
      /\ executions' = executions \ {e}
  BY <1>1 DEF execute, update_order_and_match, bounds
<1>3. \A y \in Orders : orders'[y].state = IF y = e.order THEN os ELSE orders[y].state
  BY <1>0, <1>2, SetState
<1>4. CASE e.order # o
  <2>1. Rows(o)' = Rows(o) /\ Runs(o)' = Runs(o)
    BY <1>2, <1>4 DEF Rows, Runs, WithMatchState, IInv, TypeOK, MatchRows
  <2> QED BY <1>0, <1>2, <1>3, <1>4, <2>1, Untouched
<1>5. CASE e.order = o
  <2>1. ~ Early(o) /\ ~ Early(o)'
    BY <1>0, <1>2, <1>5 DEF OrderOK, FreshOK, Runs, Early
  <2>2. \A m \in Rows(o)' : m.state = ms
    BY <1>2, <1>5 DEF Rows, WithMatchState, IInv, TypeOK, MatchRows
  <2> QED BY <1>0, <1>1, <1>3, <1>5, <2>1, <2>2 DEF OrderOK, FreshOK, AgreeOK, WaitOK
<1> QED BY <1>4, <1>5

\* A check finds the only order of its trader.
LEMMA PendingMatchO ==
    ASSUME IInv, OInv, NEW o \in MarketOrders, NEW c \in checks, process_pending_match(c)
    PROVE  OrderOK(o)'
<1>0. OrderOK(o) /\ o \in Orders /\ orders \in [Orders -> OrderRows] /\ MatchedHasMatch
  BY DEF OInv, IInv, TypeOK, Orders
<1>1. /\ UNCHANGED <<orders, matches, tasks, expired, connected, failures, givingUp>>
      /\ checks' = checks \ {c} /\ executions \subseteq executions'
  BY DEF process_pending_match, bounds, tables
<1>2. ASSUME NEW r \in executions', r \notin executions, r.order = o
      PROVE  orders[o].state = "Matched"
  BY <1>2 DEF process_pending_match, IsPendingMatch, MatchedOrders
<1>3. ASSUME orders[o].state = "Matched", OfTrader(TraderOf[o]) = {o}, c.trader = TraderOf[o]
      PROVE  Runs(o)' # {}
  <2>1. MatchedOrders(c.trader) = {o}
    BY <1>0, <1>3 DEF MatchedOrders
  <2>2. IsPendingMatch(c.trader, o) /\ HasMatch(o)
    BY <1>0, <1>3, <2>1 DEF IsPendingMatch, MatchedHasMatch, OrderRows
  <2>3. PICK r : r = [order |-> o, with |-> o, params |-> o \in params, run |-> c.run]
    OBVIOUS
  <2>4. r \in executions' /\ r.order = o
    BY <1>0, <2>2, <2>3 DEF process_pending_match
  <2> QED BY <2>4 DEF Runs
<1>4. FreshOK(o)'
  <2>1. Early(o)' = Early(o) /\ Rows(o)' = Rows(o)
    BY <1>1 DEF Early, Rows
  <2>2. Early(o) => Runs(o)' = {}
    BY <1>0, <1>2 DEF OrderOK, FreshOK, Runs
  <2> QED BY <1>0, <1>1, <2>1, <2>2 DEF OrderOK, FreshOK
<1>5. AgreeOK(o)'
  BY <1>0, <1>1 DEF OrderOK, AgreeOK, Rows
<1>6. WaitOK(o)'
  <2>1. Runs(o) # {} => Runs(o)' # {}
    BY <1>1 DEF Runs
  <2> QED BY <1>0, <1>1, <1>3, <2>1 DEF OrderOK, WaitOK, OfTrader
<1> QED BY <1>4, <1>5, <1>6 DEF OrderOK

\* A new order has neither matches nor executions.
LEMMA PostO ==
    ASSUME IInv, OInv, NEW o \in MarketOrders,
           NEW x \in Orders, NEW p \in Prices, NEW q \in Quantities, post_order(x, p, q)
    PROVE  OrderOK(o)'
<1>0. /\ OrderOK(o) /\ o \in Orders /\ orders \in [Orders -> OrderRows] /\ tasks \in [Orders -> Tasks]
      /\ TaskOK(o)
  BY DEF OInv, IInv, TypeOK, Orders, TasksOK
<1>1. /\ UNCHANGED <<matches, executions, expired, connected, checks, failures, givingUp>>
      /\ Rows(o)' = Rows(o) /\ Runs(o)' = Runs(o)
  BY DEF post_order, bounds, Rows, Runs
<1>2. CASE x # o
  <2>1. orders'[o] = orders[o] /\ tasks'[o] = tasks[o]
    BY <1>0, <1>2 DEF post_order
  <2> QED BY <1>0, <1>1, <2>1, Untouched
<1>3. CASE x = o
  <2>1. tasks[o].step = "None" /\ tasks'[o].step = "Posted" /\ orders'[o].state = "Open"
    BY <1>0, <1>3 DEF post_order, TaskOK, Tasks
  <2>2. Early(o) /\ Rows(o) = {} /\ Runs(o) = {} /\ o \notin givingUp
    BY <1>0, <2>1 DEF OrderOK, FreshOK, Early
  <2> QED BY <1>1, <2>1, <2>2 DEF OrderOK, FreshOK, AgreeOK, WaitOK
<1> QED BY <1>2, <1>3

\* The statements of an order's own task
LEMMA OwnTaskO ==
    ASSUME IInv, OInv, NEW o \in MarketOrders, process_new_market_order(o)
    PROVE  OrderOK(o)'
<1>0. /\ OrderOK(o) /\ o \in Orders /\ orders \in [Orders -> OrderRows] /\ tasks \in [Orders -> Tasks]
      /\ TaskOK(o) /\ o \notin LimitOrders /\ TypeOK
  BY OrdersAssumption DEF OInv, IInv, TypeOK, Orders, TasksOK
<1>1. UNCHANGED <<expired, connected, checks, failures, givingUp>>
  BY DEF process_new_market_order, CheckMatched, FindMatch, FailUnmatched, InsertMatch, SetMatched,
     InsertParams, ExecuteMatch, bounds, tables
<1>2. CASE CheckMatched(o) \/ FindMatch(o)
  <2>1. UNCHANGED <<orders, matches, executions>> /\ tasks[o].step \in {"Posted", "Checked"}
    BY <1>2 DEF CheckMatched, FindMatch, tables
  <2>2. tasks'[o].step # "State"
    BY <1>0, <1>2 DEF CheckMatched, FindMatch, Tasks
  <2>3. Rows(o)' = Rows(o) /\ Runs(o)' = Runs(o)
    BY <2>1 DEF Rows, Runs
  <2>4. /\ Rows(o) = {} /\ Runs(o) = {} /\ o \notin givingUp
        /\ orders[o].state \notin {"Matched", "Taken", "Failed"}
    BY <1>0, <2>1 DEF OrderOK, FreshOK, Early
  <2> QED BY <1>1, <2>1, <2>2, <2>3, <2>4 DEF OrderOK, FreshOK, AgreeOK, WaitOK
<1>3. CASE FailUnmatched(o)
  <2>1. UNCHANGED <<matches, executions>> /\ tasks[o].step = "Unmatched" /\ tasks'[o].step = "Done"
        /\ orders'[o].state = "Failed"
    BY <1>0, <1>3 DEF FailUnmatched, set_order_state, Tasks, OrderRows
  <2>2. Rows(o)' = {}
    BY <1>0, <2>1 DEF OrderOK, FreshOK, Early, Rows
  <2> QED BY <2>1, <2>2 DEF OrderOK, FreshOK, AgreeOK, WaitOK, Early
<1>4. CASE InsertMatch(o)
  <2>1. /\ UNCHANGED <<orders, executions>> /\ tasks[o].step = "Match" /\ tasks'[o].step = "State"
        /\ tasks'[o].of = tasks[o].of /\ tasks'[o].with = tasks[o].with
        /\ tasks[o].with \in LimitOrders /\ tasks[o].of \in {o, tasks[o].with}
    BY <1>0, <1>4 DEF InsertMatch, Tasks, TaskOK, Writing
  <2>2. Runs(o)' = Runs(o)
    BY <2>1 DEF Runs
  <2>3. PICK m : /\ matches' = matches \union {m} /\ m.order = tasks[o].of /\ m.state = "Pending"
    <3>1. PICK m : m = [order |-> tasks[o].of,
                        with |-> IF tasks[o].of = o THEN tasks[o].with ELSE o,
                        price |-> orders[tasks[o].with].price,
                        quantity |-> orders[o].quantity, state |-> "Pending"]
      OBVIOUS
    <3>2. matches' = matches \union {m}
      BY <1>4, <3>1 DEF InsertMatch
    <3> QED BY <3>1, <3>2
  <2>4. CASE tasks[o].of = o
    <3>1. Rows(o)' = {m} /\ Runs(o)' = {} /\ o \notin givingUp
          /\ orders[o].state \notin {"Matched", "Taken", "Failed"}
      BY <1>0, <2>1, <2>2, <2>3, <2>4 DEF OrderOK, FreshOK, Early, Rows
    <3> QED BY <1>1, <2>1, <2>3, <3>1 DEF OrderOK, FreshOK, AgreeOK, WaitOK
  <2>5. CASE tasks[o].of # o
    <3>1. Rows(o)' = Rows(o) /\ ~ Early(o)'
      BY <2>1, <2>3, <2>5 DEF Rows, Early
    <3> QED BY <1>0, <1>1, <2>1, <2>2, <3>1 DEF OrderOK, FreshOK, AgreeOK, WaitOK, Writing
  <2> QED BY <2>4, <2>5
<1>5. CASE SetMatched(o)
  <2>1. /\ UNCHANGED <<matches, executions>> /\ tasks[o].step = "State"
        /\ set_order_state(tasks[o].of, "Matched")
        /\ tasks[o].with \in LimitOrders /\ tasks[o].of \in {o, tasks[o].with}
    BY <1>0, <1>5 DEF SetMatched, TaskOK, Writing
  <2>2. tasks'[o].step \in {"Match", "Params"} /\ tasks'[o].of = tasks[o].with
    <3>1. PICK t1 : t1 = [tasks EXCEPT ![o].step = IF tasks[o].of = o THEN "Match" ELSE "Params"]
      OBVIOUS
    <3>2. tasks' = [t1 EXCEPT ![o].of = tasks[o].with]
      BY <1>5, <3>1 DEF SetMatched
    <3>3. t1 \in [Orders -> Tasks] /\ t1[o].step \in {"Match", "Params"}
      BY <1>0, <3>1 DEF Tasks, Steps
    <3> QED BY <1>0, <3>2, <3>3 DEF Tasks
  <2>3. ~ Early(o)' /\ tasks'[o].step \in Writing
    BY <1>0, <2>1, <2>2 DEF Early, Writing
  <2>4. Rows(o)' = Rows(o)
    BY <2>1 DEF Rows
  <2>5. CASE tasks[o].of = o
    <3>1. orders'[o].state = "Matched"
      BY <1>0, <2>1, <2>5 DEF set_order_state, OrderRows
    <3>2. \A m \in Rows(o) : m.state = "Pending"
      BY <1>0, <2>1, <2>5 DEF OrderOK, FreshOK, Early
    <3> QED BY <2>3, <2>4, <3>1, <3>2 DEF OrderOK, FreshOK, AgreeOK, WaitOK
  <2>6. CASE tasks[o].of # o
    <3>1. orders'[o] = orders[o]
      BY <1>0, <2>1, <2>6 DEF set_order_state
    <3> QED BY <1>0, <1>1, <2>3, <2>4, <3>1 DEF OrderOK, FreshOK, AgreeOK, WaitOK
  <2> QED BY <2>5, <2>6
<1>6. CASE InsertParams(o)
  <2>1. UNCHANGED <<orders, matches, executions>> /\ tasks'[o].step = "Execute"
    BY <1>0, <1>6 DEF InsertParams, Tasks
  <2> QED BY <1>0, <1>1, <2>1 DEF OrderOK, FreshOK, AgreeOK, WaitOK, Writing, Early, Rows
<1>7. CASE ExecuteMatch(o)
  <2>1. UNCHANGED <<orders, matches>> /\ tasks'[o].step = "Done"
    BY <1>0, <1>7 DEF ExecuteMatch, Tasks, tables
  <2>2. ~ Early(o)' /\ AgreeOK(o)'
    BY <1>0, <1>1, <2>1 DEF Early, OrderOK, AgreeOK, Rows
  <2>3. TraderOf[o] \in connected => Runs(o)' # {}
    <3>1. PICK r : r = [order |-> o, with |-> tasks[o].with, params |-> o \in WithParams, run |-> 0]
      OBVIOUS
    <3>2. TraderOf[o] \in connected => r \in executions' /\ r.order = o
      BY <1>7, <3>1 DEF ExecuteMatch
    <3> QED BY <3>2 DEF Runs
  <2> QED BY <1>1, <2>2, <2>3 DEF OrderOK, FreshOK, WaitOK
<1> QED BY <1>2, <1>3, <1>4, <1>5, <1>6, <1>7 DEF process_new_market_order

\* The task of another order writes the rows of that order and of limit orders.
LEMMA OtherTaskO ==
    ASSUME IInv, OInv, NEW o \in MarketOrders, NEW x \in MarketOrders, process_new_market_order(x),
           x # o
    PROVE  OrderOK(o)'
<1>0. /\ OrderOK(o) /\ o \in Orders /\ x \in Orders /\ orders \in [Orders -> OrderRows]
      /\ tasks \in [Orders -> Tasks] /\ TaskOK(x) /\ o \notin LimitOrders
  BY OrdersAssumption DEF OInv, IInv, TypeOK, Orders, TasksOK
<1>1. UNCHANGED <<expired, connected, checks, failures, givingUp>>
  BY DEF process_new_market_order, CheckMatched, FindMatch, FailUnmatched, InsertMatch, SetMatched,
     InsertParams, ExecuteMatch, bounds, tables
<1>2. tasks'[o] = tasks[o]
  BY <1>0 DEF process_new_market_order, CheckMatched, FindMatch, FailUnmatched, InsertMatch, SetMatched,
     InsertParams, ExecuteMatch
<1>3. tasks[x].step \in {"Match", "State"} => tasks[x].of # o
  BY <1>0 DEF TaskOK, Writing
<1>4. orders'[o].state = orders[o].state
  BY <1>0, <1>3 DEF process_new_market_order, CheckMatched, FindMatch, FailUnmatched, InsertMatch,
     SetMatched, InsertParams, ExecuteMatch, tables, set_order_state
<1>5. Rows(o)' = Rows(o)
  <2>1. CASE InsertMatch(x)
    <3>1. PICK m : m = [order |-> tasks[x].of,
                        with |-> IF tasks[x].of = x THEN tasks[x].with ELSE x,
                        price |-> orders[tasks[x].with].price,
                        quantity |-> orders[x].quantity, state |-> "Pending"]
      OBVIOUS
    <3>2. matches' = matches \union {m} /\ m.order # o
      BY <1>3, <2>1, <3>1 DEF InsertMatch
    <3> QED BY <3>2 DEF Rows
  <2>2. CASE ~ InsertMatch(x)
    BY <2>2 DEF process_new_market_order, CheckMatched, FindMatch, FailUnmatched, SetMatched,
       InsertParams, ExecuteMatch, tables, Rows
  <2> QED BY <2>1, <2>2
<1>6. Runs(o)' = Runs(o)
  <2>1. CASE ExecuteMatch(x)
    <3>1. PICK r : r = [order |-> x, with |-> tasks[x].with, params |-> x \in WithParams, run |-> 0]
      OBVIOUS
    <3>2. executions' = executions \/ executions' = executions \union {r}
      BY <2>1, <3>1 DEF ExecuteMatch
    <3> QED BY <3>1, <3>2 DEF Runs
  <2>2. CASE ~ ExecuteMatch(x)
    BY <2>2 DEF process_new_market_order, CheckMatched, FindMatch, FailUnmatched, InsertMatch,
       SetMatched, InsertParams, tables, Runs
  <2> QED BY <2>1, <2>2
<1> QED BY <1>0, <1>1, <1>2, <1>4, <1>5, <1>6, Untouched

\* Every step preserves what is known of market orders.
LEMMA NextO ==
    ASSUME IInv, OInv, [Next]_vars
    PROVE  OInv'
<1>1. ASSUME NEW o \in MarketOrders PROVE OrderOK(o)'
  BY AsideO, GiveUpO, ExecuteO, PendingMatchO, PostO, OwnTaskO, OtherTaskO DEF Next
<1>2. givingUp' \subseteq expired'
  <2>1. expired \subseteq expired'
    BY DEF Next, vars, tables, post_order, process_new_limit_order, process_new_market_order,
       CheckMatched, FindMatch, FailUnmatched, InsertMatch, SetMatched, InsertParams, ExecuteMatch,
       Connect, Disconnect, process_pending_match, execute, GiveUp, GiveUpMatch, delete_order,
       Expire, DatabaseFails, Crash
  <2>2. \A x \in givingUp' : x \in givingUp \/ x \in expired
    BY DEF Next, vars, tables, post_order, process_new_limit_order, process_new_market_order,
       CheckMatched, FindMatch, FailUnmatched, InsertMatch, SetMatched, InsertParams, ExecuteMatch,
       Connect, Disconnect, process_pending_match, execute, GiveUp, GiveUpMatch, delete_order,
       Expire, DatabaseFails, Crash
  <2> QED BY <2>1, <2>2 DEF OInv
<1> QED BY <1>1, <1>2 DEF OInv

\* Both invariants hold in every reachable state.
THEOREM OrdersInvariance == Spec => [](IInv /\ OInv)
<1>1. Init => OInv
  BY DEF Init, OInv, OrderOK, FreshOK, AgreeOK, WaitOK, Rows, Runs, Orders
<1>2. IInv /\ OInv /\ [Next]_vars => OInv'
  BY NextO
<1> QED BY <1>1, <1>2, Invariance, PTL DEF Spec

\* Whatever checks, executions, restarts, deletions and failed statements interleave, the
\* row of a market order and its match tell the same outcome.
THEOREM OutcomesAgreeAlways == Spec => []OutcomesAgree
<1>1. IInv /\ OInv => OutcomesAgree
  BY DEF OInv, OrderOK, AgreeOK, OutcomesAgree, Rows
<1> QED BY <1>1, OrdersInvariance, PTL

\* A matched order of a connected trader is never forgotten: a connection that comes
\* between the test of is_connected and the execution brings a check with it.
THEOREM NoMatchIsLost == Spec => []NoLostMatch
<1>1. IInv /\ OInv => NoLostMatch
  BY DEF OInv, OrderOK, WaitOK, NoLostMatch, Runs, Writing
<1> QED BY <1>1, OrdersInvariance, PTL
=============================================================================
