--------------------------- MODULE TradeProtocol ---------------------------
(***************************************************************************)
(* One trader, one DLC channel: the trade and rollover protocols that the  *)
(* coordinator drives and the app answers, with both databases.            *)
(*                                                                         *)
(*   - the coordinator executes matched orders (coordinator/src/trade) and *)
(*     proposes rollovers (coordinator/src/node/rollover.rs) in concurrent *)
(*     tasks, each of them several database and rust-dlc calls long;       *)
(*   - it handles the app's messages in coordinator/src/node.rs and keeps  *)
(*     dlc_protocols, positions and trades (coordinator/src/dlc_protocol); *)
(*   - the app answers in mobile/native/src/dlc/node.rs and keeps its      *)
(*     orders and its position;                                            *)
(*   - each side stores its last outbound message and resends it on every  *)
(*     reconnect (the two dlc_handler.rs).                                 *)
(*                                                                         *)
(* rust-dlc is an external library: its channel states are modelled from   *)
(* how the two node.rs use them.  The execution of a matched order and the *)
(* protocol it starts share an identifier, and the content of a protocol's *)
(* messages is kept once, in offers.                                       *)
(***************************************************************************)
EXTENDS Calendar, Sequences, FiniteSets

CONSTANTS
    TraderOrders,      \* orders the trader may submit in the app
    Unanswered,        \* trader orders whose request, or the answer to it, is lost
    CoordinatorOrders, \* orders the coordinator may create to close a position
    NoOrder,           \* absence of an order
    Protocols,         \* identifiers of protocols and of the tasks that run them
    NoProtocol,        \* absence of a protocol
    Positions,         \* identifiers of rows of the positions table
    MaxTime,           \* bound on the calendar: half-weeks that may pass
    MaxClock,          \* bound on the seconds that tell two rejects apart
    MaxDisconnects,    \* bound on connection losses, those of restarts included
    MaxCrashes         \* bound on restarts of either process

Orders == TraderOrders \union CoordinatorOrders

ASSUME OrdersAssumption ==
    /\ TraderOrders \intersect CoordinatorOrders = {}
    /\ NoOrder \notin Orders
    /\ Unanswered \subseteq TraderOrders
ASSUME ProtocolsAssumption == NoProtocol \notin Protocols
ASSUME BoundsAssumption == {MaxTime, MaxClock, MaxDisconnects, MaxCrashes} \subseteq Nat

VARIABLES
    \* coordinator
    orderC,      \* orders table: state, and the position size the order closes
    task,        \* the tasks that process orders and rollovers
    offers,      \* content of the offer of each protocol: kind, order, size, expiry
    chanC,       \* rust-dlc channel of the coordinator
    protocols,   \* dlc_protocols table: state
    positions,   \* positions table: state, size, expiry
    trades,      \* trades table: number of rows inserted for each protocol
    processedC,  \* dlc_messages: inbound messages already processed
    lastOutC,    \* last_outbound_dlc_messages: at most one message
    inC,         \* the message whose handler is half way through
    matchCheck,  \* a Connected event that process_pending_match has yet to handle
    \* app
    orderA,      \* orders of the app
    chanA,       \* rust-dlc channel of the app
    posA,        \* the app's position: state, size, expiry
    processedA, lastOutA, inA,
    posting,     \* orders submit_order has sent and waits for the answer to
    \* environment
    netCA, netAC,    \* messages on the wire or in the receiver's inbox
    tradeErrors,     \* TradeError messages on their way over the web socket
    connected, time, clock, disconnects, crashes

coordinatorVars == <<orderC, task, offers, chanC, protocols, positions,
                     trades, processedC, lastOutC, inC, matchCheck>>
appVars == <<orderA, chanA, posA, processedA, lastOutA, inA, posting>>
netVars == <<netCA, netAC, connected>>
boundVars == <<time, clock, disconnects, crashes>>
vars == <<orderC, task, offers, chanC, protocols, positions, trades, processedC,
          lastOutC, inC, matchCheck, orderA, chanA, posA, processedA, lastOutA,
          inA, posting, netCA, netAC, tradeErrors, connected, time, clock, disconnects,
          crashes>>

-----------------------------------------------------------------------------
(* Types *)

OpenKinds == {"OpenChannel", "OpenPosition"}
RenewKinds == {"OpenPosition", "ResizePosition", "Rollover"}
Kinds == OpenKinds \union {"ResizePosition", "Settle", "Rollover"}

OfferTypes == {"Offer", "SettleOffer", "RenewOffer"}
AcceptTypes == {"Accept", "SettleAccept", "RenewAccept"}
MessageTypes == OfferTypes \union AcceptTypes \union
    {"Sign", "SettleConfirm", "SettleFinalize",
     "RenewConfirm", "RenewFinalize", "RenewRevoke", "Reject"}

\* A RenewX message of a rollover protocol is the code's RolloverX message.
\* The timestamp only matters in a Reject; it makes two rejects of one offer
\* different messages (their hashes differ).
Messages == [type : MessageTypes, pid : Protocols, ts : Nat]
Msg(type, p) == [type |-> type, pid |-> p, ts |-> 0]
NoMessage == [type |-> "None", pid |-> NoProtocol, ts |-> 0]

ChannelStates ==
    {"None", "Offered", "Accepted", "Cancelled", "Established",
     "SettledOffered", "SettledReceived", "SettledAccepted", "SettledConfirmed",
     "Settled", "RenewOffered", "RenewAccepted", "RenewConfirmed", "RenewFinalized"}

\* ref: the reference id; back: the state to return to when the offer is
\* rejected (rust-dlc's roll_back_state); contract: the protocol whose offer is
\* the contract in force.
Channels == [state : ChannelStates, ref : Protocols \union {NoProtocol},
             back : ChannelStates, contract : Protocols \union {NoProtocol}]

ProtocolStates == {"None", "Pending", "Success", "Failed"}

PositionStates == {"None", "Proposed", "Open", "Closing", "Rollover",
                   "Resizing", "Closed", "Failed"}
\* size: the protocol whose offer fixed the row's quantity and margins.
PositionRows == [state : PositionStates, size : Protocols \union {NoProtocol},
                 expiry : Nat]

Offers == [kind : Kinds \union {"None"}, order : Orders \union {NoOrder},
           size : Protocols \union {NoProtocol}, expiry : Nat]
NoOffer == [kind |-> "None", order |-> NoOrder, size |-> NoProtocol, expiry |-> 0]

OrderStates == {"None", "Open", "Matched", "Taken", "Failed", "Expired"}
\* closes: the size of the position the order closes, NoProtocol for any other order
OrderRows == [state : OrderStates, closes : Protocols \union {NoProtocol}]
\* A failed order keeps the execution price it was filling with.
AppOrderStates == {"None", "Open", "Filling", "Filled", "Failed", "FailedWithPrice"}

\* pc: check, match and matched are process_new_market_order; pending is
\* process_pending_match; the others are execute_internal and propose_rollover.
\* expiry: fixed when the order is matched, or the rollover is checked.
Tasks == [pc : {"idle", "check", "match", "matched", "pending", "propose", "start",
                "position", "finish"},
          kind : Kinds \union {"None"}, order : Orders \union {NoOrder},
          size : Protocols \union {NoProtocol}, expiry : Nat]
Idle == [pc |-> "idle", kind |-> "None", order |-> NoOrder, size |-> NoProtocol, expiry |-> 0]

-----------------------------------------------------------------------------
(* The calendar, in half-weeks: see Calendar *)

is_eligible_for_rollover == EligibleIn(time)
calculate_next_expiry == NextExpiryIn(time)
IsExpired(e) == ExpiredIn(time, e)

Tick ==
    /\ time < MaxTime
    /\ time' = time + 1
    /\ UNCHANGED <<coordinatorVars, appVars, netVars, tradeErrors, clock,
                   disconnects, crashes>>

-----------------------------------------------------------------------------
(* rust-dlc, as the two nodes use it *)

InChannel(state, ref, back, contract) ==
    [state |-> state, ref |-> ref, back |-> back, contract |-> contract]

\* The state in which a party expects a message, the state it enters and the
\* message it replies with.
Coordinator(type) ==
    CASE type = "Accept" -> <<"Offered", "Established", "Sign">>
      [] type = "SettleAccept" -> <<"SettledOffered", "SettledConfirmed", "SettleConfirm">>
      [] type = "SettleFinalize" -> <<"SettledConfirmed", "Settled", "None">>
      [] type = "RenewAccept" -> <<"RenewOffered", "RenewConfirmed", "RenewConfirm">>
      [] type = "RenewFinalize" -> <<"RenewConfirmed", "Established", "RenewRevoke">>
      [] OTHER -> <<"Never", "None", "None">>

App(type) ==
    CASE type = "Sign" -> <<"Accepted", "Established", "None">>
      [] type = "SettleConfirm" -> <<"SettledAccepted", "Settled", "SettleFinalize">>
      [] type = "RenewConfirm" -> <<"RenewAccepted", "RenewFinalized", "RenewFinalize">>
      [] type = "RenewRevoke" -> <<"RenewFinalized", "Established", "None">>
      [] OTHER -> <<"Never", "None", "None">>

\* Only the offerer's last offer can be answered: the signatures of an answer
\* to another offer do not verify.
Expects(chan, m, step) == chan.state = step[1] /\ chan.ref = m.pid

Advance(chan, m, step) ==
    [chan EXCEPT !.state = step[2],
                 !.contract = CASE step[2] = "Established" -> m.pid
                                [] step[2] = "Settled" -> NoProtocol
                                [] OTHER -> chan.contract]

\* on_reject: an offered channel has an id of its own, so a reject of another
\* offer to open a channel finds a cancelled channel; all other rejects name
\* the one signed channel, whatever offer they answer.
ExpectsReject(m) ==
    IF offers[m.pid].kind = "OpenChannel"
    THEN chanC.state = "Offered" /\ chanC.ref = m.pid
    ELSE chanC.state \in {"SettledOffered", "RenewOffered"}

RollBack(chan) == [chan EXCEPT !.state = chan.back]

OfferType(kind) == CASE kind = "OpenChannel" -> "Offer"
                     [] kind = "Settle" -> "SettleOffer"
                     [] OTHER -> "RenewOffer"

\* offer_channel, settle_offer, renew_offer; a rollover needs a confirmed contract.
CanOffer(kind) ==
    CASE kind = "OpenChannel" -> chanC.state \in {"None", "Cancelled"}
      [] kind \in {"Settle", "Rollover"} -> chanC.state = "Established"
      [] OTHER -> chanC.state \in {"Established", "Settled"}

Bug_ContractOnOffer(p, kind) ==
    IF kind = "OpenChannel" THEN InChannel("Offered", p, "Cancelled", NoProtocol)
    ELSE InChannel(IF kind = "Settle" THEN "SettledOffered" ELSE "RenewOffered",
                   p, chanC.state, p)
OfferedChannel(p, kind) ==
    CASE kind = "OpenChannel" -> InChannel("Offered", p, "Cancelled", NoProtocol)
      [] kind = "Settle" -> InChannel("SettledOffered", p, chanC.state, chanC.contract)
      [] OTHER -> InChannel("RenewOffered", p, chanC.state, chanC.contract)

\* The app on an offer, before it is accepted.
CanReceive(type) ==
    CASE type = "Offer" -> chanA.state \in {"None", "Cancelled"}
      [] type = "SettleOffer" -> chanA.state = "Established"
      [] OTHER -> chanA.state \in {"Established", "Settled"}

ReceivedChannel(m) ==
    CASE m.type = "Offer" -> InChannel("Offered", m.pid, "Cancelled", NoProtocol)
      [] m.type = "SettleOffer" -> InChannel("SettledReceived", m.pid, chanA.state, chanA.contract)
      [] OTHER -> InChannel("RenewOffered", m.pid, chanA.state, chanA.contract)

\* accept_channel, accept_settle_offer, accept_renew_offer: the state an offer
\* is accepted in, the state entered and the answer sent.
Acceptance(type) ==
    CASE type = "Offer" -> <<"Offered", "Accepted", "Accept">>
      [] type = "SettleOffer" -> <<"SettledReceived", "SettledAccepted", "SettleAccept">>
      [] OTHER -> <<"RenewOffered", "RenewAccepted", "RenewAccept">>

-----------------------------------------------------------------------------
(* Outbound messages: send_dlc_message, store_dlc_message and              *)
(* send_last_dlc_message of the two dlc_handler.rs.  Node events are       *)
(* handled in the order they are published.                                *)

Bug_NoResend(q, m) == q
Resend(q, m) == IF m = NoMessage THEN q ELSE Append(q, m)
SendLastC(m) == netCA' = IF connected THEN Resend(netCA, m) ELSE netCA
SendLastA(m) == netAC' = IF connected THEN Resend(netAC, m) ELSE netAC

-----------------------------------------------------------------------------
(* The positions table *)

RowsIn(S) == {i \in Positions : positions[i].state \in S}

\* update_position_state, set_open_position_to_closing: every row of the trader
\* that is in one of the states.
WithState(S, new) ==
    [i \in Positions |-> IF positions[i].state \in S
                         THEN [positions[i] EXCEPT !.state = new]
                         ELSE positions[i]]

\* What the trade executor or the rollover task writes to the table after the
\* protocol was started.
PositionUpdates(p) ==
    CASE offers[p].kind \in OpenKinds ->   \* persist_position
            {[positions EXCEPT ![i] = [state |-> "Proposed", size |-> p,
                                       expiry |-> offers[p].expiry]] :
                i \in RowsIn({"None"})}
      [] offers[p].kind = "ResizePosition" ->   \* set_position_to_resizing
            {[i \in Positions |-> IF positions[i].state = "Open"
                THEN [state |-> "Resizing", size |-> p, expiry |-> offers[p].expiry]
                ELSE positions[i]]}
      [] offers[p].kind = "Rollover" ->   \* rollover_position
            {[i \in Positions |-> IF positions[i].state = "Open"
                THEN [positions[i] EXCEPT !.state = "Rollover", !.expiry = offers[p].expiry]
                ELSE positions[i]]}
      [] OTHER -> {WithState({"Open"}, "Closing")}

-----------------------------------------------------------------------------
(* New orders: routes/orderbook.rs, orderbook/trading.rs *)

\* A protocol identifier nothing has used
Fresh(p) == task[p] = Idle /\ offers[p] = NoOffer

Executing == \E o \in Orders : orderC[o].state = "Matched"

\* The order is inserted and a task is spawned to process it.
PostOrder(o, p, closes) ==
    /\ orderC[o].state = "None"
    /\ Fresh(p)
    /\ orderC' = [orderC EXCEPT ![o] = [state |-> "Open", closes |-> closes]]
    /\ task' = [task EXCEPT ![p] = [Idle EXCEPT !.pc = "check", !.order = o]]
    /\ UNCHANGED <<offers, chanC, protocols, positions, trades, processedC, lastOutC, inC,
                   matchCheck>>

PosAInState(state) == IF posA.state = "None" THEN posA ELSE [posA EXCEPT !.state = state]

\* The orders table of the app.  Failing an order leaves its execution price.
HasPrice(o) == orderA[o] \in {"Filling", "Filled", "FailedWithPrice"}
set_order_state_to_failed(o) == IF HasPrice(o) THEN "FailedWithPrice" ELSE "Failed"
FillingA == {o \in Orders : orderA[o] = "Filling"}

\* The table after a look for the order that is filling: when there are several, all
\* but one of them fail.  The one that was created last stays; creation times are
\* not modelled, so it can be any.
get_order_in_filling ==
    {[o \in Orders |-> IF o \in FillingA \ {kept} THEN "FailedWithPrice" ELSE orderA[o]] :
        kept \in IF FillingA = {} THEN {NoOrder} ELSE FillingA}

check_channel_state ==
    IF posA.state = "None"
    THEN chanA.state \in {"None", "Cancelled", "Offered", "Accepted", "Settled"}
    ELSE chanA.state = "Established"

\* submit_order of the app up to the answer of the coordinator.  closing: whether
\* the order matches the whole position.
CanSubmit(o) == orderA[o] = "None" /\ check_channel_state /\ FillingA = {}

\* Another order is filling, and the new one is not even stored.
SubmitRefused ==
    /\ check_channel_state
    /\ FillingA # {}
    /\ orderA' \in get_order_in_filling
    /\ UNCHANGED <<coordinatorVars, chanA, posA, processedA, lastOutA, inA, posting, netVars,
                   tradeErrors, boundVars>>

SubmitOrder(o, p, closing) ==
    /\ CanSubmit(o)
    /\ closing => posA.state # "None"
    /\ orderA' = [orderA EXCEPT ![o] = "Open"]
    /\ posting' = posting \union {o}
    /\ PostOrder(o, p, IF closing THEN posA.size ELSE NoProtocol)
    /\ UNCHANGED <<chanA, posA, processedA, lastOutA, inA, netVars, tradeErrors, boundVars>>

\* The request is lost, or refused by the coordinator.
SubmitInVain(o) ==
    /\ o \in Unanswered
    /\ CanSubmit(o)
    /\ orderA' = [orderA EXCEPT ![o] = "Open"]
    /\ posting' = posting \union {o}
    /\ UNCHANGED <<coordinatorVars, chanA, posA, processedA, lastOutA, inA, netVars, tradeErrors,
                   boundVars>>

\* update_position_after_order_submitted
OrderPosted(o) ==
    /\ o \in posting \ Unanswered
    /\ posting' = posting \ {o}
    /\ posA' = IF orderC[o].closes = posA.size THEN PosAInState("Closing") ELSE posA
    /\ UNCHANGED <<coordinatorVars, orderA, chanA, processedA, lastOutA, inA, netVars,
                   tradeErrors, boundVars>>

\* The error branch of submit_order; the coordinator may execute the order all the
\* same, when only the answer is lost.
OrderNotPosted(o) ==
    /\ o \in posting \intersect Unanswered
    /\ posting' = posting \ {o}
    /\ orderA' = [orderA EXCEPT ![o] = set_order_state_to_failed(o)]
    /\ posA' = PosAInState("Open")
    /\ UNCHANGED <<coordinatorVars, chanA, processedA, lastOutA, inA, netVars, tradeErrors,
                   boundVars>>

\* close of expired_positions.rs, and liquidated_positions.rs: the coordinator
\* itself orders an open position closed.
CloseByCoordinator(o, p) ==
    /\ ~ Executing
    /\ \E i \in RowsIn({"Open"}) : PostOrder(o, p, positions[i].size)
    /\ UNCHANGED <<appVars, netVars, tradeErrors, boundVars>>

Bug_GiveUpCloses(o) ==
    /\ orderC[o].state = "Matched"
    /\ RowsIn({"Open"}) # {}
    /\ orderC' = [orderC EXCEPT ![o].state = "Expired"]
    /\ positions' = WithState({"Open"}, "Closed")
    /\ UNCHANGED <<task, offers, chanC, protocols, trades, processedC, lastOutC, inC,
                   matchCheck, appVars, netVars, tradeErrors, boundVars>>

\* ... or gives the position up when the matched order has expired.
GiveUp(o) ==
    /\ orderC[o].state = "Matched"
    /\ RowsIn({"Open"}) # {}
    /\ orderC' = [orderC EXCEPT ![o].state = "Expired"]
    /\ positions' = WithState({"Open"}, "Closing")
    /\ UNCHANGED <<task, offers, chanC, protocols, trades, processedC, lastOutC, inC,
                   matchCheck, appVars, netVars, tradeErrors, boundVars>>

\* The error branch of start: only the trader's own orders are answered.
ReportError(o) ==
    tradeErrors' = IF o \in TraderOrders THEN tradeErrors \union {o} ELSE tradeErrors

\* process_new_market_order: an order is refused (and stays open) while another
\* order of the trader waits for its execution.
CheckOrder(p) ==
    /\ task[p].pc = "check"
    /\ IF Executing
       THEN task' = [task EXCEPT ![p] = Idle] /\ ReportError(task[p].order)
       ELSE task' = [task EXCEPT ![p].pc = "match"] /\ UNCHANGED tradeErrors
    /\ UNCHANGED <<orderC, offers, chanC, protocols, positions, trades, processedC, lastOutC,
                   inC, matchCheck, appVars, netVars, boundVars>>

MatchOrder(p) ==
    /\ task[p].pc = "match"
    /\ orderC' = [orderC EXCEPT ![task[p].order].state = "Matched"]
    /\ task' = [task EXCEPT ![p].pc = "matched", ![p].expiry = calculate_next_expiry]
    /\ UNCHANGED <<offers, chanC, protocols, positions, trades, processedC, lastOutC, inC,
                   matchCheck, appVars, netVars, tradeErrors, boundVars>>

NoMatch(p) ==
    /\ task[p].pc = "match"
    /\ orderC' = [orderC EXCEPT ![task[p].order].state = "Failed"]
    /\ ReportError(task[p].order)
    /\ task' = [task EXCEPT ![p] = Idle]
    /\ UNCHANGED <<offers, chanC, protocols, positions, trades, processedC, lastOutC, inC,
                   matchCheck, appVars, netVars, boundVars>>

Bug_IgnorePendingMatch(p) ==
    /\ matchCheck
    /\ Fresh(p)
    /\ matchCheck' = FALSE
    /\ UNCHANGED <<orderC, task, offers, chanC, protocols, positions, trades, processedC,
                   lastOutC, inC, appVars, netVars, tradeErrors, boundVars>>

\* process_pending_match, once for every Connected event
ProcessPendingMatch(p) ==
    /\ matchCheck
    /\ Fresh(p)
    /\ matchCheck' = FALSE
    /\ \/ \E o \in Orders :
            /\ orderC[o].state = "Matched"
            /\ task' = [task EXCEPT ![p] = [Idle EXCEPT !.pc = "pending", !.order = o,
                                             !.expiry = calculate_next_expiry]]
       \/ ~ Executing /\ UNCHANGED task
    /\ UNCHANGED <<orderC, offers, chanC, protocols, positions, trades, processedC, lastOutC,
                   inC, appVars, netVars, tradeErrors, boundVars>>

-----------------------------------------------------------------------------
(* TradeExecutor::execute *)

\* The error branch of execute
FailTrade(p) ==
    /\ orderC' = [orderC EXCEPT ![task[p].order].state = "Failed"]
    /\ tradeErrors' = tradeErrors \union {task[p].order}
    /\ task' = [task EXCEPT ![p] = Idle]
    /\ UNCHANGED <<offers, chanC, protocols, positions, trades, processedC, lastOutC, inC,
                   matchCheck, appVars, netVars, boundVars>>

\* determine_trade_action: the actions it can return for order o
determine_trade_action(o) ==
    CASE chanC.state \in {"None", "Cancelled"} -> {"OpenChannel"}
      [] chanC.state = "Settled" -> {"OpenPosition"}
      [] chanC.state = "Established" ->
            {IF positions[i].size = orderC[o].closes THEN "Settle" ELSE "ResizePosition" :
                i \in RowsIn({"Open"})}
      [] OTHER -> {}

Executable(o) == orderC[o].state = "Matched" /\ determine_trade_action(o) # {}

BeginTrade(p) ==
    /\ task[p].pc = "pending" \/ (task[p].pc = "matched" /\ connected)
    /\ Executable(task[p].order)
    /\ \E kind \in determine_trade_action(task[p].order) :
        task' = [task EXCEPT ![p].pc = "propose", ![p].kind = kind, ![p].size = p]
    /\ UNCHANGED <<orderC, offers, chanC, protocols, positions, trades, processedC, lastOutC,
                   inC, matchCheck, appVars, netVars, tradeErrors, boundVars>>

BeginTradeFails(p) ==
    /\ task[p].pc = "pending" \/ (task[p].pc = "matched" /\ connected)
    /\ ~ Executable(task[p].order)
    /\ FailTrade(p)

\* The trader is not connected: the order waits for the next Connected event.
SkipTrade(p) ==
    /\ task[p].pc = "matched"
    /\ ~ connected
    /\ task' = [task EXCEPT ![p] = Idle]
    /\ UNCHANGED <<orderC, offers, chanC, protocols, positions, trades, processedC, lastOutC,
                   inC, matchCheck, appVars, netVars, tradeErrors, boundVars>>

\* check_rollover, which the scheduler and every Connected event start
BeginRollover(p) ==
    /\ connected
    /\ Fresh(p)
    /\ is_eligible_for_rollover
    /\ \E i \in RowsIn({"Open", "Rollover"}) :
        /\ ~ IsExpired(positions[i].expiry)
        /\ positions[i].expiry < calculate_next_expiry
        /\ task' = [task EXCEPT ![p] = [pc |-> "propose", kind |-> "Rollover",
                                        order |-> NoOrder, size |-> positions[i].size,
                                        expiry |-> calculate_next_expiry]]
    /\ UNCHANGED <<orderC, offers, chanC, protocols, positions, trades, processedC, lastOutC,
                   inC, matchCheck, appVars, netVars, tradeErrors, boundVars>>

\* propose_dlc_channel, propose_reopen_or_resize, propose_rollover,
\* propose_dlc_channel_collaborative_settlement: the offer is made in rust-dlc
\* and stored as the last outbound message.
Propose(p) ==
    /\ task[p].pc = "propose"
    /\ CanOffer(task[p].kind)
    /\ offers' = [offers EXCEPT ![p] = [kind |-> task[p].kind, order |-> task[p].order,
                                        size |-> task[p].size, expiry |-> task[p].expiry]]
    /\ chanC' = OfferedChannel(p, task[p].kind)
    /\ lastOutC' = Msg(OfferType(task[p].kind), p)
    /\ task' = [task EXCEPT ![p].pc = "start"]
    /\ UNCHANGED <<orderC, protocols, positions, trades, processedC, inC, matchCheck, appVars,
                   netVars, tradeErrors, boundVars>>

\* The proposal can always fail: margins, reserves, an unconfirmed channel, or a
\* channel that has changed its state since determine_trade_action.
ProposeFails(p) ==
    /\ task[p].pc = "propose"
    /\ task[p].order # NoOrder
    /\ FailTrade(p)

ProposeRolloverFails(p) ==
    /\ task[p].pc = "propose"
    /\ task[p].order = NoOrder
    /\ task' = [task EXCEPT ![p] = Idle]
    /\ UNCHANGED <<orderC, offers, chanC, protocols, positions, trades, processedC, lastOutC,
                   inC, matchCheck, appVars, netVars, tradeErrors, boundVars>>

\* start_open_channel_protocol, start_open_position_protocol,
\* start_resize_protocol, start_settle_protocol, start_rollover
StartProtocol(p) ==
    /\ task[p].pc = "start"
    /\ protocols' = [protocols EXCEPT ![p] = "Pending"]
    /\ task' = [task EXCEPT ![p].pc = "position"]
    /\ UNCHANGED <<orderC, offers, chanC, positions, trades, processedC, lastOutC, inC,
                   matchCheck, appVars, netVars, tradeErrors, boundVars>>

\* rollover_position is the only update that fails when it finds no row; the
\* rollover offer is then not sent now.
UpdatePosition(p) ==
    /\ task[p].pc = "position"
    /\ positions' \in PositionUpdates(p)
    /\ task' = IF task[p].kind = "Rollover" /\ RowsIn({"Open"}) = {}
               THEN [task EXCEPT ![p] = Idle]
               ELSE [task EXCEPT ![p].pc = "finish"]
    /\ UNCHANGED <<orderC, offers, chanC, protocols, trades, processedC, lastOutC, inC,
                   matchCheck, appVars, netVars, tradeErrors, boundVars>>

\* update_order_and_match for a trade, then SendLastDlcMessage
FinishTask(p) ==
    /\ task[p].pc = "finish"
    /\ orderC' = IF task[p].order = NoOrder THEN orderC
                 ELSE [orderC EXCEPT ![task[p].order].state = "Taken"]
    /\ SendLastC(lastOutC)
    /\ task' = [task EXCEPT ![p] = Idle]
    /\ UNCHANGED <<offers, chanC, protocols, positions, trades, processedC, lastOutC, inC,
                   matchCheck, appVars, netAC, connected, tradeErrors, boundVars>>

-----------------------------------------------------------------------------
(* The coordinator's message handler: process_incoming_dlc_messages and     *)
(* process_dlc_message.  The first half ends with rust-dlc's new state and  *)
(* the stored reply; the second updates the coordinator's database.         *)

\* set_dlc_protocol_to_failed and the TradeError of an error
FailMessage(m) ==
    /\ protocols' = IF protocols[m.pid] = "None" THEN protocols
                    ELSE [protocols EXCEPT ![m.pid] = "Failed"]
    /\ tradeErrors' = IF m.type # "Reject" /\ offers[m.pid].kind # "Rollover"
                      THEN tradeErrors \union {offers[m.pid].order} ELSE tradeErrors

\* The dlc_messages table knows the hash of a message that was processed before.
Bug_NoDeduplication(m) == FALSE
AlreadyProcessedC(m) == m \in processedC

SkipC ==
    /\ inC = NoMessage /\ netAC # <<>> /\ AlreadyProcessedC(Head(netAC))
    /\ netAC' = Tail(netAC)
    /\ UNCHANGED <<coordinatorVars, appVars, netCA, connected, tradeErrors, boundVars>>

\* Whether rust-dlc can process m
AcceptableC(m) ==
    IF m.type = "Reject" THEN ExpectsReject(m) ELSE Expects(chanC, m, Coordinator(m.type))

ReceiveC ==
    /\ inC = NoMessage /\ netAC # <<>> /\ ~ AlreadyProcessedC(Head(netAC))
    /\ LET m == Head(netAC)
           step == Coordinator(m.type) IN
        /\ AcceptableC(m)
        /\ chanC' = IF m.type = "Reject" THEN RollBack(chanC) ELSE Advance(chanC, m, step)
        /\ lastOutC' = IF step[3] = "None" THEN lastOutC ELSE Msg(step[3], m.pid)
        /\ inC' = m
    /\ netAC' = Tail(netAC)
    /\ UNCHANGED <<orderC, task, offers, protocols, positions, trades, processedC, matchCheck,
                   appVars, netCA, connected, tradeErrors, boundVars>>

RefuseC ==
    /\ inC = NoMessage /\ netAC # <<>> /\ ~ AlreadyProcessedC(Head(netAC))
    /\ ~ AcceptableC(Head(netAC))
    /\ FailMessage(Head(netAC))
    /\ netAC' = Tail(netAC)
    /\ UNCHANGED <<orderC, task, offers, chanC, positions, trades, processedC,
                   lastOutC, inC, matchCheck, appVars, netCA, connected, boundVars>>

\* finish_dlc_protocol: one database transaction, so it takes place as a whole
\* or not at all.
FinishPossible(p) ==
    /\ protocols[p] # "None"
    /\ offers[p].kind \in OpenKinds => RowsIn({"Proposed"}) # {}
    /\ offers[p].kind = "ResizePosition" => RowsIn({"Resizing"}) # {}
    /\ offers[p].kind = "Settle" => RowsIn({"Closing"}) # {}

FinishedPositions(p) ==
    CASE offers[p].kind \in OpenKinds -> {WithState({"Proposed"}, "Open")}
      [] offers[p].kind = "ResizePosition" -> {WithState({"Resizing"}, "Open")}
      [] offers[p].kind = "Settle" ->
            {[positions EXCEPT ![i].state = "Closed"] : i \in RowsIn({"Closing"})}
      [] OTHER -> {WithState({"Rollover"}, "Open")}   \* finish_rollover_protocol

finish_dlc_protocol(p) ==
    /\ protocols' = [protocols EXCEPT ![p] = "Success"]
    /\ positions' \in FinishedPositions(p)
    /\ trades' = IF offers[p].kind = "Rollover" THEN trades
                 ELSE [trades EXCEPT ![p] = @ + 1]

\* The messages that finish a protocol
Finishing == {"Accept", "SettleFinalize", "RenewFinalize"}

\* Rows that a reject puts back, by the state of the channel it left behind
Bug_KeepsProposed == IF chanC.state = "Established" THEN {"Closing", "Rollover"} ELSE {}
Reverted ==
    CASE chanC.state = "Established" -> {"Closing", "Rollover"}
      [] chanC.state \in {"Cancelled", "Settled"} -> {"Proposed"}
      [] OTHER -> {}
RevertedTo == IF chanC.state = "Established" THEN "Open" ELSE "Failed"

Bug_TradeOnAccept ==
    /\ inC.type \in MessageTypes \ {"Reject"}
    /\ inC.type \in Finishing => FinishPossible(inC.pid)
    /\ IF inC.type \in Finishing
       THEN finish_dlc_protocol(inC.pid)
       ELSE trades' = [trades EXCEPT ![inC.pid] = @ + 1] /\ UNCHANGED <<protocols, positions>>
    /\ IF Coordinator(inC.type)[3] = "None" THEN UNCHANGED netCA ELSE SendLastC(lastOutC)
    /\ processedC' = processedC \union {inC}
    /\ inC' = NoMessage
    /\ UNCHANGED <<orderC, task, offers, chanC, lastOutC, matchCheck, appVars, netAC, connected,
                   tradeErrors, boundVars>>

\* The match of process_dlc_message, and SendLastDlcMessage for a reply
CompleteC ==
    /\ inC.type \in MessageTypes \ {"Reject"}
    /\ inC.type \in Finishing => FinishPossible(inC.pid)
    /\ IF inC.type \in Finishing
       THEN finish_dlc_protocol(inC.pid)
       ELSE UNCHANGED <<protocols, positions, trades>>
    /\ IF Coordinator(inC.type)[3] = "None" THEN UNCHANGED netCA ELSE SendLastC(lastOutC)
    /\ processedC' = processedC \union {inC}
    /\ inC' = NoMessage
    /\ UNCHANGED <<orderC, task, offers, chanC, lastOutC, matchCheck, appVars, netAC, connected,
                   tradeErrors, boundVars>>

\* The transaction is rolled back and the reply is not sent now.
CompleteCFails ==
    /\ inC.type \in Finishing
    /\ ~ FinishPossible(inC.pid)
    /\ FailMessage(inC)
    /\ processedC' = processedC \union {inC}
    /\ inC' = NoMessage
    /\ UNCHANGED <<orderC, task, offers, chanC, positions, trades, lastOutC, matchCheck, appVars,
                   netVars, boundVars>>

\* fail_dlc_protocol, which needs the protocol's row, then the position
CompleteReject ==
    /\ inC.type = "Reject"
    /\ FailMessage(inC)
    /\ positions' = IF protocols[inC.pid] = "None" THEN positions
                    ELSE WithState(Reverted, RevertedTo)
    /\ processedC' = processedC \union {inC}
    /\ inC' = NoMessage
    /\ UNCHANGED <<orderC, task, offers, chanC, trades, lastOutC, matchCheck, appVars, netVars,
                   boundVars>>

-----------------------------------------------------------------------------
(* The app *)

\* order_failed: with an order id the order fails, without one the filling order is
\* only looked up; either way the position goes back to open.
order_failed(o) ==
    /\ orderA' \in IF o = NoOrder THEN get_order_in_filling
                   ELSE {[orderA EXCEPT ![o] = set_order_state_to_failed(o)]}
    /\ posA' = PosAInState("Open")

\* SendDlcMessage of a Reject, stamped with the current second
SendReject(p) ==
    \E s \in {clock, clock + 1} :
        /\ s <= MaxClock
        /\ clock' = s
        /\ lastOutA' = [type |-> "Reject", pid |-> p, ts |-> s]
        /\ SendLastA([type |-> "Reject", pid |-> p, ts |-> s])

\* TradeError from the web socket; the order must be known to the app.
OnTradeError(o) ==
    /\ o \in tradeErrors
    /\ tradeErrors' = tradeErrors \ {o}
    /\ IF orderA[o] = "None" THEN UNCHANGED <<orderA, posA>> ELSE order_failed(o)
    /\ UNCHANGED <<coordinatorVars, posting, chanA, processedA, lastOutA, inA, netVars, boundVars>>

\* check_open_orders: an open order is outdated after ORDER_OUTDATED_AFTER.
CheckOpenOrders(o) ==
    /\ orderA[o] = "Open"
    /\ order_failed(o)
    /\ UNCHANGED <<coordinatorVars, posting, chanA, processedA, lastOutA, inA, netVars, tradeErrors,
                   boundVars>>

SkipA ==
    /\ inA = NoMessage /\ netCA # <<>> /\ Head(netCA) \in processedA
    /\ netCA' = Tail(netCA)
    /\ UNCHANGED <<coordinatorVars, appVars, netAC, connected, tradeErrors, boundVars>>

\* First half of process_dlc_message: rust-dlc's new state, the stored reply
ReceiveA ==
    /\ inA = NoMessage /\ netCA # <<>> /\ Head(netCA) \notin processedA
    /\ LET m == Head(netCA)
           step == App(m.type) IN
        /\ IF m.type \in OfferTypes
           THEN CanReceive(m.type) /\ chanA' = ReceivedChannel(m)
           ELSE Expects(chanA, m, step) /\ chanA' = Advance(chanA, m, step)
        /\ lastOutA' = IF step[3] = "None" THEN lastOutA ELSE Msg(step[3], m.pid)
        /\ inA' = m
    /\ netCA' = Tail(netCA)
    /\ UNCHANGED <<coordinatorVars, posting, orderA, posA, processedA, netAC, connected, tradeErrors,
                   boundVars>>

Bug_DropOffer ==
    /\ inA = NoMessage /\ netCA # <<>> /\ Head(netCA) \notin processedA
    /\ Head(netCA).type \in OfferTypes
    /\ order_failed(NoOrder)
    /\ netCA' = Tail(netCA)
    /\ UNCHANGED <<coordinatorVars, posting, chanA, processedA, lastOutA, inA, netAC, connected,
                   tradeErrors, boundVars>>

\* force_reject_offer: an offer can always fail in rust-dlc.
ForceRejectOffer ==
    /\ inA = NoMessage /\ netCA # <<>> /\ Head(netCA) \notin processedA
    /\ Head(netCA).type \in OfferTypes
    /\ order_failed(NoOrder)
    /\ SendReject(Head(netCA).pid)
    /\ netCA' = Tail(netCA)
    /\ UNCHANGED <<coordinatorVars, posting, chanA, processedA, inA, connected, tradeErrors, time,
                   disconnects, crashes>>

RefuseA ==
    /\ inA = NoMessage /\ netCA # <<>> /\ Head(netCA) \notin processedA
    /\ Head(netCA).type \notin OfferTypes
    /\ ~ Expects(chanA, Head(netCA), App(Head(netCA).type))
    /\ netCA' = Tail(netCA)
    /\ UNCHANGED <<coordinatorVars, appVars, netAC, connected, tradeErrors, boundVars>>

\* The second half for an offer starts in the state the first half left; a
\* reconnect in between has rejected the offer.
Pending == inA.type \in OfferTypes /\ chanA.state = Acceptance(inA.type)[1]
IsRollover(p) == offers[p].kind = "Rollover"
OrderOf(p) == offers[p].order

DoneA ==
    /\ processedA' = processedA \union {inA}
    /\ inA' = NoMessage

\* set_order_to_filling needs an order the app knows; a settle offer brings the
\* coordinator's order along (async_order_filling).  A rollover needs a position.
Answerable ==
    IF IsRollover(inA.pid) THEN posA.state # "None"
    ELSE orderA[OrderOf(inA.pid)] # "None" \/ inA.type = "SettleOffer"

\* handle_rollover_offer
Bug_KeepsExpiry(p) == [posA EXCEPT !.state = "Rollover"]
RollingPosition(p) == [posA EXCEPT !.state = "Rollover", !.expiry = offers[p].expiry]

\* process_dlc_channel_offer, process_settle_offer, process_renew_offer,
\* process_rollover_offer when rust-dlc accepts
AcceptOffer ==
    /\ Pending
    /\ Answerable
    /\ chanA' = [chanA EXCEPT !.state = Acceptance(inA.type)[2]]
    /\ IF IsRollover(inA.pid)
       THEN /\ orderA' = orderA
            /\ posA' = RollingPosition(inA.pid)
       ELSE /\ orderA' = [orderA EXCEPT ![OrderOf(inA.pid)] = "Filling"]
            /\ posA' = IF inA.type = "RenewOffer" THEN PosAInState("Resizing") ELSE posA
    /\ lastOutA' = Msg(Acceptance(inA.type)[3], inA.pid)
    /\ SendLastA(Msg(Acceptance(inA.type)[3], inA.pid))
    /\ DoneA
    /\ UNCHANGED <<coordinatorVars, posting, netCA, connected, tradeErrors, boundVars>>

\* ... and when it does not: reject_dlc_channel_offer, reject_settle_offer,
\* reject_renew_offer, reject_rollover_offer.  An offer to open or to settle has set
\* the order to filling before.
RejectOffer ==
    /\ Pending
    /\ IsRollover(inA.pid) \/ Answerable
    /\ chanA' = RollBack(chanA)
    /\ IF IsRollover(inA.pid) THEN UNCHANGED <<orderA, posA>>
       ELSE /\ orderA' = [orderA EXCEPT ![OrderOf(inA.pid)] =
                            IF inA.type = "RenewOffer" THEN set_order_state_to_failed(OrderOf(inA.pid))
                            ELSE "FailedWithPrice"]
            /\ posA' = PosAInState("Open")
    /\ SendReject(inA.pid)
    /\ DoneA
    /\ UNCHANGED <<coordinatorVars, posting, netCA, connected, tradeErrors, time, disconnects, crashes>>

\* The handler fails half way: a renew offer was accepted in rust-dlc, an offer to
\* open a channel was not, and no answer is sent.
AcceptUnanswered ==
    /\ Pending
    /\ ~ Answerable
    /\ chanA' = IF inA.type = "Offer" THEN chanA
                ELSE [chanA EXCEPT !.state = Acceptance(inA.type)[2]]
    /\ DoneA
    /\ UNCHANGED <<coordinatorVars, posting, orderA, posA, lastOutA, netVars, tradeErrors, boundVars>>

\* Neither accepting nor rejecting works; an offer to open or to settle has
\* already set the order to filling.
StaleOffer ==
    /\ inA.type \in OfferTypes
    /\ ~ Pending
    /\ orderA' = IF inA.type = "RenewOffer" \/ ~ Answerable THEN orderA
                 ELSE [orderA EXCEPT ![OrderOf(inA.pid)] = "Filling"]
    /\ DoneA
    /\ UNCHANGED <<coordinatorVars, posting, chanA, posA, lastOutA, netVars, tradeErrors, boundVars>>

order_filled(o) == orderA' = IF HasPrice(o) THEN [orderA EXCEPT ![o] = "Filled"] ELSE orderA

\* Sign, RenewRevoke: order_filled and
\* update_position_after_dlc_channel_creation_or_update.  The position is only
\* updated when there is none yet or it is resizing.  Without an execution price
\* opening it panics, and no message is processed until the app is restarted.
CompleteOpenA ==
    /\ inA.type \in {"Sign", "RenewRevoke"} /\ ~ IsRollover(inA.pid)
    /\ posA.state = "None" => HasPrice(OrderOf(inA.pid))
    /\ order_filled(OrderOf(inA.pid))
    /\ posA' = IF posA.state \in {"None", "Resizing"} /\ HasPrice(OrderOf(inA.pid))
               THEN [state |-> "Open", size |-> inA.pid, expiry |-> offers[inA.pid].expiry]
               ELSE posA
    /\ DoneA
    /\ UNCHANGED <<coordinatorVars, posting, chanA, lastOutA, netVars, tradeErrors, boundVars>>

\* RolloverRevoke: update_position_after_rollover
CompleteRolloverA ==
    /\ inA.type = "RenewRevoke" /\ IsRollover(inA.pid)
    /\ posA' = PosAInState("Open")
    /\ DoneA
    /\ UNCHANGED <<coordinatorVars, posting, orderA, chanA, lastOutA, netVars, tradeErrors, boundVars>>

\* SettleConfirm: order_filled, update_position_after_dlc_closure, and the reply
\* unless the closing order cannot be applied to the position
CompleteSettleA ==
    /\ inA.type = "SettleConfirm"
    /\ order_filled(OrderOf(inA.pid))
    /\ IF posA.state = "None" \/ HasPrice(OrderOf(inA.pid))
       THEN /\ posA' = [state |-> "None", size |-> NoProtocol, expiry |-> 0]
            /\ SendLastA(lastOutA)
       ELSE UNCHANGED <<posA, netAC>>
    /\ DoneA
    /\ UNCHANGED <<coordinatorVars, posting, chanA, lastOutA, netCA, connected, tradeErrors, boundVars>>

CompleteRenewConfirmA ==
    /\ inA.type = "RenewConfirm"
    /\ SendLastA(lastOutA)
    /\ DoneA
    /\ UNCHANGED <<coordinatorVars, posting, orderA, chanA, posA, lastOutA, netCA, connected,
                   tradeErrors, boundVars>>

-----------------------------------------------------------------------------
(* Connection and restarts *)

\* What is left of a queue when the connection breaks: the messages that had
\* already reached the receiver's inbox
Prefixes(q) == {SubSeq(q, 1, k) : k \in 0 .. Len(q)}

Disconnect ==
    /\ connected
    /\ disconnects < MaxDisconnects
    /\ disconnects' = disconnects + 1
    /\ connected' = FALSE
    /\ netCA' \in Prefixes(netCA)
    /\ netAC' \in Prefixes(netAC)
    /\ UNCHANGED <<coordinatorVars, appVars, tradeErrors, time, clock, crashes>>

\* on_connect of both dlc_handler.rs: the coordinator resends its last message;
\* the app rejects an offer it has not accepted, or resends its own.
ConnectAndResend ==
    /\ ~ connected
    /\ connected' = TRUE
    /\ netCA' = Resend(netCA, lastOutC)
    /\ chanA.state \notin {"Offered", "SettledReceived", "RenewOffered"}
    /\ netAC' = Resend(netAC, lastOutA)
    /\ matchCheck' = TRUE
    /\ UNCHANGED <<orderC, task, offers, chanC, protocols, positions, trades, processedC,
                   lastOutC, inC, appVars, tradeErrors, boundVars>>

ConnectAndReject ==
    /\ ~ connected
    /\ connected' = TRUE
    /\ netCA' = Resend(netCA, lastOutC)
    /\ chanA.state \in {"Offered", "SettledReceived", "RenewOffered"}
    /\ chanA' = RollBack(chanA)
    /\ order_failed(NoOrder)
    /\ \E s \in {clock, clock + 1} :
        /\ s <= MaxClock
        /\ clock' = s
        /\ lastOutA' = [type |-> "Reject", pid |-> chanA.ref, ts |-> s]
    /\ netAC' = Append(IF chanA.state = "Offered" THEN Resend(netAC, lastOutA) ELSE netAC,
                       lastOutA')
    /\ matchCheck' = TRUE
    /\ UNCHANGED <<orderC, task, offers, chanC, protocols, positions, trades, processedC,
                   lastOutC, inC, processedA, inA, posting, tradeErrors, time, disconnects, crashes>>

\* A restart loses what was only in memory: the tasks, the inbox and the handler
\* half way through, whose message may have been stored as processed.
CrashC ==
    /\ crashes < MaxCrashes /\ disconnects < MaxDisconnects
    /\ crashes' = crashes + 1
    /\ disconnects' = disconnects + 1
    /\ connected' = FALSE
    /\ netAC' = <<>>
    /\ netCA' \in Prefixes(netCA)
    /\ tradeErrors' = {}
    /\ processedC' \in {processedC, processedC \union ({inC} \ {NoMessage})}
    /\ inC' = NoMessage
    /\ task' = [p \in Protocols |-> Idle]
    /\ matchCheck' = FALSE
    /\ UNCHANGED <<orderC, offers, chanC, protocols, positions, trades, lastOutC, appVars, time,
                   clock>>

CrashA ==
    /\ crashes < MaxCrashes /\ disconnects < MaxDisconnects
    /\ crashes' = crashes + 1
    /\ disconnects' = disconnects + 1
    /\ connected' = FALSE
    /\ netCA' = <<>>
    /\ netAC' \in Prefixes(netAC)
    /\ tradeErrors' = {}
    /\ processedA' \in {processedA, processedA \union ({inA} \ {NoMessage})}
    /\ inA' = NoMessage
    /\ posting' = {}
    /\ UNCHANGED <<coordinatorVars, orderA, chanA, posA, lastOutA, time, clock>>

-----------------------------------------------------------------------------
Init ==
    /\ orderC = [o \in Orders |-> [state |-> "None", closes |-> NoProtocol]]
    /\ task = [p \in Protocols |-> Idle]
    /\ offers = [p \in Protocols |-> NoOffer]
    /\ chanC = InChannel("None", NoProtocol, "None", NoProtocol)
    /\ protocols = [p \in Protocols |-> "None"]
    /\ positions = [i \in Positions |-> [state |-> "None", size |-> NoProtocol, expiry |-> 0]]
    /\ trades = [p \in Protocols |-> 0]
    /\ processedC = {} /\ lastOutC = NoMessage /\ inC = NoMessage
    /\ matchCheck = FALSE
    /\ orderA = [o \in Orders |-> "None"]
    /\ chanA = InChannel("None", NoProtocol, "None", NoProtocol)
    /\ posA = [state |-> "None", size |-> NoProtocol, expiry |-> 0]
    /\ processedA = {} /\ lastOutA = NoMessage /\ inA = NoMessage
    /\ posting = {}
    /\ netCA = <<>> /\ netAC = <<>> /\ tradeErrors = {} /\ connected = TRUE
    /\ time = 0 /\ clock = 0 /\ disconnects = 0 /\ crashes = 0

NewOrder(p) ==
    \/ \E o \in TraderOrders, closing \in BOOLEAN : SubmitOrder(o, p, closing)
    \/ \E o \in CoordinatorOrders : CloseByCoordinator(o, p)

ProcessOrder(p) ==
    \/ CheckOrder(p) \/ MatchOrder(p) \/ NoMatch(p)
    \/ ProcessPendingMatch(p)
    \/ BeginTrade(p) \/ BeginTradeFails(p) \/ SkipTrade(p)

RunProtocol(p) ==
    \/ Propose(p) \/ ProposeFails(p) \/ ProposeRolloverFails(p)
    \/ StartProtocol(p) \/ UpdatePosition(p) \/ FinishTask(p)

HandlerC == SkipC \/ ReceiveC \/ RefuseC \/ CompleteC \/ CompleteCFails \/ CompleteReject

HandlerA ==
    \/ SkipA \/ ReceiveA \/ ForceRejectOffer \/ RefuseA
    \/ AcceptOffer \/ RejectOffer \/ AcceptUnanswered \/ StaleOffer
    \/ CompleteOpenA \/ CompleteRolloverA \/ CompleteSettleA \/ CompleteRenewConfirmA

Connect == ConnectAndResend \/ ConnectAndReject

Next ==
    \/ \E p \in Protocols :
        NewOrder(p) \/ ProcessOrder(p) \/ RunProtocol(p) \/ BeginRollover(p)
    \/ \E o \in TraderOrders : SubmitInVain(o) \/ OrderPosted(o) \/ OrderNotPosted(o)
    \/ SubmitRefused
    \/ \E o \in Orders : GiveUp(o) \/ OnTradeError(o) \/ CheckOpenOrders(o)
    \/ HandlerC
    \/ HandlerA
    \/ Disconnect
    \/ Connect
    \/ CrashC
    \/ CrashA
    \/ Tick

Spec == Init /\ [][Next]_vars

\* Orderly trading: as long as the connection was never lost, the coordinator
\* executes no order or rollover between the two halves of the handling of a
\* message, the trader has one unfinished order at a time, and the coordinator
\* answers every order that is posted.
Proposing == {p \in Protocols : task[p].pc \in {"propose", "start", "position", "finish"}}
Unfinished ==
    {o \in Orders : orderA[o] \in {"Open", "Filling"}} \union posting \union tradeErrors
        \union ({task[p].order : p \in Protocols} \ {NoOrder})
Orderly ==
    disconnects = 0 =>
        /\ inC = NoMessage \/ Proposing = {}
        /\ \A o, u \in Unfinished : o = u
        /\ posting \intersect Unanswered = {}

OrderlySpec == Init /\ [][Next /\ Orderly']_vars

\* Tokio runs every spawned task and both message loops to their end, the app's
\* keep_connected reconnects for ever, and the web socket delivers.  Nobody owes
\* an order, a rollover, a timeout, a failure or a restart.
Fairness ==
    /\ \A p \in Protocols : WF_vars(ProcessOrder(p)) /\ WF_vars(RunProtocol(p))
    /\ \A o \in Orders : WF_vars(OnTradeError(o))
    /\ WF_vars(HandlerC) /\ WF_vars(HandlerA) /\ WF_vars(Connect)

FairSpec == Spec /\ Fairness

-----------------------------------------------------------------------------
(* Properties that hold *)

MaybeMessage == Messages \union {NoMessage}

\* Every variable has its type; in particular only stored messages are ever on
\* the wire, never the missing one (send_last_dlc_message of the dlc_handler.rs).
TypeOK ==
    /\ orderC \in [Orders -> OrderRows]
    /\ task \in [Protocols -> Tasks]
    /\ offers \in [Protocols -> Offers]
    /\ chanC \in Channels
    /\ protocols \in [Protocols -> ProtocolStates]
    /\ positions \in [Positions -> PositionRows]
    /\ trades \in [Protocols -> Nat]
    /\ processedC \subseteq Messages /\ lastOutC \in MaybeMessage /\ inC \in MaybeMessage
    /\ matchCheck \in BOOLEAN
    /\ orderA \in [Orders -> AppOrderStates]
    /\ chanA \in Channels
    /\ posA \in PositionRows
    /\ processedA \subseteq Messages /\ lastOutA \in MaybeMessage /\ inA \in MaybeMessage
    /\ posting \subseteq TraderOrders
    /\ netCA \in Seq(Messages) /\ netAC \in Seq(Messages)
    /\ tradeErrors \subseteq Orders
    /\ connected \in BOOLEAN
    /\ {time, clock, disconnects, crashes} \subseteq Nat

\* However often messages are resent, handlers repeated or processes restarted,
\* a protocol inserts its trade at most once (finish_dlc_protocol).
TradeOncePerProtocol == \A p \in Protocols : trades[p] <= 1

\* Whenever neither side is in the middle of a protocol, both hold the same
\* contract: no interleaving of offers, rejects, resends and rollovers leaves
\* them established on different ones.
AtRest == {"Established", "Settled"}
ContractsAgree ==
    chanA.state \in AtRest /\ chanC.state \in AtRest => chanA.contract = chanC.contract

\* Rows of the positions table are only ever closed by a settlement with a trade,
\* one each (finish_close_position_trade_dlc_protocol).
ClosedOnlyBySettlement ==
    Cardinality(RowsIn({"Closed"})) <=
        Cardinality({p \in Protocols : offers[p].kind = "Settle" /\ trades[p] = 1})

\* In orderly trading (OrderlySpec), as long as the connection was never lost, the
\* position the app shows is the contract of its channel: its quantity, and once it
\* is open its expiry too, through opens, resizes, rollovers and rejections.
AppMirrorsChannel ==
    disconnects = 0 /\ posA.state # "None" /\ chanA.state = "Established" /\ inA = NoMessage =>
        /\ posA.size = offers[chanA.contract].size
        /\ posA.state = "Open" => posA.expiry = offers[chanA.contract].expiry

Live == {"Proposed", "Open", "Closing", "Rollover", "Resizing"}
Quiet == inC = NoMessage /\ \A p \in Protocols : task[p] = Idle
NeverFailed(kind) == \A p \in Protocols : offers[p].kind = kind => protocols[p] # "Failed"

\* In orderly trading, as long as the connection was never lost and no resize was
\* rejected, when the coordinator has nothing half done its database mirrors the
\* channel: one live row with the quantity of the contract, and its expiry unless a
\* rollover was rejected, while there is a contract, and none while there is not
\* (UpdatePosition, CompleteC).
DatabaseMirrorsChannel ==
    disconnects = 0 /\ Quiet /\ NeverFailed("ResizePosition") =>
        /\ chanC.state = "Established" =>
            \E i \in Positions :
                /\ RowsIn(Live) = {i}
                /\ positions[i].state \in {"Open", "Closing"}
                /\ positions[i].size = offers[chanC.contract].size
                /\ NeverFailed("Rollover") => positions[i].expiry = offers[chanC.contract].expiry
        /\ chanC.state \in {"None", "Cancelled", "Settled"} => RowsIn(Live) = {}

\* A matched order does not stay matched: it is executed, or fails, or is given
\* up, even when the trader was offline when it was matched or a process
\* restarts (monitor and process_pending_match of async_match.rs).
MatchedIsResolved ==
    \A o \in Orders : orderC[o].state = "Matched" ~> orderC[o].state # "Matched"

\* The coordinator's channel always comes back to a state in which a trade can be
\* proposed: resending the last message recovers
\* whatever the lost connection interrupted (on_connect of the dlc_handler.rs).
ChannelComesToRest ==
    []<>(chanC.state \in {"None", "Cancelled"} \union AtRest)

\* While the connection holds, every protocol that was started ends.
EveryProtocolEnds ==
    \A p \in Protocols :
        protocols[p] = "Pending" ~> protocols[p] \in {"Success", "Failed"} \/ disconnects > 0

\* The coordinator's tables are the ledger of TradeLedger: no resent, late, lost or
\* refused message, no concurrent task and no restart makes a success a failure,
\* inserts a trade without a success or a second time, or turns an offer whose
\* rejection was processed into a success (set_dlc_protocol_to_failed and
\* finish_dlc_protocol write without looking at the recorded state).
Ledger == INSTANCE TradeLedger WITH
    outcome <- protocols,
    trades <- trades,
    rejected <- {m.pid : m \in {r \in processedC : r.type = "Reject"}}

ImplementsLedger == Ledger!Spec
=============================================================================
